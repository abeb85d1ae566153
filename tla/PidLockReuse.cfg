SPECIFICATION Spec
CONSTANTS
    Pids = {p1, p2, p3}
    Absent = Absent
    Empty = Empty
    Garbled = Garbled
PROPERTY RefusedOnlyByAnother
