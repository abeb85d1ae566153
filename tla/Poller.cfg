SPECIFICATION Spec
CONSTANTS
    Keys = {"latest"}
    Panels = {s1, s2, s3}
    KeyOf <- MCKeyOf
    Throwing = {s2}
    MaxVersion = 3
INVARIANTS OneChain PanelsAreCurrent
PROPERTY PageRecovers
