---------------------------- MODULE MCLifecycle ----------------------------
(***************************************************************************)
(* Lifecycle with a file that cannot be read, an empty one, three that are  *)
(* accepted, and for each check of Validate but that of the host, whose     *)
(* default is never empty, one that only it refuses.                        *)
(***************************************************************************)
EXTENDS Lifecycle

Base == [ZeroConfig EXCEPT !.port = 19090, !.modules = {"cpu"}]
Mount(path, alias) == [path |-> path, alias |-> alias]

MCRawConfigs == {
    Unreadable,
    ZeroConfig,
    [Base EXCEPT !.modules = {"gpu"}, !.capacity = -1],
    [Base EXCEPT !.host = "192.0.2.1"],
    [Base EXCEPT !.modules = {"cpu", "storage"}, !.host = "0.0.0.0", !.mounts = << Mount("/", "root") >>,
                 !.limit = TRUE, !.cors = TRUE,
                 !.origins = << Origin("https", << "*", "lab", "org" >>) >>],
    [Base EXCEPT !.port = 65536],
    [Base EXCEPT !.interval = 50],
    [Base EXCEPT !.interval = -1000],
    [Base EXCEPT !.modules = {"storage"}, !.mounts = << Mount("", "a") >>],
    [Base EXCEPT !.modules = {"storage"}, !.mounts = << Mount("/", "a"), Mount("/", "b") >>],
    [Base EXCEPT !.limit = TRUE, !.rps = -1],
    [Base EXCEPT !.limit = TRUE, !.burst = -1],
    [Base EXCEPT !.cors = TRUE, !.origins = << Origin("https", << "*", "org" >>) >>],
    [Base EXCEPT !.cors = TRUE, !.origins = << NoOrigin >>] }
=============================================================================
