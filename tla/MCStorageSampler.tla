-------------------------- MODULE MCStorageSampler --------------------------
(***************************************************************************)
(* StorageSampler with two mounts, one, and none (the configuration's       *)
(* validation refuses duplicates).                                          *)
(***************************************************************************)
EXTENDS StorageSampler

CONSTANTS home, nfs

MCPaths == {home, nfs}
MCConfigs == { << home, nfs >>, << nfs >>, << >> }
MCTables == { {home, nfs}, {home} }
=============================================================================
