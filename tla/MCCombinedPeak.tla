--------------------------- MODULE MCCombinedPeak ---------------------------
(***************************************************************************)
(* CombinedPeak: one cpu client while the number of cores changes, two that *)
(* race on one core, and one client of each of the other modules.           *)
(***************************************************************************)
EXTENDS CombinedPeak

CONSTANTS c1, c2

Only(module) == [module |-> module, clients |-> {c1}, widths |-> {1, 2},
                 loads |-> {0, 1}, overall |-> {0, 1}]

MCWorkloads ==
    { Only(module) : module \in {"cpu", "memory", "gpu", "gpu disabled", "storage"} }
        \cup { [module |-> "cpu", clients |-> {c1, c2}, widths |-> {1},
                 loads |-> {0, 1, 2}, overall |-> {0}] }
=============================================================================
