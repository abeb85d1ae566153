----------------------------- MODULE MCPipeline -----------------------------
(***************************************************************************)
(* Pipeline with one peer, a second address it may claim, and requests that *)
(* differ in what the layers look at.                                       *)
(***************************************************************************)
EXTENDS Pipeline, TLC

CONSTANTS peer, other

Lab(sub) == Origin("https", sub \o << "lab", "org" >>)
Request(method, origin) ==
    [method |-> method, origin |-> origin, path |-> "/metrics", remote |-> peer,
     xff |-> NoAddr, idValid |-> FALSE]

MCRequests == {
    Request("GET", NoOrigin),
    [Request("GET", Lab(<< "ui" >>)) EXCEPT !.xff = other, !.idValid = TRUE],
    [Request("OPTIONS", NoOrigin) EXCEPT !.idValid = TRUE],
    Request("OPTIONS", Lab(<< "ui" >>)),
    Request("OPTIONS", Lab(<< "x", "ui" >>)),
    [Request("GET", Lab(<< "*" >>)) EXCEPT !.path = "/health"],
    [Request("GET", [Lab(<< "ui" >>) EXCEPT !.user = TRUE]) EXCEPT !.path = "/health"],
    Request("GET", Origin("http", << "localhost" >>)) }

Setup(cors, limit, trust) ==
    [cors |-> cors, limit |-> limit, trust |-> trust, exempt |-> {"/health"},
     allowed |-> << Lab(<< "*" >>), Origin("http", << "localhost" >>) >>]

Symmetry == Permutations(Reqs)

MCSetups == { Setup(TRUE, TRUE, FALSE), Setup(FALSE, TRUE, TRUE), Setup(TRUE, FALSE, FALSE) }
=============================================================================
