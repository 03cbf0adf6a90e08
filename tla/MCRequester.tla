----------------------------- MODULE MCRequester -----------------------------
(* Finite instances of Requester.                                          *)
EXTENDS Requester

BothThreads == {"main", "io"}

(* Both threads request.                                                   *)
BothRequest ==
  [t \in BothThreads |->
     IF t = "main" THEN {"request_raw"} ELSE {"request", "post"}]

(* The programs' own pattern: the console's thread requests while handlers *)
(* on the io thread post.                                                  *)
TwoCallers ==
  [t \in BothThreads |-> IF t = "main" THEN {"request_raw"} ELSE {"post"}]
=============================================================================
