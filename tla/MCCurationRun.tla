------------------------------ MODULE MCCurationRun ------------------------------
(* Two runs over a small backlog: beside a busy clock and busy callers; with a   *)
(* cancellation and a crash of the host; with a policy that changes its mind;    *)
(* and with a batch of two, which can be split.                                  *)
EXTENDS CurationRun

Busy == [units |-> 0, limit |-> 1, upsets |-> {"coordinator", "crash"}]
Harsh == [units |-> 1, limit |-> 1, upsets |-> {"abort", "crash"}]
Strict == [units |-> 1, limit |-> 1, upsets |-> {"denial", "abort"}]
Split == [units |-> 2, limit |-> 2, upsets |-> {}]
All == {Busy, Harsh, Strict, Split}

==================================================================================
