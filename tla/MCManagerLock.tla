----------------------------- MODULE MCManagerLock -----------------------------
(* Small instances of ManagerLock: three managers in three processes.          *)
EXTENDS ManagerLock, TLC

CONSTANTS m1, m2, m3, p1, p2, p3

\* Every manager in a process of its own, as installed.
Apart == m1 :> p1 @@ m2 :> p2 @@ m3 :> p3

================================================================================
