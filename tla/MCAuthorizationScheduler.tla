------------------------ MODULE MCAuthorizationScheduler ------------------------
(* One slot in each pool.  Three foreground jobs over one waiting place, so     *)
(* that one of them may be refused; three background jobs over two, so that two *)
(* of them may wait; or one job of each pool.  Times are 0 (spent), 1 (too      *)
(* short) and 2.                                                                *)
EXTENDS AuthorizationScheduler, TLC

CONSTANTS fg, bg, j1, j2, j3, b1, b2, b3

MCPoolOf == [j \in Jobs |-> IF j \in {j1, j2, j3} THEN fg ELSE bg]
OneSlot == [p \in Pools |-> 1]
OneAndTwo == [p \in Pools |-> IF p = fg THEN 1 ELSE 2]
Mixed == {{j1, j2, j3}, {b1, b2, b3}, {j1, b1}}

================================================================================
