-------------------------- MODULE MCHistoryCoordinator --------------------------
(* Two messages beside one synchronize call, or one message beside two, over a  *)
(* store and a reader that may fail, the second also when the provider is gone; *)
(* and the smallest instance in which both may fail.                            *)
EXTENDS HistoryCoordinator, TLC

CONSTANTS i1, i2, a1, y1, y2

One == {[ids |-> {i1}, syncs |-> {y1}, failing |-> {"store", "reader"}]}
Both == {[ids |-> {i1, i2}, syncs |-> {y1}, failing |-> {"store", "reader"}],
         [ids |-> {i1}, syncs |-> {y1, y2}, failing |-> {"store", "reader", "provider"}]}

================================================================================
