------------------------------ MODULE TaskEffect ------------------------------
(***************************************************************************)
(* What the task dispatcher promises its callers about the effect behind a *)
(* step, with no files, crashes, aborts or handlers: an effect is started  *)
(* only while nothing about the step is uncertain and no attempt may have  *)
(* had its effect, each attempt at most once; an uncertain effect is       *)
(* settled, never repeated; and an output a caller has heard is the one    *)
(* output of the step for ever.                                            *)
(***************************************************************************)
EXTENDS Integers

CONSTANTS Steps, Attempts, Outputs, NoOutput

VARIABLE effect

Phases == {"ready", "uncertain", "done", "refused"}

Effect == [phase : Phases, starts : [Attempts -> Nat], doubt : SUBSET Attempts,
           output : Outputs \cup {NoOutput}, told : SUBSET Outputs]

Init ==
  effect = [s \in Steps |->
             [phase |-> "ready", starts |-> [a \in Attempts |-> 0], doubt |-> {},
              output |-> NoOutput, told |-> {}]]

(* An attempt begins: from now on the effect may have happened.  It may be *)
(* given up before it starts the effect.                                   *)
Begins(e, f) ==
  /\ e.phase = "ready" /\ f.phase = "uncertain"
  /\ \/ f.starts = e.starts /\ f.doubt = e.doubt
     \/ \E a \in Attempts : /\ e.starts[a] = 0 /\ e.doubt = {}
                            /\ f.starts = [e.starts EXCEPT ![a] = 1]
                            /\ f.doubt = {a}
  /\ f.output = e.output /\ f.told = e.told

(* Who carried the effect out, or looked for it, says that attempts of it  *)
(* had none.                                                               *)
Denies(e, f) ==
  /\ e.phase = "uncertain"
  /\ f.doubt \subseteq e.doubt
  /\ f = [e EXCEPT !.doubt = f.doubt]

(* It has not happened, and only then may be begun again, or it is never   *)
(* to be begun again.                                                      *)
Clears(e, f) ==
  /\ e.phase = "uncertain"
  /\ f.phase = "refused" \/ (f.phase = "ready" /\ e.doubt = {})
  /\ f.starts = e.starts /\ f.doubt = e.doubt
  /\ f.output = e.output /\ f.told = e.told

(* It turns out to have happened, with an output callers may be told.      *)
Completes(e, f) ==
  /\ e.phase = "uncertain" /\ f.phase = "done"
  /\ f.starts = e.starts /\ f.doubt = e.doubt
  /\ f.output \in Outputs
  /\ f.told \in {e.told, e.told \cup {f.output}}

Tells(e, f) ==
  /\ e.phase = "done"
  /\ f = [e EXCEPT !.told = @ \cup {e.output}]

Evolves(e, f) ==
  Begins(e, f) \/ Denies(e, f) \/ Clears(e, f) \/ Completes(e, f) \/ Tells(e, f)

(* A crash may settle several steps at once.                               *)
Next ==
  /\ effect' \in [Steps -> Effect]
  /\ \A s \in Steps : Evolves(effect[s], effect'[s]) \/ effect'[s] = effect[s]

Spec == Init /\ [][Next]_effect
=============================================================================
