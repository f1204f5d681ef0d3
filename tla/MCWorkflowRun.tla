---------------------------- MODULE MCWorkflowRun ----------------------------
(* One session, two operations, and programs of a few steps around them.     *)
EXTENDS WorkflowRun, TLC

CONSTANTS a, o1, o2, open, first, again, second, wait1, early, look, kid, hold

Kinds == open :> "create" @@ first :> "submit" @@ again :> "submit" @@ second :> "submit"
           @@ wait1 :> "result" @@ early :> "result" @@ look :> "inspect"
           @@ kid :> "child" @@ hold :> "wait"
InSession == [st \in Steps |-> a]
Named == [st \in Steps |->
            CASE st \in {open, kid, hold} -> NoOperation
              [] st = second -> o2
              [] OTHER -> o1]
Home == [o \in Operations |-> a]

\* An operation awaited in a run that may be stopped at any time; submits
\* beside each other; one operation submitted, awaited and looked at at
\* once; a child and a wait in a run that may be stopped.
Awaited == {open, first, wait1}
Rivals == {open, first, second}
Crowd == {open, first, again, early}
Looks == {open, first, look}
Beside == {kid, hold}
Shapes == {Awaited, Rivals, Crowd, Looks, Beside}
Stops == {Awaited, Beside}
Failing == [p \in Shapes |->
              CASE p \in {Awaited, Rivals} -> FailureKinds
                [] p = Looks -> {"end"}
                [] OTHER -> {}]
\* Nothing goes wrong: no save, answer, timeout or host fails.
Quiet == [p \in Shapes |-> {}]
Order == [st \in Steps |->
            CASE st \in {open, kid, hold} -> {}
              [] st = wait1 -> {first}
              [] OTHER -> {open}]

==============================================================================
