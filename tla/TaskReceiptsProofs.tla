------------------------- MODULE TaskReceiptsProofs -------------------------
(* Proofs about the receipt dispatcher, for every set of steps, runs,      *)
(* fingerprints and outputs and every bound on attempts and crashes.       *)
EXTENDS TaskReceipts, TLAPS

LEMMA OutcomeFacts ==
  /\ \A c \in Codes : Failure(c) \in Outcomes /\ Failure(c).status = c
                      /\ Failure(c) # Intent
  /\ \A o \in Outputs : Success(o) \in Outcomes
                        /\ Success(o).status = "completed"
  /\ \A x \in Outcomes : x.status \in Codes \cup {"completed"} /\ x # Intent
  /\ Outcomes \subseteq Contents /\ Intent \in Contents
  /\ Intent.status = "intent"
  /\ NoReceipt.status = "absent"
<1>1. \A c \in Codes : Failure(c) \in Outcomes /\ Failure(c).status = c
  BY DEF Outcomes, Failure
<1>2. \A o \in Outputs : Success(o) \in Outcomes
                         /\ Success(o).status = "completed"
  BY DEF Outcomes, Success
<1>3. Intent.status = "intent" /\ NoReceipt.status = "absent"
  BY DEF Intent, NoReceipt
<1>4. \A x \in Outcomes : x.status \in Codes \cup {"completed"}
  BY DEF Outcomes, Failure, Success
<1>5. "intent" \notin Codes \cup {"completed"}
  BY DEF Codes
<1>6. \A x \in Outcomes : x # Intent
  BY <1>3, <1>4, <1>5
<1> QED BY <1>1, <1>2, <1>3, <1>4, <1>6 DEF Contents

(* An entry whose pc is not "idle" is a full record.                       *)
LEMMA EntryType ==
  ASSUME TypeOK, NEW s \in Steps, exec[s].pc # "idle"
  PROVE  exec[s] \in Exec
BY DEF TypeOK, Idle

LEMMA EntryFields ==
  ASSUME NEW e \in Exec
  PROVE  /\ e.fp \in Fingerprints /\ e.attempt \in Attempts
         /\ e.doubtful \in BOOLEAN /\ e.aborted \in BOOLEAN
         /\ e.pc \in {"reading", "intending", "recovering", "running", "saving"}
         /\ e.verdict \in Contents
         /\ e.pc = "saving" => e.verdict \in Outcomes
         /\ e.pc # "saving" => e.verdict = Intent
BY OutcomeFacts DEF Exec, Entry

(* The ways an entry moves on.                                             *)
LEMMA EntryMoves ==
  ASSUME NEW e \in Exec
  PROVE  /\ \A o \in Outcomes : Conclude(e, o) \in Exec
         /\ [e EXCEPT !.aborted = TRUE] \in Exec
         /\ e.pc # "saving" =>
              /\ [e EXCEPT !.pc = "recovering"] \in Exec
              /\ [e EXCEPT !.pc = "running"] \in Exec
              /\ \A b \in BOOLEAN :
                   [e EXCEPT !.pc = "intending", !.doubtful = b] \in Exec
         /\ e.pc = "saving" =>
              \A o \in Outcomes : [e EXCEPT !.verdict = o] \in Exec
<1>1. CASE e \in Entry({"saving"}, Outcomes)
  BY <1>1 DEF Entry, Exec, Conclude
<1>2. CASE e \in Entry({"reading", "intending", "recovering", "running"}, {Intent})
  <2>1. \A o \in Outcomes : Conclude(e, o) \in Entry({"saving"}, Outcomes)
    BY <1>2 DEF Entry, Conclude
  <2>2. e.pc # "saving"
    BY <1>2 DEF Entry
  <2>3. [e EXCEPT !.aborted = TRUE]
          \in Entry({"reading", "intending", "recovering", "running"}, {Intent})
    BY <1>2 DEF Entry
  <2>4. /\ [e EXCEPT !.pc = "recovering"]
             \in Entry({"reading", "intending", "recovering", "running"}, {Intent})
        /\ [e EXCEPT !.pc = "running"]
             \in Entry({"reading", "intending", "recovering", "running"}, {Intent})
    BY <1>2 DEF Entry
  <2>5. \A b \in BOOLEAN : [e EXCEPT !.pc = "intending", !.doubtful = b]
             \in Entry({"reading", "intending", "recovering", "running"}, {Intent})
    BY <1>2 DEF Entry
  <2> QED BY <2>1, <2>2, <2>3, <2>4, <2>5 DEF Exec
<1> QED BY <1>1, <1>2 DEF Exec

LEMMA ReceiptType ==
  ASSUME TypeOK, NEW s \in Steps, receipt[s] # Absent
  PROVE  receipt[s] \in Receipt
BY DEF TypeOK

(* Admission answers with an outcome, or lets the attempt go on.           *)
LEMMA AdmissionType ==
  ASSUME NEW saved \in Receipt \cup {Absent}, NEW e \in Exec
  PROVE  Admission(saved, e) \in Outcomes \cup {Intent}
<1>1. CASE saved = Absent
  BY <1>1, OutcomeFacts DEF Admission, Codes
<1>2. CASE saved # Absent
  <2>1. saved \in Receipt
    BY <1>2
  <2>2. saved.body \in Contents /\ saved.attempt \in Nat /\ e.attempt \in Nat
    BY <2>1 DEF Receipt, Exec, Entry, Attempts
  <2>3. saved.body \in Outcomes \/ saved.body = Intent
    BY <2>2 DEF Contents
  <2>4. \/ saved.fp # e.fp
        \/ saved.fp = e.fp /\ saved.body.status = "completed"
        \/ saved.fp = e.fp /\ saved.body.status # "completed"
             /\ e.attempt < saved.attempt
        \/ saved.fp = e.fp /\ saved.body.status # "completed"
             /\ e.attempt >= saved.attempt
    BY <2>2
  <2>5. Failure("invalid") \in Outcomes
    BY OutcomeFacts DEF Codes
  <2> QED
    BY <1>2, <2>2, <2>3, <2>4, <2>5, OutcomeFacts DEF Admission, Uncertain
<1> QED BY <1>1, <1>2

(* What Admission lets through: a first attempt without a receipt, an      *)
(* uncertain receipt, or the next attempt after a retryable failure.       *)
LEMMA AdmissionMeans ==
  ASSUME NEW saved \in Receipt \cup {Absent}, NEW e \in Exec,
         Admission(saved, e) = Intent
  PROVE  \/ saved = Absent /\ e.attempt = 1
         \/ /\ saved # Absent /\ saved.fp = e.fp
            /\ saved.attempt <= e.attempt /\ Uncertain(saved)
         \/ /\ saved # Absent /\ saved.fp = e.fp
            /\ saved.attempt < e.attempt
            /\ saved.body.status = "retryable"
<1>1. CASE saved = Absent
  BY <1>1, OutcomeFacts DEF Admission, Codes
<1>2. CASE saved # Absent
  <2>1. saved \in Receipt
    BY <1>2
  <2>2. saved.attempt \in Nat /\ e.attempt \in Nat
    BY <2>1 DEF Receipt, Exec, Entry, Attempts
  <2>3. saved.fp = e.fp
    BY <1>2, OutcomeFacts DEF Admission, Codes
  <2>4. saved.body.status # "completed"
    BY <1>2, <2>3, OutcomeFacts DEF Admission, Codes
  <2>5. e.attempt >= saved.attempt
    BY <1>2, <2>2, <2>3, <2>4, OutcomeFacts DEF Admission, Codes
  <2>6. Uncertain(saved) \/ MayRetry(saved, e) \/ saved.body = Intent
    BY <1>2, <2>2, <2>3, <2>4, <2>5 DEF Admission
  <2> QED
    BY <1>2, <2>2, <2>3, <2>5, <2>6, OutcomeFacts DEF MayRetry, Uncertain
<1> QED BY <1>1, <1>2

(* What it tells a caller at once: an output or a denial only from the     *)
(* receipt of the caller's own fingerprint.                                *)
LEMMA AdmissionTells ==
  ASSUME NEW saved \in Receipt \cup {Absent}, NEW e \in Exec,
         Admission(saved, e).status \in {"completed", "denied"}
  PROVE  saved # Absent /\ saved.fp = e.fp /\ Admission(saved, e) = saved.body
<1>1. saved # Absent
  BY OutcomeFacts DEF Admission, Codes
<1>2. saved \in Receipt
  BY <1>1
<1>3. saved.attempt \in Nat /\ e.attempt \in Nat
  BY <1>2 DEF Receipt, Exec, Entry, Attempts
<1>4. saved.fp = e.fp
  BY <1>1, OutcomeFacts DEF Admission, Codes
<1>5. saved.body.status = "completed" => Admission(saved, e) = saved.body
  BY <1>1, <1>4 DEF Admission
<1>6. saved.body.status # "completed" => e.attempt >= saved.attempt
  BY <1>1, <1>3, <1>4, OutcomeFacts DEF Admission, Codes
<1>7. saved.body.status # "completed" => Admission(saved, e) = saved.body
  BY <1>1, <1>3, <1>4, <1>6, OutcomeFacts DEF Admission
<1> QED BY <1>1, <1>4, <1>5, <1>7

-----------------------------------------------------------------------------
LEMMA WritingType ==
  ASSUME TypeOK, NEW s \in Steps, exec[s].pc # "idle"
  PROVE  Writing(s) \in Receipt
BY EntryType, EntryFields DEF Writing, Receipt

LEMMA OldOrNewType ==
  ASSUME TypeOK, NEW s \in Steps
  PROVE  OldOrNew(s) \subseteq Receipt \cup {Absent}
BY WritingType DEF OldOrNew, At, TypeOK

LEMMA AbortedType ==
  ASSUME NEW e \in Exec \cup {Idle}
  PROVE  Aborted(e) \in Exec \cup {Idle}
<1>1. Failure("unknown") \in Contents
  BY OutcomeFacts DEF Codes
<1>2. CASE e = Idle
  BY <1>2 DEF Aborted, Idle
<1>3. CASE e \in Exec
  <2>1. Conclude(e, Failure("unknown")) \in Exec
    BY <1>3, EntryMoves, OutcomeFacts DEF Codes
  <2> QED BY <1>3, <2>1, EntryFields, EntryMoves DEF Aborted
<1> QED BY <1>2, <1>3

LEMMA AnswerType ==
  ASSUME TypeOK, NEW s \in Steps, exec[s].pc # "idle",
         NEW outcome \in Outcomes, Answer(s, outcome)
  PROVE  /\ exec' \in [Steps -> Exec \cup {Idle}]
         /\ answers' \in [Steps -> SUBSET [fp : Fingerprints, is : Outcomes]]
<1>1. exec[s].fp \in Fingerprints
  BY EntryType DEF Exec, Entry
<1> QED BY <1>1 DEF TypeOK, Answer

(* Every action keeps every variable in its type.                          *)
LEMMA TypePreserved == TypeOK /\ [Next]_vars => TypeOK'
<1> SUFFICES ASSUME TypeOK, [Next]_vars PROVE TypeOK'
  OBVIOUS
<1> USE OutcomeFacts, ReceiptConstants
<1>1. ASSUME NEW s \in Steps, NEW fp \in Fingerprints, NEW a \in Attempts,
             Dispatch(s, fp, a)
      PROVE  TypeOK'
  BY <1>1 DEF TypeOK, Dispatch, Exec, Entry
<1>2. ASSUME NEW s \in Steps, ReadReceipt(s)
      PROVE  TypeOK'
  <2>1. exec[s] \in Exec /\ exec[s].pc # "idle"
    BY <1>2, EntryType DEF ReadReceipt, At
  <2>2. Admission(receipt[s], exec[s]) \in Outcomes \cup {Intent}
    BY <2>1, AdmissionType DEF TypeOK
  <2>3. CASE Admission(receipt[s], exec[s]) = Intent
    <3>1. Uncertain(receipt[s]) \in BOOLEAN
      BY DEF Uncertain
    <3>2. exec' \in [Steps -> Exec \cup {Idle}]
      <4>1. exec' = [exec EXCEPT ![s] =
                [exec[s] EXCEPT !.pc = "intending",
                                !.doubtful = Uncertain(receipt[s])]]
        BY <1>2, <2>3 DEF ReadReceipt
      <4>2. exec[s].pc # "saving"
        BY <1>2 DEF ReadReceipt, At
      <4>3. [exec[s] EXCEPT !.pc = "intending",
                            !.doubtful = Uncertain(receipt[s])] \in Exec
        BY <2>1, <3>1, <4>2, EntryMoves
      <4> QED BY <4>1, <4>3 DEF TypeOK
    <3> QED BY <1>2, <2>3, <3>2 DEF TypeOK, ReadReceipt
  <2>4. CASE Admission(receipt[s], exec[s]) # Intent
    BY <1>2, <2>1, <2>2, <2>4, AnswerType DEF TypeOK, ReadReceipt
  <2> QED BY <2>3, <2>4
<1>3. ASSUME NEW s \in Steps, ReadFails(s)
      PROVE  TypeOK'
  BY <1>3, AnswerType DEF TypeOK, ReadFails, At, Codes
<1>4. ASSUME NEW s \in Steps, IntentSaved(s)
      PROVE  TypeOK'
  <2>1. exec[s] \in Exec /\ exec[s].pc # "idle"
    BY <1>4, EntryType DEF IntentSaved, At
  <2>2. receipt' \in [Steps -> Receipt \cup {Absent}]
    BY <1>4, <2>1, WritingType DEF TypeOK, IntentSaved
  <2>3. exec' \in [Steps -> Exec \cup {Idle}]
    BY <1>4, <2>1, EntryMoves, EntryFields DEF TypeOK, IntentSaved, At, Codes
  <2>4. /\ live' \in [Steps -> SUBSET Attempts]
        /\ starts' \in [Steps -> [Attempts -> Nat]]
        /\ doubt' \in [Steps -> SUBSET Attempts]
    <3>1. exec[s].attempt \in Attempts
      BY <2>1 DEF Exec, Entry
    <3>2. \/ UNCHANGED <<live, starts, doubt>>
          \/ /\ live' = [live EXCEPT ![s] = @ \cup {exec[s].attempt}]
             /\ starts' = [starts EXCEPT ![s][exec[s].attempt] = @ + 1]
             /\ doubt' = [doubt EXCEPT ![s] = @ \cup {exec[s].attempt}]
      BY <1>4, Zenon DEF IntentSaved
    <3>3. CASE UNCHANGED <<live, starts, doubt>>
      BY <3>3 DEF TypeOK
    <3>4. CASE /\ live' = [live EXCEPT ![s] = @ \cup {exec[s].attempt}]
               /\ starts' = [starts EXCEPT ![s][exec[s].attempt] = @ + 1]
               /\ doubt' = [doubt EXCEPT ![s] = @ \cup {exec[s].attempt}]
      <4>1. starts' \in [Steps -> [Attempts -> Nat]]
        BY <3>1, <3>4 DEF TypeOK
      <4>2. live[s] \cup {exec[s].attempt} \in SUBSET Attempts
            /\ doubt[s] \cup {exec[s].attempt} \in SUBSET Attempts
        BY <3>1 DEF TypeOK
      <4> QED BY <3>4, <4>1, <4>2 DEF TypeOK
    <3> QED BY <3>1, <3>2, <3>3, <3>4 DEF TypeOK
  <2>5. UNCHANGED <<run, closed, answers, crashes>>
    BY <1>4 DEF IntentSaved
  <2> QED BY <2>2, <2>3, <2>4, <2>5 DEF TypeOK
<1>5. ASSUME NEW s \in Steps, IntentFails(s)
      PROVE  TypeOK'
  BY <1>5, AnswerType, OldOrNewType DEF TypeOK, IntentFails, At, Codes
<1>6. ASSUME NEW s \in Steps, NEW outcome \in Outcomes,
             HandlerSettles(s, outcome) \/ RecoverSettles(s, outcome)
      PROVE  TypeOK'
  <2>1. Conclude(exec[s], outcome) \in Exec
    BY <1>6, EntryType, EntryMoves DEF HandlerSettles, RecoverSettles, At
  <2>2. exec' = [exec EXCEPT ![s] = Conclude(exec[s], outcome)]
    BY <1>6 DEF HandlerSettles, RecoverSettles
  <2>3. exec' \in [Steps -> Exec \cup {Idle}]
    BY <2>1, <2>2 DEF TypeOK
  <2>4. live' \in [Steps -> SUBSET Attempts] /\ doubt' \in [Steps -> SUBSET Attempts]
    <3>1. live' = live \/ live' = [live EXCEPT ![s] = @ \ {exec[s].attempt}]
      BY <1>6 DEF HandlerSettles, RecoverSettles
    <3>2. \/ doubt' = doubt
          \/ doubt' = [doubt EXCEPT ![s] = @ \ {exec[s].attempt}]
          \/ doubt' = [doubt EXCEPT ![s] = {}]
      <4>1. CASE HandlerSettles(s, outcome)
        BY <4>1, Zenon DEF HandlerSettles
      <4>2. CASE RecoverSettles(s, outcome)
        BY <4>2, Zenon DEF RecoverSettles
      <4> QED BY <1>6, <4>1, <4>2
    <3>3. live' \in [Steps -> SUBSET Attempts]
      <4>1. live[s] \ {exec[s].attempt} \in SUBSET Attempts
        BY DEF TypeOK
      <4> QED BY <3>1, <4>1 DEF TypeOK
    <3>4. doubt' \in [Steps -> SUBSET Attempts]
      <4>1. doubt[s] \ {exec[s].attempt} \in SUBSET Attempts
        BY DEF TypeOK
      <4> QED BY <3>2, <4>1 DEF TypeOK
    <3> QED BY <3>3, <3>4
  <2>5. UNCHANGED <<receipt, run, closed, starts, answers, crashes>>
    BY <1>6 DEF HandlerSettles, RecoverSettles
  <2> QED BY <2>3, <2>4, <2>5 DEF TypeOK
<1>7. ASSUME NEW s \in Steps, NEW a \in Attempts, HandlerLate(s, a)
      PROVE  TypeOK'
  BY <1>7 DEF TypeOK, HandlerLate
<1>8. ASSUME NEW s \in Steps, Timeout(s)
      PROVE  TypeOK'
  BY <1>8, AbortedType DEF TypeOK, Timeout
<1>9. ASSUME NEW s \in Steps, OutcomeSaved(s) \/ OutcomeFails(s)
      PROVE  TypeOK'
  <2>1. exec[s] \in Exec /\ exec[s].pc # "idle" /\ exec[s].verdict \in Outcomes
    BY <1>9, EntryType, EntryFields DEF OutcomeSaved, OutcomeFails, At
  <2>2. receipt' \in [Steps -> Receipt \cup {Absent}]
    BY <1>9, <2>1, WritingType, OldOrNewType
    DEF TypeOK, OutcomeSaved, OutcomeFails
  <2>3. CASE exec' = [exec EXCEPT ![s] =
                    [exec[s] EXCEPT !.verdict = Failure("unknown")]]
               /\ exec[s].verdict.status = "completed"
    <3>1. [exec[s] EXCEPT !.verdict = Failure("unknown")] \in Exec
      BY <1>9, <2>1, EntryMoves DEF OutcomeSaved, OutcomeFails, At, Codes
    <3>2. exec' \in [Steps -> Exec \cup {Idle}]
      BY <2>3, <3>1 DEF TypeOK
    <3>3. answers' \in [Steps -> SUBSET [fp : Fingerprints, is : Outcomes]]
      <4>1. UNCHANGED answers \/ \E o \in Outcomes : Answer(s, o)
        BY <1>9, <2>1 DEF OutcomeSaved, OutcomeFails, Codes
      <4> QED BY <2>1, <4>1, AnswerType DEF TypeOK
    <3>4. UNCHANGED <<run, closed, live, starts, doubt, crashes>>
      BY <1>9 DEF OutcomeSaved, OutcomeFails
    <3> QED BY <2>2, <3>2, <3>3, <3>4 DEF TypeOK
  <2>4. CASE \E o \in Outcomes : Answer(s, o)
    BY <1>9, <2>1, <2>2, <2>4, AnswerType
    DEF TypeOK, OutcomeSaved, OutcomeFails
  <2> QED BY <1>9, <2>1, <2>3, <2>4
          DEF OutcomeSaved, OutcomeFails, Codes
<1>10. ASSUME NEW r \in Runs, RefuseDispatch(r) \/ Cancel(r)
       PROVE  TypeOK'
  <2>1. CASE RefuseDispatch(r)
    BY <2>1 DEF TypeOK, RefuseDispatch
  <2>2. CASE Cancel(r)
    <3>1. exec' \in [Steps -> Exec \cup {Idle}]
      BY <2>2, AbortedType DEF TypeOK, Cancel
    <3>2. run' \in [Runs -> {"unseen", "open", "aborted"}]
      BY <2>2 DEF TypeOK, Cancel
    <3> QED BY <2>2, <3>1, <3>2 DEF TypeOK, Cancel
  <2> QED BY <1>10, <2>1, <2>2
<1>11. CASE Close \/ Reopen
  <2>1. exec' \in [Steps -> Exec \cup {Idle}]
    BY <1>11, AbortedType DEF TypeOK, Close, Reopen
  <2>2. run' \in [Runs -> {"unseen", "open", "aborted"}]
    BY <1>11 DEF TypeOK, Close, Reopen
  <2> QED BY <1>11, <2>1, <2>2 DEF TypeOK, Close, Reopen
<1>12. CASE Crash
  <2>1. receipt' \in [Steps -> Receipt \cup {Absent}]
    BY <1>12, OldOrNewType DEF Crash
  <2>2. crashes' \in 0..MaxCrashes
    BY <1>12 DEF TypeOK, Crash
  <2>3. exec' \in [Steps -> Exec \cup {Idle}]
    BY <1>12 DEF Crash
  <2> QED BY <1>12, <2>1, <2>2, <2>3 DEF TypeOK, Crash
<1>13. CASE UNCHANGED vars
  BY <1>13 DEF TypeOK, vars
<1> QED BY <1>1, <1>2, <1>3, <1>4, <1>5, <1>6, <1>7, <1>8, <1>9, <1>10, <1>11,
           <1>12, <1>13 DEF Next

LEMMA InitType == Init => TypeOK
<1> SUFFICES ASSUME Init PROVE TypeOK
  OBVIOUS
<1>1. receipt \in [Steps -> Receipt \cup {Absent}]
  BY DEF Init
<1>2. exec \in [Steps -> Exec \cup {Idle}]
  BY DEF Init
<1>3. starts \in [Steps -> [Attempts -> Nat]]
  BY DEF Init
<1>4. answers \in [Steps -> SUBSET [fp : Fingerprints, is : Outcomes]]
  BY DEF Init
<1>5. crashes \in 0..MaxCrashes
  BY ReceiptConstants DEF Init
<1> QED BY <1>1, <1>2, <1>3, <1>4, <1>5 DEF Init, TypeOK

(* The variables of createReceiptDispatcher, its files and the histories   *)
(* always have their types.                                                *)
THEOREM TypeCorrect == Spec => []TypeOK
BY InitType, TypePreserved, PTL DEF Spec

-----------------------------------------------------------------------------
(* Consistency, one step identity at a time.  FileOK is what has to be     *)
(* shown for the step an action works on.                                  *)
FileOK(s) == HistoryMatchesFile(s) /\ EntryMatchesFile(s)

Same(s) ==
  /\ receipt'[s] = receipt[s] /\ exec'[s] = exec[s]
  /\ starts'[s] = starts[s] /\ doubt'[s] = doubt[s]
  /\ live'[s] = live[s] /\ answers'[s] = answers[s]

LEMMA Untouched ==
  ASSUME NEW s \in Steps, FileOK(s), Same(s)
  PROVE  FileOK(s)'
BY DEF FileOK, HistoryMatchesFile, EntryMatchesFile, Same, Unheard

(* An idle step has nothing to show about its entry.                       *)
LEMMA IdleEntry ==
  ASSUME NEW s \in Steps, exec'[s] = Idle
  PROVE  EntryMatchesFile(s)'
BY DEF EntryMatchesFile, Idle

(* A write that leaves the old or the new file keeps the histories true.   *)
LEMMA OldOrNewKeeps ==
  ASSUME TypeOK, NEW s \in Steps, FileOK(s),
         receipt'[s] \in OldOrNew(s), starts'[s] = starts[s],
         doubt'[s] = doubt[s], live'[s] \subseteq live[s]
  PROVE  HistoryMatchesFile(s)'
<1>1. CASE receipt'[s] = receipt[s]
  BY <1>1 DEF FileOK, HistoryMatchesFile
<1>2. CASE receipt'[s] = Writing(s) /\ exec[s].pc \in {"intending", "saving"}
  <2>1. exec[s] \in Exec
    BY <1>2, EntryType
  <2>2. /\ receipt'[s].fp = exec[s].fp
        /\ receipt'[s].attempt = exec[s].attempt
        /\ receipt'[s].body = exec[s].verdict
    BY <1>2 DEF Writing
  <2>3. receipt'[s] # Absent
    BY <1>2, WritingType, OutcomeFacts DEF Receipt, Absent, Attempts
  <2>4. exec[s].attempt \in Nat
    BY <2>1, EntryFields DEF Attempts
  <2>5. receipt[s] # Absent => /\ receipt[s].fp = exec[s].fp
                              /\ receipt[s].attempt <= exec[s].attempt
                              /\ receipt[s].attempt \in Nat
    BY <1>2, <2>4, ReceiptType
    DEF FileOK, EntryMatchesFile, Receipt, Attempts
  <2>6. \A a \in Attempts :
          /\ starts'[s][a] <= 1
          /\ starts'[s][a] > 0 => receipt'[s] # Absent /\ a <= receipt'[s].attempt
    BY <2>2, <2>3, <2>4, <2>5 DEF FileOK, HistoryMatchesFile, Attempts
  <2>7. receipt'[s].body.status \in {"absent", "retryable"} => doubt'[s] = {}
    BY <1>2, <2>1, <2>2, EntryFields, OutcomeFacts
    DEF FileOK, EntryMatchesFile, Codes
  <2>8. receipt'[s].fp \notin Recoverable => live'[s] \subseteq doubt'[s]
    <3>1. CASE receipt[s] = Absent
      BY <3>1 DEF FileOK, HistoryMatchesFile
    <3>2. CASE receipt[s] # Absent
      BY <2>2, <2>5, <3>2 DEF FileOK, HistoryMatchesFile
    <3> QED BY <3>1, <3>2
  <2>9. \A a, b \in doubt'[s] : a = b
    BY DEF FileOK, HistoryMatchesFile
  <2> QED BY <2>3, <2>6, <2>7, <2>8, <2>9 DEF HistoryMatchesFile
<1> QED BY <1>1, <1>2 DEF OldOrNew, At

(* Aborting an entry touches neither file nor history.                     *)
LEMMA AbortKeeps ==
  ASSUME TypeOK, NEW s \in Steps, FileOK(s),
         exec'[s] \in {exec[s], Aborted(exec[s])},
         receipt'[s] = receipt[s], starts'[s] = starts[s],
         doubt'[s] = doubt[s], live'[s] = live[s], answers'[s] = answers[s]
  PROVE  FileOK(s)'
<1>1. CASE exec'[s] = exec[s]
  BY <1>1, Untouched DEF Same
<1>2. CASE exec'[s] = Aborted(exec[s]) /\ exec[s].pc # "idle"
  <2>1. exec[s] \in Exec
    BY <1>2, EntryType
  <2>2. HistoryMatchesFile(s)'
    BY DEF FileOK, HistoryMatchesFile
  <2>3. CASE exec[s].pc \in {"recovering", "running"} /\ ~exec[s].aborted
    <3>1. /\ exec'[s].pc = "saving" /\ exec'[s].verdict = Failure("unknown")
          /\ exec'[s].fp = exec[s].fp /\ exec'[s].attempt = exec[s].attempt
      BY <1>2, <2>1, <2>3 DEF Aborted, Conclude, Exec, Entry
    <3>2. receipt[s].body = Intent
      BY <2>3 DEF FileOK, EntryMatchesFile
    <3> QED BY <2>2, <2>3, <3>1, <3>2, OutcomeFacts
            DEF FileOK, EntryMatchesFile, Unheard, Codes
  <2>4. CASE exec[s].pc \in {"recovering", "running"} /\ exec[s].aborted
    BY <1>1, <1>2, <2>4 DEF Aborted
  <2>5. CASE exec[s].pc \in {"reading", "intending", "saving"}
    <3>1. /\ exec'[s].pc = exec[s].pc /\ exec'[s].verdict = exec[s].verdict
          /\ exec'[s].fp = exec[s].fp /\ exec'[s].attempt = exec[s].attempt
          /\ exec'[s].doubtful = exec[s].doubtful
      BY <1>2, <2>1, <2>5 DEF Aborted, Exec, Entry
    <3> QED BY <2>2, <2>5, <3>1 DEF FileOK, EntryMatchesFile, Unheard
  <2> QED BY <2>1, <2>3, <2>4, <2>5, EntryFields
<1> QED BY <1>1, <1>2 DEF Aborted

-----------------------------------------------------------------------------
(* The steps of execute, on the step identity they work on.                *)
LEMMA DispatchKeeps ==
  ASSUME TypeOK, NEW s \in Steps, FileOK(s),
         NEW fp \in Fingerprints, NEW a \in Attempts, Dispatch(s, fp, a)
  PROVE  FileOK(s)'
<1>1. exec'[s].pc = "reading"
  BY DEF TypeOK, Dispatch
<1>2. HistoryMatchesFile(s)'
  BY DEF Dispatch, FileOK, HistoryMatchesFile
<1> QED BY <1>1, <1>2 DEF FileOK, EntryMatchesFile

LEMMA ReadKeeps ==
  ASSUME TypeOK, HeardIsSaved, NEW s \in Steps, FileOK(s), ReadReceipt(s)
  PROVE  FileOK(s)'
<1>1. exec[s] \in Exec /\ exec[s].pc # "idle"
  BY EntryType DEF ReadReceipt, At
<1>2. HistoryMatchesFile(s)'
  BY DEF ReadReceipt, FileOK, HistoryMatchesFile
<1>3. CASE Admission(receipt[s], exec[s]) = Intent
  <2>1. /\ exec'[s] = [exec[s] EXCEPT !.pc = "intending",
                                     !.doubtful = Uncertain(receipt[s])]
        /\ UNCHANGED answers
    BY <1>3 DEF TypeOK, ReadReceipt
  <2>2. /\ exec'[s].pc = "intending" /\ exec'[s].fp = exec[s].fp
        /\ exec'[s].attempt = exec[s].attempt
        /\ exec'[s].doubtful = Uncertain(receipt[s])
    BY <1>1, <2>1 DEF Exec, Entry
  <2>3. UNCHANGED receipt
    BY DEF ReadReceipt
  <2>4. \/ receipt[s] = Absent
        \/ /\ receipt[s] # Absent /\ receipt[s].fp = exec[s].fp
           /\ receipt[s].attempt <= exec[s].attempt /\ Uncertain(receipt[s])
        \/ /\ receipt[s] # Absent /\ receipt[s].fp = exec[s].fp
           /\ receipt[s].attempt < exec[s].attempt
           /\ receipt[s].body.status = "retryable"
    BY <1>1, <1>3, AdmissionMeans DEF TypeOK
  <2>5. receipt[s] = Absent => ~Uncertain(receipt[s])
    BY DEF Absent, NoReceipt, Uncertain
  <2>6. receipt[s].body.status = "retryable" => ~Uncertain(receipt[s])
    BY DEF Uncertain
  <2>7. receipt[s] = Absent \/ receipt[s].body.status \notin {"completed", "denied"}
    BY <2>4 DEF Uncertain
  <2>8. Unheard(s)
    BY <2>7 DEF HeardIsSaved, Unheard
  <2>9. Unheard(s)'
    BY <2>1, <2>8 DEF Unheard
  <2>10. EntryMatchesFile(s)'
    BY <2>2, <2>3, <2>4, <2>5, <2>6, <2>9 DEF EntryMatchesFile, Uncertain
  <2> QED BY <1>2, <2>10 DEF FileOK
<1>4. CASE Admission(receipt[s], exec[s]) # Intent
  BY <1>2, <1>4, IdleEntry DEF TypeOK, ReadReceipt, Answer, FileOK
<1> QED BY <1>3, <1>4

LEMMA AnswerKeeps ==
  ASSUME TypeOK, NEW s \in Steps, FileOK(s), exec'[s] = Idle,
         receipt'[s] \in OldOrNew(s), UNCHANGED <<starts, doubt, live>>
  PROVE  FileOK(s)'
BY OldOrNewKeeps, IdleEntry DEF FileOK

LEMMA IntentSavedKeeps ==
  ASSUME TypeOK, NEW s \in Steps, FileOK(s), IntentSaved(s)
  PROVE  FileOK(s)'
<1> DEFINE e == exec[s]
<1>1. e \in Exec /\ e.pc = "intending" /\ e.verdict = Intent
  BY EntryType, EntryFields DEF IntentSaved, At
<1>2. /\ e.fp \in Fingerprints /\ e.attempt \in Attempts /\ e.attempt \in Nat
      /\ e.doubtful \in BOOLEAN /\ e.aborted \in BOOLEAN
  BY <1>1, EntryFields DEF Attempts
<1>3. /\ receipt'[s] = Writing(s) /\ receipt'[s] # Absent
      /\ receipt'[s].fp = e.fp /\ receipt'[s].attempt = e.attempt
      /\ receipt'[s].body = Intent
  <2>1. receipt'[s] = Writing(s)
    BY DEF TypeOK, IntentSaved
  <2>2. Writing(s).attempt # 0
    BY <1>2 DEF Writing, Attempts
  <2> QED BY <1>1, <2>1, <2>2 DEF Writing, Absent
<1>4. Unheard(s) /\ UNCHANGED answers
  BY <1>1 DEF IntentSaved, FileOK, EntryMatchesFile
<1>5. CASE e.doubtful \/ e.aborted
  <2>1. UNCHANGED <<live, starts, doubt>>
    BY <1>5, Zenon DEF IntentSaved
  <2>2. HistoryMatchesFile(s)'
    BY <1>1, <1>3, <2>1, OldOrNewKeeps DEF OldOrNew, At
  <2>3. \/ e.doubtful /\ e.fp \in Recoverable
             /\ exec'[s] = [e EXCEPT !.pc = "recovering"]
        \/ exec'[s] = Conclude(e, Failure("unknown"))
    BY <1>2, <1>5 DEF TypeOK, IntentSaved
  <2>4. exec'[s].fp = e.fp /\ exec'[s].attempt = e.attempt
    BY <1>1, <2>3 DEF Exec, Entry, Conclude
  <2>5. CASE e.fp \in Recoverable /\ exec'[s].pc = "recovering"
    BY <1>3, <1>4, <2>2, <2>4, <2>5 DEF FileOK, EntryMatchesFile, Unheard
  <2>6. CASE exec'[s].pc = "saving" /\ exec'[s].verdict = Failure("unknown")
    BY <1>3, <1>4, <2>2, <2>4, <2>6, OutcomeFacts
    DEF FileOK, EntryMatchesFile, Unheard, Codes
  <2> QED BY <1>1, <2>3, <2>5, <2>6 DEF Exec, Entry, Conclude
<1>6. CASE ~e.doubtful /\ ~e.aborted
  <2>1. /\ live' = [live EXCEPT ![s] = @ \cup {e.attempt}]
        /\ starts' = [starts EXCEPT ![s][e.attempt] = @ + 1]
        /\ doubt' = [doubt EXCEPT ![s] = @ \cup {e.attempt}]
    BY <1>6, Zenon DEF IntentSaved
  <2>2. exec'[s] = [e EXCEPT !.pc = "running"]
    BY <1>6 DEF TypeOK, IntentSaved
  <2>3. exec'[s].pc = "running" /\ exec'[s].fp = e.fp
        /\ exec'[s].attempt = e.attempt
    BY <1>1, <2>2 DEF Exec, Entry
  <2>4. receipt[s] # Absent =>
          /\ receipt[s].body.status = "retryable" /\ receipt[s].fp = e.fp
          /\ receipt[s].attempt < e.attempt /\ receipt[s].attempt \in Nat
    BY <1>1, <1>6, ReceiptType
    DEF FileOK, EntryMatchesFile, Receipt, Attempts
  <2>5. doubt[s] = {}
    BY <2>4 DEF FileOK, HistoryMatchesFile, Absent, NoReceipt
  <2>6. live[s] = {} \/ e.fp \in Recoverable
    BY <2>4, <2>5 DEF FileOK, HistoryMatchesFile
  <2>7. doubt'[s] = {e.attempt} /\ live'[s] = live[s] \cup {e.attempt}
    BY <2>1, <2>5 DEF TypeOK
  <2>8. \A a \in Attempts : starts[s][a] > 0 => a < e.attempt
    BY <1>2, <2>4 DEF FileOK, HistoryMatchesFile, Attempts
  <2>9. \A a \in Attempts : /\ starts'[s][a] <= 1
                            /\ starts'[s][a] > 0 => a <= e.attempt
    <3>1. starts[s] \in [Attempts -> Nat]
      BY DEF TypeOK
    <3>2. starts[s][e.attempt] = 0
      BY <1>2, <2>8, <3>1
    <3>3. starts'[s] = [starts[s] EXCEPT ![e.attempt] = 1]
      BY <2>1, <3>1, <3>2 DEF TypeOK
    <3>4. \A a \in Attempts : starts[s][a] <= 1
      BY DEF FileOK, HistoryMatchesFile
    <3>5. \A a \in Attempts : a # e.attempt => starts'[s][a] = starts[s][a]
      BY <3>1, <3>3
    <3>6. starts'[s][e.attempt] = 1
      BY <1>2, <3>1, <3>3
    <3>7. \A a \in Attempts : a < e.attempt => a <= e.attempt
      BY <1>2 DEF Attempts
    <3> QED BY <1>2, <2>8, <3>4, <3>5, <3>6, <3>7
  <2>10. HistoryMatchesFile(s)'
    BY <1>3, <2>6, <2>7, <2>9, OutcomeFacts DEF HistoryMatchesFile
  <2>11. EntryMatchesFile(s)'
    BY <1>3, <1>4, <2>3, <2>7 DEF EntryMatchesFile, Unheard
  <2> QED BY <2>10, <2>11 DEF FileOK
<1> QED BY <1>2, <1>5, <1>6

LEMMA SettlesKeeps ==
  ASSUME TypeOK, NEW s \in Steps, FileOK(s), NEW outcome \in Outcomes,
         HandlerSettles(s, outcome) \/ RecoverSettles(s, outcome)
  PROVE  FileOK(s)'
<1> DEFINE e == exec[s]
<1>1. e \in Exec /\ e.pc \in {"running", "recovering"}
  BY EntryType DEF HandlerSettles, RecoverSettles, At
<1>2. UNCHANGED <<receipt, starts, answers>>
  BY DEF HandlerSettles, RecoverSettles
<1>3. exec'[s] = Conclude(e, outcome)
  BY DEF TypeOK, HandlerSettles, RecoverSettles
<1>4. /\ exec'[s].pc = "saving" /\ exec'[s].verdict = outcome
      /\ exec'[s].fp = e.fp /\ exec'[s].attempt = e.attempt
  BY <1>1, <1>3 DEF Conclude, Exec, Entry
<1>5. receipt[s] # Absent /\ receipt[s].fp = e.fp /\ receipt[s].body = Intent
  BY <1>1 DEF FileOK, EntryMatchesFile
<1>6. /\ doubt'[s] \subseteq doubt[s]
      /\ outcome.status = "retryable" => doubt'[s] = {}
      /\ receipt[s].fp \notin Recoverable => live'[s] \subseteq doubt'[s]
  <2>1. CASE HandlerSettles(s, outcome)
    <3>1. live'[s] = live[s] \ {e.attempt} /\ doubt[s] = {e.attempt}
      BY <2>1 DEF TypeOK, HandlerSettles, At, FileOK, EntryMatchesFile
    <3>2. CASE outcome.status = "retryable"
      <4>1. doubt'[s] = doubt[s] \ {e.attempt}
        BY <2>1, <3>2 DEF TypeOK, HandlerSettles
      <4> QED BY <3>1, <4>1 DEF FileOK, HistoryMatchesFile
    <3>3. CASE outcome.status # "retryable"
      <4>1. doubt'[s] = doubt[s]
        BY <2>1, <3>3 DEF HandlerSettles
      <4> QED BY <1>5, <3>1, <3>3, <4>1 DEF FileOK, HistoryMatchesFile
    <3> QED BY <1>5, <3>1, <3>2, <3>3 DEF FileOK, HistoryMatchesFile
  <2>2. CASE RecoverSettles(s, outcome)
    <3>1. e.fp \in Recoverable
      BY <2>2 DEF RecoverSettles, At, FileOK, EntryMatchesFile
    <3>2. doubt'[s] = doubt[s] \/ doubt'[s] = {}
      BY <2>2 DEF TypeOK, RecoverSettles
    <3>3. outcome.status = "retryable" => doubt'[s] = {}
      BY <2>2 DEF TypeOK, RecoverSettles
    <3> QED BY <1>5, <3>1, <3>2, <3>3
  <2> QED BY <2>1, <2>2
<1>7. HistoryMatchesFile(s)'
  BY <1>2, <1>5, <1>6, OutcomeFacts DEF FileOK, HistoryMatchesFile
<1>8. EntryMatchesFile(s)'
  BY <1>1, <1>2, <1>4, <1>5, <1>6, OutcomeFacts
  DEF FileOK, EntryMatchesFile, Unheard
<1> QED BY <1>7, <1>8 DEF FileOK

LEMMA LateKeeps ==
  ASSUME TypeOK, NEW s \in Steps, FileOK(s), NEW a \in Attempts, HandlerLate(s, a)
  PROVE  FileOK(s)'
<1>1. live'[s] \subseteq live[s] /\ UNCHANGED <<receipt, exec, starts, doubt, answers>>
  BY DEF TypeOK, HandlerLate
<1> QED BY <1>1 DEF FileOK, HistoryMatchesFile, EntryMatchesFile, Unheard

(* A completion that could not be saved is saved as unknown instead.       *)
LEMMA AmendKeeps ==
  ASSUME TypeOK, NEW s \in Steps, FileOK(s), OutcomeFails(s),
         exec[s].verdict.status = "completed"
  PROVE  FileOK(s)'
<1> DEFINE e == exec[s]
<1>1. e \in Exec /\ e.pc = "saving"
  BY EntryType DEF OutcomeFails, At
<1>2. exec'[s] = [e EXCEPT !.verdict = Failure("unknown")] /\ UNCHANGED answers
  BY DEF TypeOK, OutcomeFails
<1>3. /\ exec'[s].pc = "saving" /\ exec'[s].verdict = Failure("unknown")
      /\ exec'[s].fp = e.fp /\ exec'[s].attempt = e.attempt
  BY <1>1, <1>2 DEF Exec, Entry
<1>4. receipt'[s] \in OldOrNew(s) /\ UNCHANGED <<starts, doubt, live>>
  BY DEF TypeOK, OutcomeFails
<1>5. HistoryMatchesFile(s)'
  BY <1>4, OldOrNewKeeps
<1>6. receipt'[s] = receipt[s] \/ receipt'[s] = Writing(s)
  BY <1>4 DEF OldOrNew
<1>7. /\ receipt'[s] # Absent /\ receipt'[s].fp = e.fp
      /\ receipt'[s].attempt = e.attempt
      /\ receipt'[s].body.status \in {"intent", "completed"}
  <2>1. CASE receipt'[s] = receipt[s]
    BY <1>1, <2>1 DEF FileOK, EntryMatchesFile
  <2>2. CASE receipt'[s] = Writing(s)
    <3>1. Writing(s) # Absent
      BY <1>1, WritingType DEF Receipt, Absent, Attempts
    <3> QED BY <2>2, <3>1 DEF Writing
  <2> QED BY <1>6, <2>1, <2>2
<1>8. EntryMatchesFile(s)'
  BY <1>1, <1>2, <1>3, <1>7, OutcomeFacts
  DEF FileOK, EntryMatchesFile, Unheard, Codes
<1> QED BY <1>5, <1>8 DEF FileOK

(* Every step of the specification keeps every step identity consistent.   *)
LEMMA FilePreserved ==
  ASSUME TypeOK, HeardIsSaved, \A s \in Steps : FileOK(s), [Next]_vars
  PROVE  \A s \in Steps : FileOK(s)'
<1> TAKE t \in Steps
<1>1. ASSUME NEW s \in Steps, NEW fp \in Fingerprints, NEW a \in Attempts,
             Dispatch(s, fp, a)
      PROVE  FileOK(t)'
  <2>1. t # s => Same(t)
    BY <1>1 DEF TypeOK, Dispatch, Same
  <2> QED BY <1>1, <2>1, Untouched, DispatchKeeps
<1>2. ASSUME NEW s \in Steps, ReadReceipt(s)
      PROVE  FileOK(t)'
  <2>1. t # s => Same(t)
    <3>1. t # s => exec'[t] = exec[t] /\ answers'[t] = answers[t]
      BY <1>2 DEF TypeOK, ReadReceipt, Answer
    <3> QED BY <1>2, <3>1 DEF ReadReceipt, Same
  <2> QED BY <1>2, <2>1, Untouched, ReadKeeps
<1>3. ASSUME NEW s \in Steps, ReadFails(s) \/ IntentFails(s) \/ OutcomeSaved(s)
                 \/ (OutcomeFails(s) /\ exec[s].verdict.status # "completed")
      PROVE  FileOK(t)'
  <2>1. exec' = [exec EXCEPT ![s] = Idle] /\ UNCHANGED <<starts, doubt, live>>
    BY <1>3 DEF ReadFails, IntentFails, OutcomeSaved, OutcomeFails, Answer
  <2>2. receipt'[s] \in OldOrNew(s)
    BY <1>3 DEF TypeOK, ReadFails, IntentFails, OutcomeSaved, OutcomeFails, OldOrNew, At
  <2>3. CASE t = s
    BY <2>1, <2>2, <2>3, AnswerKeeps DEF TypeOK
  <2>4. CASE t # s
    <3>1. answers'[t] = answers[t]
      BY <1>3, <2>4 DEF TypeOK, ReadFails, IntentFails, OutcomeSaved, OutcomeFails, Answer
    <3>2. receipt'[t] = receipt[t]
      BY <1>3, <2>4 DEF TypeOK, ReadFails, IntentFails, OutcomeSaved, OutcomeFails
    <3> QED BY <2>1, <2>4, <3>1, <3>2, Untouched DEF TypeOK, Same
  <2> QED BY <2>3, <2>4
<1>4. ASSUME NEW s \in Steps, IntentSaved(s)
      PROVE  FileOK(t)'
  <2>1. ASSUME t # s PROVE Same(t)
    <3>1. UNCHANGED answers /\ receipt'[t] = receipt[t] /\ exec'[t] = exec[t]
      BY <1>4, <2>1 DEF TypeOK, IntentSaved
    <3>2. \/ UNCHANGED <<live, starts, doubt>>
          \/ /\ live' = [live EXCEPT ![s] = @ \cup {exec[s].attempt}]
             /\ starts' = [starts EXCEPT ![s][exec[s].attempt] = @ + 1]
             /\ doubt' = [doubt EXCEPT ![s] = @ \cup {exec[s].attempt}]
      BY <1>4, Zenon DEF IntentSaved
    <3> QED BY <2>1, <3>1, <3>2 DEF TypeOK, Same
  <2> QED BY <1>4, <2>1, Untouched, IntentSavedKeeps
<1>5. ASSUME NEW s \in Steps, NEW outcome \in Outcomes,
             HandlerSettles(s, outcome) \/ RecoverSettles(s, outcome)
      PROVE  FileOK(t)'
  <2>1. ASSUME t # s PROVE Same(t)
    <3>1. CASE HandlerSettles(s, outcome)
      BY <2>1, <3>1 DEF TypeOK, HandlerSettles, Same
    <3>2. CASE RecoverSettles(s, outcome)
      BY <2>1, <3>2 DEF TypeOK, RecoverSettles, Same
    <3> QED BY <1>5, <3>1, <3>2
  <2> QED BY <1>5, <2>1, Untouched, SettlesKeeps
<1>6. ASSUME NEW s \in Steps, NEW a \in Attempts, HandlerLate(s, a)
      PROVE  FileOK(t)'
  <2>1. t # s => Same(t)
    BY <1>6 DEF TypeOK, HandlerLate, Same
  <2> QED BY <1>6, <2>1, Untouched, LateKeeps
<1>7. ASSUME NEW s \in Steps, OutcomeFails(s), exec[s].verdict.status = "completed"
      PROVE  FileOK(t)'
  <2>1. t # s => Same(t)
    BY <1>7 DEF TypeOK, OutcomeFails, Same
  <2> QED BY <1>7, <2>1, Untouched, AmendKeeps
<1>8. ASSUME \/ \E s \in Steps : Timeout(s)
             \/ \E r \in Runs : Cancel(r)
             \/ Close
      PROVE  FileOK(t)'
  <2>1. UNCHANGED <<receipt, starts, doubt, live, answers>>
    BY <1>8 DEF Timeout, Cancel, Close
  <2>2. exec'[t] \in {exec[t], Aborted(exec[t])}
    BY <1>8 DEF TypeOK, Timeout, Cancel, Close
  <2> QED BY <2>1, <2>2, AbortKeeps
<1>9. CASE (\E r \in Runs : RefuseDispatch(r)) \/ Reopen \/ UNCHANGED vars
  <2>1. Same(t)
    BY <1>9 DEF RefuseDispatch, Reopen, vars, Same
  <2> QED BY <2>1, Untouched
<1>10. CASE Crash
  <2>1. /\ exec'[t] = Idle /\ live'[t] = {} /\ UNCHANGED <<starts, doubt, answers>>
        /\ receipt'[t] \in OldOrNew(t)
    BY <1>10 DEF Crash
  <2>2. HistoryMatchesFile(t)'
    BY <2>1, OldOrNewKeeps
  <2> QED BY <2>1, <2>2, IdleEntry DEF FileOK
<1> QED BY <1>1, <1>2, <1>3, <1>4, <1>5, <1>6, <1>7, <1>8, <1>9, <1>10 DEF Next

-----------------------------------------------------------------------------
(* What callers have heard.                                                *)
HeardAt(s) ==
  \A answer \in answers[s] :
    answer.is.status \in {"completed", "denied"}
      => /\ receipt[s] # Absent
         /\ receipt[s].fp = answer.fp
         /\ receipt[s].body = answer.is

(* A caller is told an outcome that the file of its step holds by then.    *)
LEMMA TellingKeeps ==
  ASSUME TypeOK, NEW s \in Steps, NEW outcome \in Outcomes, Answer(s, outcome),
         exec[s].pc # "idle",
         (receipt'[s] = receipt[s] /\ HeardAt(s)) \/ Unheard(s),
         outcome.status \in {"completed", "denied"}
           => /\ receipt'[s] # Absent
              /\ receipt'[s].fp = exec[s].fp
              /\ receipt'[s].body = outcome
  PROVE  HeardAt(s)'
<1>1. answers'[s] = answers[s] \cup {[fp |-> exec[s].fp, is |-> outcome]}
  BY DEF TypeOK, Answer
<1> QED BY <1>1 DEF HeardAt, Unheard

LEMMA HeardPreserved ==
  ASSUME TypeOK, TypeOK', HeardIsSaved, \A s \in Steps : FileOK(s), [Next]_vars
  PROVE  HeardIsSaved'
<1> SUFFICES ASSUME NEW t \in Steps PROVE HeardAt(t)'
  BY DEF HeardIsSaved, HeardAt
<1>0. HeardAt(t)
  BY DEF HeardIsSaved, HeardAt
<1>a. receipt'[t] = receipt[t] /\ answers'[t] = answers[t] => HeardAt(t)'
  BY <1>0 DEF HeardAt
<1>b. Unheard(t) /\ answers'[t] = answers[t] => HeardAt(t)'
  BY DEF HeardAt, Unheard
<1>1. ASSUME NEW s \in Steps,
             \/ \E fp \in Fingerprints, a \in Attempts : Dispatch(s, fp, a)
             \/ \E a \in Attempts : HandlerLate(s, a)
             \/ \E o \in Outcomes : HandlerSettles(s, o) \/ RecoverSettles(s, o)
             \/ Timeout(s)
      PROVE  HeardAt(t)'
  <2>1. UNCHANGED <<receipt, answers>>
    BY <1>1 DEF Dispatch, HandlerLate, HandlerSettles, RecoverSettles, Timeout
  <2> QED BY <1>a, <2>1
<1>8. ASSUME \/ \E r \in Runs : RefuseDispatch(r) \/ Cancel(r)
             \/ Close \/ Reopen \/ UNCHANGED vars
      PROVE  HeardAt(t)'
  <2>1. UNCHANGED <<receipt, answers>>
    BY <1>8 DEF RefuseDispatch, Cancel, Close, Reopen, vars
  <2> QED BY <1>a, <2>1
<1>2. ASSUME NEW s \in Steps, ReadReceipt(s)
      PROVE  HeardAt(t)'
  <2>1. exec[s] \in Exec /\ exec[s].pc = "reading" /\ UNCHANGED receipt
    BY <1>2, EntryType DEF ReadReceipt, At
  <2>2. CASE Admission(receipt[s], exec[s]) = Intent
    BY <1>2, <1>a, <2>1, <2>2 DEF ReadReceipt
  <2>3. CASE Admission(receipt[s], exec[s]) # Intent
    <3>1. Answer(s, Admission(receipt[s], exec[s]))
      BY <1>2, <2>3 DEF ReadReceipt
    <3>2. Admission(receipt[s], exec[s]) \in Outcomes
      BY <2>1, <2>3, AdmissionType DEF TypeOK
    <3>3. CASE t = s
      BY <1>0, <2>1, <3>1, <3>2, <3>3, AdmissionTells, TellingKeeps DEF TypeOK
    <3>4. CASE t # s
      BY <1>a, <2>1, <3>1, <3>4 DEF TypeOK, Answer
    <3> QED BY <3>3, <3>4
  <2> QED BY <2>2, <2>3
<1>3. ASSUME NEW s \in Steps, ReadFails(s) \/ IntentFails(s)
      PROVE  HeardAt(t)'
  <2>1. exec[s].pc \in {"reading", "intending"} /\ Answer(s, Failure("unknown"))
    BY <1>3 DEF ReadFails, IntentFails, At
  <2>2. (receipt'[s] = receipt[s]) \/ Unheard(s)
    BY <1>3 DEF ReadFails, IntentFails, At, FileOK, EntryMatchesFile
  <2>3. CASE t = s
    BY <1>0, <2>1, <2>2, <2>3, TellingKeeps, OutcomeFacts DEF Codes
  <2>4. CASE t # s
    <3>1. receipt'[t] = receipt[t]
      BY <1>3, <2>4 DEF TypeOK, ReadFails, IntentFails
    <3> QED BY <1>a, <2>1, <2>4, <3>1 DEF TypeOK, Answer
  <2> QED BY <2>3, <2>4
<1>4. ASSUME NEW s \in Steps, IntentSaved(s)
      PROVE  HeardAt(t)'
  <2>1. UNCHANGED answers /\ (t # s => receipt'[t] = receipt[t])
    BY <1>4 DEF TypeOK, IntentSaved
  <2>2. Unheard(s)
    BY <1>4 DEF IntentSaved, At, FileOK, EntryMatchesFile
  <2> QED BY <1>a, <1>b, <2>1, <2>2
<1>5. ASSUME NEW s \in Steps, OutcomeSaved(s)
      PROVE  HeardAt(t)'
  <2>1. /\ exec[s] \in Exec /\ exec[s].pc = "saving"
        /\ Answer(s, exec[s].verdict) /\ exec[s].verdict \in Outcomes
    BY <1>5, EntryType, EntryFields DEF OutcomeSaved, At
  <2>2. Unheard(s)
    BY <2>1 DEF FileOK, EntryMatchesFile
  <2>3. receipt' = [receipt EXCEPT ![s] = Writing(s)] /\ Writing(s) # Absent
    <3>1. Writing(s).attempt # 0
      BY <2>1, EntryFields DEF Writing, Attempts
    <3> QED BY <1>5, <3>1 DEF OutcomeSaved, Absent
  <2>4. CASE t = s
    <3>1. /\ receipt'[s] # Absent /\ receipt'[s].fp = exec[s].fp
          /\ receipt'[s].body = exec[s].verdict
      BY <2>3 DEF TypeOK, Writing
    <3> QED BY <2>1, <2>2, <2>4, <3>1, TellingKeeps
  <2>5. CASE t # s
    BY <1>a, <2>1, <2>3, <2>5 DEF TypeOK, Answer
  <2> QED BY <2>4, <2>5
<1>6. ASSUME NEW s \in Steps, OutcomeFails(s)
      PROVE  HeardAt(t)'
  <2>1. exec[s].pc = "saving" /\ Unheard(s)
    BY <1>6 DEF OutcomeFails, At, FileOK, EntryMatchesFile
  <2>2. t # s => receipt'[t] = receipt[t]
    BY <1>6 DEF TypeOK, OutcomeFails
  <2>3. UNCHANGED answers \/ Answer(s, Failure("unknown"))
    BY <1>6 DEF OutcomeFails
  <2>4. CASE UNCHANGED answers
    BY <1>a, <1>b, <2>1, <2>2, <2>4
  <2>5. CASE Answer(s, Failure("unknown")) /\ t = s
    BY <2>1, <2>5, TellingKeeps, OutcomeFacts DEF Codes
  <2>6. CASE Answer(s, Failure("unknown")) /\ t # s
    BY <1>a, <2>2, <2>6 DEF TypeOK, Answer
  <2> QED BY <2>3, <2>4, <2>5, <2>6
<1>7. CASE Crash
  <2>1. UNCHANGED answers /\ receipt'[t] \in OldOrNew(t)
    BY <1>7 DEF Crash
  <2>2. exec[t].pc \in {"intending", "saving"} => Unheard(t)
    BY DEF FileOK, EntryMatchesFile
  <2>3. CASE exec[t].pc \in {"intending", "saving"}
    BY <1>b, <2>1, <2>2, <2>3
  <2>4. CASE exec[t].pc \notin {"intending", "saving"}
    <3>1. receipt'[t] = receipt[t]
      BY <2>1, <2>4 DEF OldOrNew, At
    <3> QED BY <1>a, <2>1, <3>1
  <2> QED BY <2>3, <2>4
<1> QED BY <1>1, <1>2, <1>3, <1>4, <1>5, <1>6, <1>7, <1>8 DEF Next

(* Entries and run controllers: a live entry of an aborted run is aborted. *)
LEMMA RunPreserved ==
  ASSUME TypeOK, \A s \in Steps : EntryMatchesRun(s), [Next]_vars
  PROVE  \A s \in Steps : EntryMatchesRun(s)'
<1> TAKE t \in Steps
<1>0. RunOf[t] \in Runs
  BY ReceiptConstants
<1>a. ASSUME UNCHANGED <<run, closed>>,
             \/ exec'[t].pc = "idle"
             \/ exec[t].pc # "idle" /\ (exec[t].aborted => exec'[t].aborted)
             \/ exec'[t] = exec[t]
      PROVE  EntryMatchesRun(t)'
  BY <1>a DEF EntryMatchesRun, Active
<1>b. exec[t].pc # "idle" => exec[t] \in Exec
  BY EntryType
<1>1. ASSUME NEW s \in Steps, NEW fp \in Fingerprints, NEW a \in Attempts,
             Dispatch(s, fp, a)
      PROVE  EntryMatchesRun(t)'
  <2>1. CASE t = s
    BY <1>0, <1>1, <2>1 DEF TypeOK, Dispatch, EntryMatchesRun
  <2>2. CASE t # s
    <3>1. exec'[t] = exec[t] /\ UNCHANGED closed
      BY <1>1, <2>2 DEF TypeOK, Dispatch
    <3>2. run[RunOf[t]] = "open" => run'[RunOf[t]] = "open"
      BY <1>0, <1>1 DEF TypeOK, Dispatch
    <3> QED BY <3>1, <3>2 DEF EntryMatchesRun, Active
  <2> QED BY <2>1, <2>2
<1>2. ASSUME NEW s \in Steps,
             \/ ReadReceipt(s) \/ ReadFails(s) \/ IntentFails(s)
             \/ OutcomeSaved(s) \/ OutcomeFails(s)
      PROVE  EntryMatchesRun(t)'
  <2>1. UNCHANGED <<run, closed>>
    BY <1>2 DEF ReadReceipt, ReadFails, IntentFails, OutcomeSaved, OutcomeFails
  <2>2. exec[s] \in Exec /\ exec[s].pc # "idle"
    BY <1>2, EntryType
    DEF ReadReceipt, ReadFails, IntentFails, OutcomeSaved, OutcomeFails, At
  <2>3. \/ exec' = [exec EXCEPT ![s] = Idle]
        \/ \E b : exec' = [exec EXCEPT ![s] =
                   [exec[s] EXCEPT !.pc = "intending", !.doubtful = b]]
        \/ \E v : exec' = [exec EXCEPT ![s] = [exec[s] EXCEPT !.verdict = v]]
    <3>1. CASE ReadReceipt(s)
      BY <3>1 DEF ReadReceipt, Answer
    <3>2. CASE ReadFails(s) \/ IntentFails(s) \/ OutcomeSaved(s)
      BY <3>2 DEF ReadFails, IntentFails, OutcomeSaved, Answer
    <3>3. CASE OutcomeFails(s)
      BY <3>3 DEF OutcomeFails, Answer
    <3> QED BY <1>2, <3>1, <3>2, <3>3
  <2>4. CASE exec' = [exec EXCEPT ![s] = Idle]
    BY <1>a, <2>1, <2>4 DEF TypeOK, Idle
  <2>5. ASSUME NEW b, exec' = [exec EXCEPT ![s] =
                   [exec[s] EXCEPT !.pc = "intending", !.doubtful = b]]
        PROVE  EntryMatchesRun(t)'
    <3>1. t = s => exec'[t].aborted = exec[t].aborted
      BY <2>2, <2>5 DEF TypeOK, Exec, Entry
    <3> QED BY <1>a, <2>1, <2>2, <2>5, <3>1 DEF TypeOK
  <2>6. ASSUME NEW v, exec' = [exec EXCEPT ![s] = [exec[s] EXCEPT !.verdict = v]]
        PROVE  EntryMatchesRun(t)'
    <3>1. t = s => exec'[t].aborted = exec[t].aborted
      BY <2>2, <2>6 DEF TypeOK, Exec, Entry
    <3> QED BY <1>a, <2>1, <2>2, <2>6, <3>1 DEF TypeOK
  <2> QED BY <2>3, <2>4, <2>5, <2>6
<1>3. ASSUME NEW s \in Steps, IntentSaved(s)
      PROVE  EntryMatchesRun(t)'
  <2>1. UNCHANGED <<run, closed>> /\ exec[s] \in Exec /\ exec[s].pc # "idle"
    BY <1>3, EntryType DEF IntentSaved, At
  <2>2. exec[s].doubtful \in BOOLEAN
    BY <2>1, EntryFields
  <2>3. exec'[s] \in {[exec[s] EXCEPT !.pc = "recovering"],
                     [exec[s] EXCEPT !.pc = "running"],
                     Conclude(exec[s], Failure("unknown"))}
    BY <1>3, <2>2 DEF TypeOK, IntentSaved
  <2>4. exec'[s].aborted = exec[s].aborted
    BY <2>1, <2>3 DEF Conclude, Exec, Entry
  <2>5. t # s => exec'[t] = exec[t]
    BY <1>3 DEF TypeOK, IntentSaved
  <2> QED BY <1>a, <2>1, <2>4, <2>5
<1>4. ASSUME NEW s \in Steps, NEW outcome \in Outcomes,
             HandlerSettles(s, outcome) \/ RecoverSettles(s, outcome)
      PROVE  EntryMatchesRun(t)'
  <2>1. /\ UNCHANGED <<run, closed>> /\ exec[s] \in Exec /\ exec[s].pc # "idle"
        /\ exec' = [exec EXCEPT ![s] = Conclude(exec[s], outcome)]
    BY <1>4, EntryType DEF HandlerSettles, RecoverSettles, At
  <2>2. Conclude(exec[s], outcome).aborted = exec[s].aborted
    BY <2>1 DEF Conclude, Exec, Entry
  <2> QED BY <1>a, <2>1, <2>2 DEF TypeOK
<1>5. ASSUME NEW s \in Steps, NEW a \in Attempts, HandlerLate(s, a)
      PROVE  EntryMatchesRun(t)'
  BY <1>a, <1>5 DEF HandlerLate
<1>6. exec[t].pc # "idle" => Aborted(exec[t]).aborted
  BY <1>b, EntryFields DEF Aborted, Conclude, Exec, Entry
<1>7. ASSUME NEW s \in Steps, Timeout(s)
      PROVE  EntryMatchesRun(t)'
  <2>1. exec'[t] = exec[t] \/ (exec[t].pc # "idle" /\ exec'[t] = Aborted(exec[t]))
    BY <1>7 DEF TypeOK, Timeout
  <2>2. UNCHANGED <<run, closed>>
    BY <1>7 DEF Timeout
  <2> QED BY <1>6, <1>a, <2>1, <2>2
<1>8. ASSUME NEW r \in Runs, RefuseDispatch(r) \/ Cancel(r)
      PROVE  EntryMatchesRun(t)'
  <2>1. CASE RefuseDispatch(r)
    BY <1>0, <2>1 DEF TypeOK, RefuseDispatch, EntryMatchesRun, Active
  <2>2. CASE Cancel(r) /\ RunOf[t] = r
    <3>1. exec'[t] = Aborted(exec[t])
      BY <2>2 DEF Cancel
    <3> QED BY <1>6, <3>1 DEF EntryMatchesRun, Active, Aborted
  <2>3. CASE Cancel(r) /\ RunOf[t] # r
    <3>1. exec'[t] = exec[t] /\ UNCHANGED closed /\ run'[RunOf[t]] = run[RunOf[t]]
      BY <1>0, <2>3 DEF TypeOK, Cancel
    <3> QED BY <3>1 DEF EntryMatchesRun, Active
  <2> QED BY <1>8, <2>1, <2>2, <2>3
<1>9. CASE Close
  <2>1. exec'[t] = Aborted(exec[t])
    BY <1>9 DEF Close
  <2> QED BY <1>6, <2>1 DEF EntryMatchesRun, Active, Aborted
<1>10. CASE Reopen
  BY <1>10 DEF Reopen, EntryMatchesRun, Active
<1>11. CASE Crash
  BY <1>11 DEF Crash, EntryMatchesRun, Active, Idle
<1>12. CASE UNCHANGED vars
  BY <1>a, <1>12 DEF vars
<1> QED BY <1>1, <1>2, <1>3, <1>4, <1>5, <1>7, <1>8, <1>9, <1>10, <1>11, <1>12
        DEF Next

-----------------------------------------------------------------------------
(* The inductive invariant of the dispatcher.                              *)
DispatcherInv == TypeOK /\ Consistent /\ HeardIsSaved

LEMMA InitInv == Init => DispatcherInv
<1> SUFFICES ASSUME Init PROVE DispatcherInv
  OBVIOUS
<1>1. TypeOK
  BY InitType
<1>2. ASSUME NEW s \in Steps
      PROVE  HistoryMatchesFile(s) /\ EntryMatchesFile(s) /\ EntryMatchesRun(s)
  BY <1>2 DEF Init, HistoryMatchesFile, EntryMatchesFile, EntryMatchesRun,
              Active, Idle
<1>3. HeardIsSaved
  BY DEF Init, HeardIsSaved
<1> QED BY <1>1, <1>2, <1>3 DEF DispatcherInv, Consistent

LEMMA InvPreserved == DispatcherInv /\ [Next]_vars => DispatcherInv'
<1> SUFFICES ASSUME DispatcherInv, [Next]_vars PROVE DispatcherInv'
  OBVIOUS
<1>1. TypeOK'
  BY TypePreserved DEF DispatcherInv
<1>2. \A s \in Steps : FileOK(s)
  BY DEF DispatcherInv, Consistent, FileOK
<1>3. \A s \in Steps : FileOK(s)'
  BY <1>2, FilePreserved DEF DispatcherInv
<1>4. HeardIsSaved'
  BY <1>1, <1>2, HeardPreserved DEF DispatcherInv
<1>5. \A s \in Steps : EntryMatchesRun(s)'
  BY RunPreserved DEF DispatcherInv, Consistent
<1> QED BY <1>1, <1>3, <1>4, <1>5 DEF DispatcherInv, Consistent, FileOK

LEMMA InvHolds == Spec => []DispatcherInv
BY InitInv, InvPreserved, PTL DEF Spec

(* Files, active entries, histories and run controllers agree in every     *)
(* reachable state of execute, cancel, close and a restart.                *)
THEOREM DispatcherConsistent == Spec => []Consistent
<1>1. DispatcherInv => Consistent
  BY DEF DispatcherInv
<1> QED BY <1>1, InvHolds, PTL

(* An output or denial a caller heard is the saved receipt, for ever.      *)
THEOREM HeardAnswersAreSaved == Spec => []HeardIsSaved
<1>1. DispatcherInv => HeardIsSaved
  BY DEF DispatcherInv
<1> QED BY <1>1, InvHolds, PTL

(* No attempt is handed to a handler twice, whatever crashes and fails.    *)
THEOREM AttemptsRunOnce == Spec => []OneRunPerAttempt
<1>1. DispatcherInv => OneRunPerAttempt
  BY DEF DispatcherInv, Consistent, HistoryMatchesFile, OneRunPerAttempt
<1> QED BY <1>1, InvHolds, PTL

(* Handlers of a step without a recover hook never overlap.                *)
THEOREM HandlersDoNotOverlap == Spec => []OneHandlerUnlessRecovered
<1>1. ASSUME DispatcherInv PROVE OneHandlerUnlessRecovered
  <2> SUFFICES ASSUME NEW s \in Steps, receipt[s] # Absent,
                      receipt[s].fp \notin Recoverable
               PROVE  \A a, b \in live[s] : a = b
    BY DEF OneHandlerUnlessRecovered
  <2>1. HistoryMatchesFile(s)
    BY <1>1 DEF DispatcherInv, Consistent
  <2>2. live[s] \subseteq doubt[s]
    BY <2>1 DEF HistoryMatchesFile
  <2>3. \A a, b \in doubt[s] : a = b
    BY <2>1 DEF HistoryMatchesFile
  <2> QED BY <2>2, <2>3
<1> QED BY <1>1, InvHolds, PTL

-----------------------------------------------------------------------------
(* The one step that calls a handler, and what held before it.             *)
LEMMA StartMeans ==
  ASSUME DispatcherInv, [Next]_vars, NEW s \in Steps, starts'[s] # starts[s]
  PROVE  /\ IntentSaved(s)
         /\ doubt[s] = {}
         /\ ~closed /\ run[RunOf[s]] = "open"
         /\ starts[s][exec[s].attempt] = 0
         /\ starts'[s] = [starts[s] EXCEPT ![exec[s].attempt] = 1]
<1>0. TypeOK /\ FileOK(s) /\ EntryMatchesRun(s)
  BY DEF DispatcherInv, Consistent, FileOK
<1>1. PICK t \in Steps : IntentSaved(t)
  <2>1. starts' # starts
    OBVIOUS
  <2>2. \/ \E t \in Steps : IntentSaved(t)
        \/ UNCHANGED starts
    <3>1. ASSUME NEW t \in Steps,
            \/ \E fp \in Fingerprints, a \in Attempts : Dispatch(t, fp, a)
            \/ ReadReceipt(t) \/ ReadFails(t) \/ IntentFails(t)
            \/ \E outcome \in Outcomes :
                 HandlerSettles(t, outcome) \/ RecoverSettles(t, outcome)
            \/ \E a \in Attempts : HandlerLate(t, a)
            \/ Timeout(t) \/ OutcomeSaved(t) \/ OutcomeFails(t)
          PROVE UNCHANGED starts
      BY <3>1 DEF Dispatch, ReadReceipt, ReadFails, IntentFails, HandlerSettles,
                  RecoverSettles, HandlerLate, Timeout, OutcomeSaved, OutcomeFails
    <3>2. ASSUME \/ \E r \in Runs : RefuseDispatch(r) \/ Cancel(r)
                 \/ Close \/ Reopen \/ Crash \/ UNCHANGED vars
          PROVE UNCHANGED starts
      BY <3>2 DEF RefuseDispatch, Cancel, Close, Reopen, Crash, vars
    <3> QED BY <3>1, <3>2 DEF Next
  <2> QED BY <2>1, <2>2
<1>2. /\ ~exec[t].doubtful /\ ~exec[t].aborted
      /\ starts' = [starts EXCEPT ![t][exec[t].attempt] = @ + 1]
  <2>1. starts' # starts
    OBVIOUS
  <2> QED BY <1>1, <2>1, Zenon DEF IntentSaved
<1>3. t = s
  BY <1>0, <1>2 DEF TypeOK
<1>4. exec[s] \in Exec /\ exec[s].pc = "intending"
  BY <1>0, <1>1, <1>3, EntryType DEF IntentSaved, At
<1>5. exec[s].attempt \in Attempts /\ exec[s].attempt \in Nat
  BY <1>4, EntryFields DEF Attempts
<1>6. receipt[s] # Absent =>
        /\ receipt[s].body.status = "retryable"
        /\ receipt[s].attempt < exec[s].attempt /\ receipt[s].attempt \in Nat
  BY <1>0, <1>2, <1>3, <1>4, ReceiptType
  DEF FileOK, EntryMatchesFile, Receipt, Attempts
<1>7. doubt[s] = {}
  BY <1>0, <1>6 DEF FileOK, HistoryMatchesFile, Absent, NoReceipt
<1>8. starts[s][exec[s].attempt] = 0
  <2>1. starts[s][exec[s].attempt] \in Nat
    BY <1>0, <1>5 DEF TypeOK
  <2>2. ~(starts[s][exec[s].attempt] > 0)
    BY <1>0, <1>5, <1>6 DEF FileOK, HistoryMatchesFile
  <2> QED BY <2>1, <2>2
<1>9. starts'[s] = [starts[s] EXCEPT ![exec[s].attempt] = 1]
  <2>1. starts'[s] = [starts[s] EXCEPT ![exec[s].attempt] = @ + 1]
    BY <1>0, <1>2, <1>3 DEF TypeOK
  <2> QED BY <1>8, <2>1
<1>10. ~closed /\ run[RunOf[s]] = "open"
  BY <1>0, <1>2, <1>3, <1>4 DEF EntryMatchesRun, Active
<1> QED BY <1>1, <1>3, <1>7, <1>8, <1>9, <1>10

(* A handler is started only while no earlier attempt is in doubt.         *)
THEOREM EffectsNotRepeated == Spec => NoRunUnderDoubt
<1>1. DispatcherInv /\ [Next]_vars
        => [\A s \in Steps : starts'[s] # starts[s] => doubt[s] = {}]_vars
  BY StartMeans
<1> QED BY <1>1, InvHolds, PTL DEF Spec, NoRunUnderDoubt

(* A handler is started only while its run is not cancelled and the        *)
(* dispatcher is open.                                                     *)
THEOREM NothingStartsAfterAbort == Spec => NoRunAfterAbort
<1>1. DispatcherInv /\ [Next]_vars
        => [\A s \in Steps : starts'[s] # starts[s]
              => ~closed /\ run[RunOf[s]] = "open"]_vars
  BY StartMeans
<1> QED BY <1>1, InvHolds, PTL DEF Spec, NoRunAfterAbort

LEMMA FilesOldOrNew ==
  ASSUME TypeOK, [Next]_vars, NEW t \in Steps
  PROVE  receipt'[t] \in OldOrNew(t)
<1>0. receipt[t] \in OldOrNew(t)
  BY DEF OldOrNew
<1>1. ASSUME NEW s \in Steps,
             \/ \E fp \in Fingerprints, a \in Attempts : Dispatch(s, fp, a)
             \/ ReadReceipt(s) \/ ReadFails(s)
             \/ \E outcome \in Outcomes :
                  HandlerSettles(s, outcome) \/ RecoverSettles(s, outcome)
             \/ \E a \in Attempts : HandlerLate(s, a)
             \/ Timeout(s)
      PROVE  receipt'[t] \in OldOrNew(t)
  BY <1>0, <1>1 DEF Dispatch, ReadReceipt, ReadFails, HandlerSettles,
                    RecoverSettles, HandlerLate, Timeout
<1>2. ASSUME NEW s \in Steps,
             \/ IntentSaved(s) \/ IntentFails(s)
             \/ OutcomeSaved(s) \/ OutcomeFails(s)
      PROVE  receipt'[t] \in OldOrNew(t)
  <2>1. t # s => receipt'[t] = receipt[t]
    BY <1>2 DEF TypeOK, IntentSaved, IntentFails, OutcomeSaved, OutcomeFails
  <2>2. receipt'[s] \in OldOrNew(s)
    BY <1>2 DEF TypeOK, IntentSaved, IntentFails, OutcomeSaved, OutcomeFails,
                OldOrNew, At
  <2> QED BY <1>0, <2>1, <2>2
<1>3. CASE \/ \E r \in Runs : RefuseDispatch(r) \/ Cancel(r)
           \/ Close \/ Reopen \/ UNCHANGED vars
  BY <1>0, <1>3 DEF RefuseDispatch, Cancel, Close, Reopen, vars
<1>4. CASE Crash
  BY <1>4 DEF Crash
<1> QED BY <1>1, <1>2, <1>3, <1>4 DEF Next

(* A receipt keeps its fingerprint, and its attempt only grows.            *)
THEOREM ReceiptsAdvance == Spec => ReceiptOnlyAdvances
<1>1. ASSUME DispatcherInv, [Next]_vars, NEW s \in Steps, receipt[s] # Absent
      PROVE  /\ receipt'[s] # Absent
             /\ receipt'[s].fp = receipt[s].fp
             /\ receipt'[s].attempt >= receipt[s].attempt
  <2>0. TypeOK /\ FileOK(s)
    BY <1>1 DEF DispatcherInv, Consistent, FileOK
  <2>1. receipt[s].attempt \in Nat
    BY <1>1, <2>0, ReceiptType DEF Receipt, Attempts
  <2>2. CASE receipt'[s] = receipt[s]
    BY <1>1, <2>1, <2>2
  <2>3. CASE receipt'[s] = Writing(s) /\ exec[s].pc \in {"intending", "saving"}
    <3>1. exec[s] \in Exec
      BY <2>0, <2>3, EntryType
    <3>2. exec[s].attempt \in Nat /\ exec[s].attempt # 0
      BY <3>1, EntryFields DEF Attempts
    <3>3. receipt[s].fp = exec[s].fp /\ receipt[s].attempt <= exec[s].attempt
      BY <1>1, <2>0, <2>1, <2>3, <3>1, <3>2, EntryFields DEF FileOK, EntryMatchesFile
    <3> QED BY <2>1, <2>3, <3>2, <3>3 DEF Writing, Absent
  <2> QED BY <1>1, <2>0, <2>2, <2>3, FilesOldOrNew DEF OldOrNew, At
<1>2. DispatcherInv /\ [Next]_vars
        => [\A s \in Steps : receipt[s] # Absent
              => /\ receipt'[s] # Absent
                 /\ receipt'[s].fp = receipt[s].fp
                 /\ receipt'[s].attempt >= receipt[s].attempt]_vars
  BY <1>1
<1> QED BY <1>2, InvHolds, PTL DEF Spec, ReceiptOnlyAdvances

-----------------------------------------------------------------------------
(* The dispatcher implements TaskEffect: lemmas about the values the map   *)
(* is made of, before and after a step.                                    *)
Bodies == Contents \cup {NoReceipt}

LEMMA PhaseFacts ==
  ASSUME NEW pc, NEW body \in Bodies
  PROVE  /\ Phase(pc, body) \in {"ready", "uncertain", "done", "refused"}
         /\ pc = "saving" => Phase(pc, body) = "uncertain"
         /\ pc # "saving" =>
              /\ body.status \in {"absent", "retryable"} => Phase(pc, body) = "ready"
              /\ body.status \in {"intent", "unknown"} => Phase(pc, body) = "uncertain"
              /\ body.status \in {"denied", "invalid"} => Phase(pc, body) = "refused"
              /\ body.status = "completed" => Phase(pc, body) = "done"
              /\ Phase(pc, body) = "done" => \E o \in Outputs : body = Success(o)
         /\ body.status \in {"absent", "retryable", "intent", "unknown",
                             "denied", "invalid", "completed"}
<1>1. body.status \in {"absent", "retryable", "intent", "unknown",
                        "denied", "invalid", "completed"}
  BY OutcomeFacts DEF Bodies, Contents, Codes
<1>2. body.status = "completed" => \E o \in Outputs : body = Success(o)
  <2>1. \A c \in Codes : Failure(c).status # "completed"
    BY OutcomeFacts DEF Codes
  <2> QED BY <2>1, OutcomeFacts DEF Bodies, Contents, Outcomes
<1>3. /\ pc = "saving" => Phase(pc, body) = "uncertain"
      /\ pc # "saving" =>
           /\ body.status \in {"absent", "retryable"} => Phase(pc, body) = "ready"
           /\ body.status \in {"intent", "unknown"} => Phase(pc, body) = "uncertain"
           /\ body.status \in {"denied", "invalid"} => Phase(pc, body) = "refused"
           /\ body.status = "completed" => Phase(pc, body) = "done"
  BY DEF Phase
<1> QED BY <1>1, <1>2, <1>3

LEMMA EffectFields ==
  ASSUME NEW pc, NEW body, NEW n, NEW h
  PROVE  /\ EffectFrom(pc, body, n, h).phase = Phase(pc, body)
         /\ EffectFrom(pc, body, n, h).starts = n.starts
         /\ EffectFrom(pc, body, n, h).doubt = n.doubt
         /\ EffectFrom(pc, body, n, h).told = Told(h)
         /\ EffectFrom(pc, body, n, h).output =
              IF Phase(pc, body) = "done" THEN body.output ELSE NoOutput
BY DEF EffectFrom

MovesTo(e, f) == Promise!Evolves(e, f) \/ f = e

(* The same phase, starts and answers, and nothing done: a stutter.        *)
LEMMA Stutters ==
  ASSUME NEW pc, NEW body, NEW pc2, NEW body2, NEW n, NEW h, NEW h2,
         Phase(pc, body) = Phase(pc2, body2), Told(h) = Told(h2),
         body = body2 \/ Phase(pc, body) # "done"
  PROVE  MovesTo(EffectFrom(pc, body, n, h), EffectFrom(pc2, body2, n, h2))
BY DEF MovesTo, EffectFrom

(* An entry that stays out of "saving", or in it, over an unchanged file.  *)
LEMMA KeepsFile ==
  ASSUME NEW pc, NEW pc2, NEW body \in Bodies, NEW n, NEW h, NEW h2,
         Told(h) = Told(h2), pc = "saving" <=> pc2 = "saving"
  PROVE  MovesTo(EffectFrom(pc, body, n, h), EffectFrom(pc2, body, n, h2))
<1>1. Phase(pc, body) = Phase(pc2, body)
  BY PhaseFacts
<1> QED BY <1>1, Stutters

(* An uncertain effect becomes anything, without an output told; ready only *)
(* with nothing in doubt.                                                  *)
LEMMA UncertainSettles ==
  ASSUME NEW pc, NEW body, NEW pc2, NEW body2 \in Bodies, NEW n, NEW h, NEW h2,
         Phase(pc, body) = "uncertain", Told(h) = Told(h2),
         Phase(pc2, body2) = "ready" => n.doubt = {}
  PROVE  MovesTo(EffectFrom(pc, body, n, h), EffectFrom(pc2, body2, n, h2))
<1> DEFINE e == EffectFrom(pc, body, n, h)
           f == EffectFrom(pc2, body2, n, h2)
<1>1. /\ e.phase = "uncertain" /\ e.output = NoOutput
      /\ e.starts = f.starts /\ e.doubt = f.doubt /\ e.told = f.told
      /\ e.doubt = n.doubt
      /\ f.phase = Phase(pc2, body2)
      /\ f.phase # "done" => f.output = NoOutput
      /\ f.phase = "done" => f.output = body2.output
  BY EffectFields
<1>2. CASE Phase(pc2, body2) = "uncertain"
  BY <1>2, Stutters
<1>3. CASE Phase(pc2, body2) \in {"ready", "refused"}
  BY <1>1, <1>3 DEF MovesTo, Promise!Evolves, Promise!Clears
<1>4. CASE Phase(pc2, body2) = "done"
  <2>1. body2.output \in Outputs
    BY <1>4, PhaseFacts DEF Success
  <2> QED BY <1>1, <1>4, <2>1 DEF MovesTo, Promise!Evolves, Promise!Completes
<1> QED BY <1>2, <1>3, <1>4, PhaseFacts

(* A ready effect becomes uncertain, started or not.                       *)
LEMMA ReadyBegins ==
  ASSUME NEW pc, NEW body, NEW pc2, NEW body2, NEW n, NEW n2, NEW h, NEW h2,
         Phase(pc, body) = "ready", Phase(pc2, body2) = "uncertain",
         Told(h) = Told(h2),
         \/ n2 = n
         \/ \E a \in Attempts :
              /\ n.starts[a] = 0 /\ n.doubt = {}
              /\ n2.starts = [n.starts EXCEPT ![a] = 1] /\ n2.doubt = {a}
  PROVE  MovesTo(EffectFrom(pc, body, n, h), EffectFrom(pc2, body2, n2, h2))
<1> DEFINE e == EffectFrom(pc, body, n, h)
           f == EffectFrom(pc2, body2, n2, h2)
<1>1. /\ e.phase = "ready" /\ f.phase = "uncertain"
      /\ f.output = e.output /\ f.told = e.told
      /\ e.starts = n.starts /\ e.doubt = n.doubt
      /\ f.starts = n2.starts /\ f.doubt = n2.doubt
  BY EffectFields
<1> HIDE DEF e, f
<1>2. Promise!Begins(e, f)
  BY <1>1 DEF Promise!Begins
<1> QED BY <1>2 DEF MovesTo, Promise!Evolves, e, f

(* What an answer adds to the outputs told.                                *)
LEMMA FailureTells ==
  ASSUME NEW h, NEW x, x.is.status # "completed"
  PROVE  Told(h \cup {x}) = Told(h)
<1>1. \A o \in Outputs : x.is # Success(o)
  BY OutcomeFacts
<1> QED BY <1>1 DEF Told

LEMMA SuccessTells ==
  ASSUME NEW h, NEW x, NEW o \in Outputs, x.is = Success(o)
  PROVE  Told(h \cup {x}) = Told(h) \cup {o}
<1>1. \A p \in Outputs : Success(p) = Success(o) => p = o
  BY DEF Success
<1> QED BY <1>1 DEF Told

-----------------------------------------------------------------------------
(* ... and about the steps.                                                *)
BodyOf(s) == receipt[s].body

LEMMA BodyType ==
  ASSUME TypeOK, NEW s \in Steps
  PROVE  BodyOf(s) \in Bodies
BY DEF TypeOK, BodyOf, Bodies, Receipt, Absent

LEMMA BodyTypeNext ==
  ASSUME TypeOK', NEW s \in Steps
  PROVE  receipt'[s].body \in Bodies
BY DEF TypeOK, Bodies, Receipt, Absent

EffectMoves(s) == MovesTo(EffectOf(s), EffectOf(s)')

LEMMA UnheardTold ==
  ASSUME NEW s \in Steps, Unheard(s)
  PROVE  Told(answers[s]) = {}
BY OutcomeFacts DEF Unheard, Told

(* Leaving the file alone, and the saving of an outcome as well.           *)
LEMMA FileKept ==
  ASSUME TypeOK, NEW s \in Steps, receipt'[s] = receipt[s],
         starts'[s] = starts[s], doubt'[s] = doubt[s],
         Told(answers'[s]) = Told(answers[s]),
         exec'[s].pc = "saving" <=> exec[s].pc = "saving"
  PROVE  EffectMoves(s)
BY BodyType, KeepsFile DEF EffectMoves, EffectOf, BodyOf, Past

(* Moving to "saving" from a call whose intent is on file, with some       *)
(* attempts denied.                                                        *)
LEMMA CallEnds ==
  ASSUME TypeOK, NEW s \in Steps, receipt'[s] = receipt[s],
         starts'[s] = starts[s], answers'[s] = answers[s],
         doubt'[s] \subseteq doubt[s],
         receipt[s].body = Intent
  PROVE  EffectMoves(s)
<1>1. Phase(exec[s].pc, Intent) = "uncertain"
      /\ Phase(exec'[s].pc, Intent) = "uncertain"
  BY PhaseFacts, OutcomeFacts DEF Bodies
<1> DEFINE f == EffectFrom(exec'[s].pc, Intent, Past(s)', answers[s])
<1>2. /\ EffectOf(s).phase = "uncertain"
      /\ f.doubt = doubt'[s] /\ EffectOf(s).doubt = doubt[s]
      /\ EffectOf(s)' = f
  BY <1>1, EffectFields DEF EffectOf, Past
<1>3. f = [EffectOf(s) EXCEPT !.doubt = f.doubt]
  BY <1>1 DEF EffectOf, EffectFrom, Past
<1> QED BY <1>2, <1>3 DEF EffectMoves, MovesTo, Promise!Evolves, Promise!Denies

(* A write after which the entry is gone, without an output told.          *)
LEMMA WriteMoves ==
  ASSUME TypeOK, TypeOK', NEW s \in Steps, FileOK(s), exec'[s] = Idle,
         receipt'[s] \in OldOrNew(s), starts'[s] = starts[s], doubt'[s] = doubt[s],
         HistoryMatchesFile(s)', Told(answers'[s]) = Told(answers[s])
  PROVE  EffectMoves(s)
<1>0. exec'[s].pc = "idle" /\ Past(s)' = Past(s)
  BY DEF Idle, Past
<1>1. CASE exec[s].pc = "saving"
  <2>1. Phase(exec[s].pc, receipt[s].body) = "uncertain"
    BY <1>1 DEF Phase
  <2>2. Phase(exec'[s].pc, receipt'[s].body) = "ready" => Past(s).doubt = {}
    BY <1>0, BodyTypeNext, PhaseFacts DEF HistoryMatchesFile, Past
  <2> QED BY <1>0, <2>1, <2>2, BodyTypeNext, UncertainSettles DEF EffectMoves, EffectOf
<1>2. CASE exec[s].pc = "intending" /\ receipt'[s] = Writing(s)
  <2>1. exec[s] \in Exec /\ receipt'[s].body = Intent
    BY <1>2, EntryType, EntryFields DEF Writing
  <2>2. Phase(exec'[s].pc, receipt'[s].body) = "uncertain"
    BY <1>0, <2>1, PhaseFacts, OutcomeFacts DEF Bodies
  <2>3. receipt[s].body.status \in {"absent", "retryable", "intent", "unknown"}
    BY <1>2, <2>1, EntryFields
    DEF FileOK, EntryMatchesFile, Uncertain, Absent, NoReceipt
  <2>4. Phase(exec[s].pc, receipt[s].body) \in {"ready", "uncertain"}
    BY <1>2, <2>3, BodyType, PhaseFacts DEF BodyOf
  <2>5. CASE Phase(exec[s].pc, receipt[s].body) = "ready"
    BY <1>0, <2>2, <2>5, ReadyBegins DEF EffectMoves, EffectOf
  <2>6. CASE Phase(exec[s].pc, receipt[s].body) = "uncertain"
    BY <1>0, <2>2, <2>6, Stutters DEF EffectMoves, EffectOf
  <2> QED BY <2>4, <2>5, <2>6
<1>3. CASE exec[s].pc # "saving" /\ receipt'[s] = receipt[s]
  BY <1>0, <1>3, FileKept
<1> QED BY <1>1, <1>2, <1>3 DEF OldOrNew, At

LEMMA IntentSavedMoves ==
  ASSUME DispatcherInv, DispatcherInv', [Next]_vars, NEW s \in Steps, IntentSaved(s)
  PROVE  EffectMoves(s)
<1>0. TypeOK /\ TypeOK' /\ FileOK(s)
  BY DEF DispatcherInv, Consistent, FileOK
<1>1. exec[s] \in Exec /\ exec[s].pc = "intending" /\ exec[s].verdict = Intent
  BY <1>0, EntryType, EntryFields DEF IntentSaved, At
<1>2. receipt'[s].body = Intent /\ answers'[s] = answers[s]
  BY <1>0, <1>1 DEF TypeOK, IntentSaved, Writing
<1>3. Phase(exec'[s].pc, receipt'[s].body) = "uncertain"
  BY <1>2, PhaseFacts, OutcomeFacts DEF Bodies
<1>4. receipt[s].body.status \in {"absent", "retryable", "intent", "unknown"}
  BY <1>0, <1>1, EntryFields
  DEF FileOK, EntryMatchesFile, Uncertain, Absent, NoReceipt
<1>5. Phase(exec[s].pc, receipt[s].body)
        = IF receipt[s].body.status \in {"absent", "retryable"}
          THEN "ready" ELSE "uncertain"
  BY <1>0, <1>1, <1>4, BodyType, PhaseFacts DEF BodyOf
<1>6. CASE starts'[s] = starts[s]
  <2>1. starts[s][exec[s].attempt] \in Nat
    BY <1>0, <1>1, EntryFields DEF TypeOK
  <2>2. ~(~exec[s].doubtful /\ ~exec[s].aborted)
    BY <1>0, <1>1, <1>6, <2>1, EntryFields DEF TypeOK, IntentSaved
  <2>3. Past(s)' = Past(s)
    BY <1>6, <2>2 DEF IntentSaved, Past
  <2> QED BY <1>2, <1>3, <1>5, <2>3, ReadyBegins, Stutters DEF EffectMoves, EffectOf
<1>7. CASE starts'[s] # starts[s]
  <2>1. /\ starts[s][exec[s].attempt] = 0
        /\ starts'[s] = [starts[s] EXCEPT ![exec[s].attempt] = 1]
        /\ doubt[s] = {}
    BY <1>7, StartMeans
  <2>2. exec[s].attempt \in Attempts
    BY <1>1, EntryFields
  <2>3. ~exec[s].doubtful
    BY <1>7, Zenon DEF IntentSaved
  <2>4. receipt[s].body.status \in {"absent", "retryable"}
    BY <1>0, <1>1, <2>3 DEF FileOK, EntryMatchesFile, Absent, NoReceipt
  <2>5. doubt'[s] = {exec[s].attempt}
    <3>1. doubt' = [doubt EXCEPT ![s] = @ \cup {exec[s].attempt}]
      BY <1>7, Zenon DEF IntentSaved
    <3> QED BY <1>0, <2>1, <3>1 DEF TypeOK
  <2>6. /\ Past(s).starts[exec[s].attempt] = 0 /\ Past(s).doubt = {}
        /\ Past(s)'.starts = [Past(s).starts EXCEPT ![exec[s].attempt] = 1]
        /\ Past(s)'.doubt = {exec[s].attempt}
    BY <2>1, <2>5 DEF Past
  <2> QED BY <1>2, <1>3, <1>5, <2>2, <2>4, <2>6, ReadyBegins
          DEF EffectMoves, EffectOf
<1> QED BY <1>6, <1>7

LEMMA OutcomeSavedMoves ==
  ASSUME DispatcherInv, DispatcherInv', NEW s \in Steps, OutcomeSaved(s)
  PROVE  EffectMoves(s)
<1>0. TypeOK /\ TypeOK' /\ FileOK(s) /\ HistoryMatchesFile(s)'
  BY DEF DispatcherInv, Consistent, FileOK
<1> DEFINE v == exec[s].verdict
<1>1. exec[s].pc = "saving" /\ v \in Outcomes /\ Answer(s, v)
  BY <1>0, EntryType, EntryFields DEF OutcomeSaved, At
<1>2. /\ exec'[s] = Idle /\ receipt'[s] = Writing(s)
      /\ starts'[s] = starts[s] /\ doubt'[s] = doubt[s] /\ Past(s)' = Past(s)
  BY <1>0 DEF TypeOK, OutcomeSaved, Answer, Past
<1>3. answers'[s] = answers[s] \cup {[fp |-> exec[s].fp, is |-> v]}
  BY <1>0, <1>1 DEF TypeOK, Answer
<1>4. CASE v.status # "completed"
  <2>1. Told(answers'[s]) = Told(answers[s])
    BY <1>3, <1>4, FailureTells
  <2>2. receipt'[s] \in OldOrNew(s)
    BY <1>1, <1>2 DEF OldOrNew, At
  <2> QED BY <1>0, <1>2, <2>1, <2>2, WriteMoves
<1>5. CASE v.status = "completed"
  <2>1. PICK o \in Outputs : v = Success(o)
    <3>1. \A c \in Codes : Failure(c).status # "completed"
      BY OutcomeFacts DEF Codes
    <3> QED BY <1>1, <1>5, <3>1 DEF Outcomes
  <2>2. Told(answers'[s]) = Told(answers[s]) \cup {o}
    <3> DEFINE x == [fp |-> exec[s].fp, is |-> v]
    <3>1. x.is = Success(o)
      BY <2>1
    <3>2. Told(answers[s] \cup {x}) = Told(answers[s]) \cup {o}
      <4> HIDE DEF x
      <4> QED BY <3>1, SuccessTells
    <3> QED BY <1>3, <3>2
  <2>3. receipt'[s].body = Success(o) /\ exec'[s].pc = "idle"
    BY <1>2, <2>1 DEF Writing, Idle
  <2>4. Phase("idle", Success(o)) = "done" /\ Success(o).output = o
    BY OutcomeFacts DEF Phase, Success
  <2>5. Phase("saving", receipt[s].body) = "uncertain"
    BY DEF Phase
  <2> QED BY <1>1, <1>2, <2>2, <2>3, <2>4, <2>5, EffectFields
          DEF EffectMoves, EffectOf, MovesTo, Promise!Evolves, Promise!Completes
<1> QED BY <1>4, <1>5

LEMMA ReadMoves ==
  ASSUME DispatcherInv, DispatcherInv', NEW s \in Steps, ReadReceipt(s)
  PROVE  EffectMoves(s)
<1>0. TypeOK /\ TypeOK'
  BY DEF DispatcherInv
<1>1. /\ exec[s] \in Exec /\ exec[s].pc = "reading"
      /\ receipt'[s] = receipt[s] /\ starts'[s] = starts[s] /\ doubt'[s] = doubt[s]
  BY <1>0, EntryType DEF ReadReceipt, At
<1> DEFINE v == Admission(receipt[s], exec[s])
<1>2. CASE v = Intent
  <2>1. exec'[s] = [exec[s] EXCEPT !.pc = "intending",
                                   !.doubtful = Uncertain(receipt[s])]
        /\ answers'[s] = answers[s]
    BY <1>0, <1>2 DEF TypeOK, ReadReceipt
  <2>2. exec'[s].pc = "intending"
    BY <1>1, <2>1 DEF Exec, Entry
  <2> QED BY <1>0, <1>1, <2>1, <2>2, FileKept
<1>3. CASE v # Intent
  <2>1. v \in Outcomes
    BY <1>0, <1>1, <1>3, AdmissionType DEF TypeOK
  <2>2. exec'[s] = Idle
        /\ answers'[s] = answers[s] \cup {[fp |-> exec[s].fp, is |-> v]}
    BY <1>0, <1>3 DEF TypeOK, ReadReceipt, Answer
  <2>3. exec'[s].pc = "idle"
    BY <2>2 DEF Idle
  <2>4. CASE v.status # "completed"
    <3>1. Told(answers'[s]) = Told(answers[s])
      BY <2>2, <2>4, FailureTells
    <3> QED BY <1>0, <1>1, <2>3, <3>1, FileKept
  <2>5. CASE v.status = "completed"
    <3>1. receipt[s].body = v
      BY <1>0, <1>1, <2>5, AdmissionTells DEF TypeOK
    <3>2. PICK o \in Outputs : v = Success(o)
      <4>1. \A c \in Codes : Failure(c).status # "completed"
        BY OutcomeFacts DEF Codes
      <4> QED BY <2>1, <2>5, <4>1 DEF Outcomes
    <3>3. Told(answers'[s]) = Told(answers[s]) \cup {o}
      <4> DEFINE x == [fp |-> exec[s].fp, is |-> v]
      <4>1. x.is = Success(o)
        BY <3>2
      <4>2. Told(answers[s] \cup {x}) = Told(answers[s]) \cup {o}
        <5> HIDE DEF x
        <5> QED BY <4>1, SuccessTells
      <4> QED BY <2>2, <4>2
    <3>4. \A pc : pc # "saving" => Phase(pc, Success(o)) = "done"
      BY OutcomeFacts DEF Phase
    <3>5. Success(o).output = o
      BY DEF Success
    <3>6. EffectOf(s) = [phase |-> "done", starts |-> starts[s], doubt |-> doubt[s],
                         output |-> o, told |-> Told(answers[s])]
      BY <1>1, <3>1, <3>2, <3>4, <3>5 DEF EffectOf, EffectFrom, Past
    <3>7. EffectOf(s)' = [phase |-> "done", starts |-> starts[s], doubt |-> doubt[s],
                          output |-> o, told |-> Told(answers[s]) \cup {o}]
      BY <1>1, <2>3, <3>1, <3>2, <3>3, <3>4, <3>5 DEF EffectOf, EffectFrom, Past
    <3> QED BY <3>6, <3>7 DEF EffectMoves, MovesTo, Promise!Evolves, Promise!Tells
  <2> QED BY <2>4, <2>5
<1> QED BY <1>2, <1>3

(* Steps that leave the file, the history and what s was told alone.       *)
LEMMA ElsewhereMoves ==
  ASSUME TypeOK, NEW s \in Steps, Same(s)
  PROVE  EffectMoves(s)
BY FileKept DEF Same

LEMMA AbortMoves ==
  ASSUME TypeOK, NEW s \in Steps, FileOK(s),
         exec'[s] \in {exec[s], Aborted(exec[s])}, doubt'[s] = doubt[s],
         receipt'[s] = receipt[s], starts'[s] = starts[s], answers'[s] = answers[s]
  PROVE  EffectMoves(s)
<1>1. CASE exec[s].pc \in {"recovering", "running"}
  BY <1>1, CallEnds DEF FileOK, EntryMatchesFile
<1>2. CASE exec[s].pc = "idle"
  BY <1>2, FileKept DEF Aborted
<1>3. CASE exec[s].pc \in {"reading", "intending", "saving"}
  <2>1. exec[s] \in Exec
    BY <1>3, EntryType
  <2>2. exec'[s].pc = exec[s].pc
    BY <1>3, <2>1 DEF Aborted, Exec, Entry
  <2> QED BY <2>2, FileKept
<1>4. exec[s] = Idle \/ exec[s] \in Exec
  BY DEF TypeOK
<1> QED BY <1>1, <1>2, <1>3, <1>4, EntryFields DEF Idle

(* Every step moves every effect as TaskEffect allows.                     *)
LEMMA EveryEffectMoves ==
  ASSUME DispatcherInv, DispatcherInv', [Next]_vars, NEW t \in Steps
  PROVE  EffectMoves(t)
<1>0. TypeOK /\ TypeOK' /\ \A s \in Steps : FileOK(s) /\ HistoryMatchesFile(s)'
  BY DEF DispatcherInv, Consistent, FileOK
<1>1. ASSUME NEW s \in Steps, NEW fp \in Fingerprints, NEW a \in Attempts,
             Dispatch(s, fp, a)
      PROVE  EffectMoves(t)
  <2>1. /\ receipt'[t] = receipt[t] /\ starts'[t] = starts[t]
        /\ answers'[t] = answers[t] /\ doubt'[t] = doubt[t]
        /\ exec'[t].pc = "saving" <=> exec[t].pc = "saving"
    BY <1>0, <1>1 DEF TypeOK, Dispatch, Active
  <2> QED BY <1>0, <2>1, FileKept
<1>2. ASSUME NEW s \in Steps, ReadReceipt(s)
      PROVE  EffectMoves(t)
  <2>1. ASSUME t # s PROVE Same(t)
    <3>1. exec'[t] = exec[t] /\ answers'[t] = answers[t]
      BY <1>0, <1>2, <2>1 DEF TypeOK, ReadReceipt, Answer
    <3> QED BY <1>2, <3>1 DEF ReadReceipt, Same
  <2> QED BY <1>0, <1>2, <2>1, ReadMoves, ElsewhereMoves
<1>3. ASSUME NEW s \in Steps, ReadFails(s) \/ IntentFails(s)
                 \/ (OutcomeFails(s) /\ exec[s].verdict.status # "completed")
      PROVE  EffectMoves(t)
  <2>1. Answer(s, Failure("unknown")) /\ UNCHANGED <<starts, doubt, live>>
    BY <1>3 DEF ReadFails, IntentFails, OutcomeFails
  <2>2. CASE t = s
    <3>1. exec'[s] = Idle
          /\ answers'[s] = answers[s] \cup {[fp |-> exec[s].fp, is |-> Failure("unknown")]}
      BY <1>0, <2>1 DEF TypeOK, Answer
    <3>2. receipt'[s] \in OldOrNew(s)
      BY <1>0, <1>3 DEF TypeOK, ReadFails, IntentFails, OutcomeFails, OldOrNew, At
    <3>3. Told(answers'[s]) = Told(answers[s])
      BY <3>1, FailureTells DEF Failure
    <3> QED BY <1>0, <2>1, <2>2, <3>1, <3>2, <3>3, WriteMoves
  <2>3. CASE t # s
    <3>1. receipt'[t] = receipt[t]
      BY <1>0, <1>3, <2>3 DEF TypeOK, ReadFails, IntentFails, OutcomeFails
    <3> QED BY <1>0, <2>1, <2>3, <3>1, ElsewhereMoves DEF TypeOK, Answer, Same
  <2> QED BY <2>2, <2>3
<1>4. ASSUME NEW s \in Steps, IntentSaved(s)
      PROVE  EffectMoves(t)
  <2>1. CASE t = s
    BY <1>4, <2>1, IntentSavedMoves
  <2>2. CASE t # s
    <3>1. answers'[t] = answers[t] /\ receipt'[t] = receipt[t] /\ exec'[t] = exec[t]
      BY <1>0, <1>4, <2>2 DEF TypeOK, IntentSaved
    <3>2. starts'[t] = starts[t] \/ IntentSaved(t)
      BY StartMeans
    <3>3. doubt'[t] = doubt[t]
      BY <1>0, <1>4, <2>2 DEF TypeOK, IntentSaved
    <3> QED BY <1>0, <3>1, <3>2, <3>3, FileKept, IntentSavedMoves
  <2> QED BY <2>1, <2>2
<1>5. ASSUME NEW s \in Steps, NEW outcome \in Outcomes,
             HandlerSettles(s, outcome) \/ RecoverSettles(s, outcome)
      PROVE  EffectMoves(t)
  <2>1. UNCHANGED <<receipt, starts, answers>>
    BY <1>5 DEF HandlerSettles, RecoverSettles
  <2>2. /\ t # s => exec'[t] = exec[t] /\ doubt'[t] = doubt[t]
        /\ doubt'[s] \subseteq doubt[s]
    BY <1>0, <1>5 DEF TypeOK, HandlerSettles, RecoverSettles
  <2>3. receipt[s].body = Intent
    BY <1>0, <1>5 DEF HandlerSettles, RecoverSettles, At, FileOK, EntryMatchesFile
  <2> QED BY <1>0, <2>1, <2>2, <2>3, FileKept, CallEnds
<1>6. ASSUME NEW s \in Steps, NEW a \in Attempts, HandlerLate(s, a)
      PROVE  EffectMoves(t)
  BY <1>0, <1>6, FileKept DEF HandlerLate
<1>7. ASSUME NEW s \in Steps, OutcomeSaved(s)
      PROVE  EffectMoves(t)
  <2>1. t # s => Same(t)
    BY <1>0, <1>7 DEF TypeOK, OutcomeSaved, Answer, Same
  <2> QED BY <1>0, <1>7, <2>1, OutcomeSavedMoves, ElsewhereMoves
<1>8. ASSUME NEW s \in Steps, OutcomeFails(s), exec[s].verdict.status = "completed"
      PROVE  EffectMoves(t)
  <2>1. UNCHANGED <<answers, starts, doubt>> /\ exec[s] \in Exec /\ exec[s].pc = "saving"
    BY <1>0, <1>8, EntryType DEF OutcomeFails, At
  <2>2. CASE t = s
    <3>1. exec'[s] = [exec[s] EXCEPT !.verdict = Failure("unknown")]
      BY <1>0, <1>8 DEF TypeOK, OutcomeFails
    <3>2. exec'[s].pc = "saving"
      BY <2>1, <3>1 DEF Exec, Entry
    <3>3. /\ Phase(exec[s].pc, receipt[s].body) = "uncertain"
          /\ Phase(exec'[s].pc, receipt'[s].body) = "uncertain"
      BY <2>1, <3>2 DEF Phase
    <3> QED BY <2>1, <2>2, <3>3, Stutters DEF EffectMoves, EffectOf, Past
  <2>3. CASE t # s
    <3>1. receipt'[t] = receipt[t] /\ exec'[t] = exec[t]
      BY <1>0, <1>8, <2>3 DEF TypeOK, OutcomeFails
    <3> QED BY <1>0, <2>1, <3>1, FileKept
  <2> QED BY <2>2, <2>3
<1>9. ASSUME \/ \E s \in Steps : Timeout(s)
             \/ \E r \in Runs : Cancel(r)
             \/ Close
      PROVE  EffectMoves(t)
  <2>1. UNCHANGED <<receipt, starts, doubt, answers>>
    BY <1>9 DEF Timeout, Cancel, Close
  <2>2. exec'[t] \in {exec[t], Aborted(exec[t])}
    BY <1>0, <1>9 DEF TypeOK, Timeout, Cancel, Close
  <2> QED BY <1>0, <2>1, <2>2, AbortMoves
<1>10. CASE (\E r \in Runs : RefuseDispatch(r)) \/ Reopen \/ UNCHANGED vars
  <2>1. Same(t)
    BY <1>10 DEF RefuseDispatch, Reopen, vars, Same
  <2> QED BY <1>0, <2>1, ElsewhereMoves
<1>11. CASE Crash
  <2>1. exec'[t] = Idle /\ UNCHANGED <<starts, doubt, answers>> /\ receipt'[t] \in OldOrNew(t)
    BY <1>11 DEF Crash
  <2> QED BY <1>0, <2>1, WriteMoves
<1> QED BY <1>1, <1>2, <1>3, <1>4, <1>5, <1>6, <1>7, <1>8, <1>9, <1>10, <1>11
        DEF Next

LEMMA EffectType ==
  ASSUME TypeOK, NEW s \in Steps
  PROVE  EffectOf(s) \in Promise!Effect
<1>1. Phase(exec[s].pc, receipt[s].body) \in {"ready", "uncertain", "done", "refused"}
  BY BodyType, PhaseFacts DEF BodyOf
<1>2. exec[s].pc = "saving" => Phase(exec[s].pc, receipt[s].body) # "done"
  BY DEF Phase
<1>3. Phase(exec[s].pc, receipt[s].body) = "done" => receipt[s].body.output \in Outputs
  BY <1>2, BodyType, PhaseFacts DEF BodyOf, Success
<1>4. starts[s] \in [Attempts -> Nat] /\ Told(answers[s]) \subseteq Outputs
  BY DEF TypeOK, Told
<1>5. doubt[s] \subseteq Attempts
  BY DEF TypeOK
<1> QED BY <1>1, <1>3, <1>4, <1>5
        DEF EffectOf, EffectFrom, Past, Promise!Effect, Promise!Phases

(* The dispatcher keeps the promise of TaskEffect: every behaviour of it   *)
(* is one of the abstract effect under the map EffectOf.                   *)
THEOREM DispatcherKeepsPromise == Spec => ImplementsTaskEffect
<1>1. Init => Promise!Init
  <2> SUFFICES ASSUME Init PROVE \A s \in Steps : EffectOf(s) =
                 [phase |-> "ready", starts |-> [a \in Attempts |-> 0],
                  doubt |-> {}, output |-> NoOutput, told |-> {}]
    BY DEF Promise!Init
  <2> TAKE s \in Steps
  <2>1. /\ exec[s].pc = "idle" /\ receipt[s].body = NoReceipt
        /\ starts[s] = [a \in Attempts |-> 0] /\ doubt[s] = {} /\ answers[s] = {}
    BY DEF Init, Idle, Absent
  <2>2. Phase("idle", NoReceipt) = "ready"
    BY OutcomeFacts DEF Phase
  <2>3. Told({}) = {}
    BY DEF Told
  <2> QED BY <2>1, <2>2, <2>3 DEF EffectOf, EffectFrom, Past
<1>2. DispatcherInv => \A s \in Steps : EffectOf(s) \in Promise!Effect
  BY EffectType DEF DispatcherInv
<1>3. (DispatcherInv => \A s \in Steps : EffectOf(s) \in Promise!Effect)'
  BY <1>2, PTL
<1>4. DispatcherInv /\ DispatcherInv' /\ [Next]_vars
        => [Promise!Next]_([s \in Steps |-> EffectOf(s)])
  <2> SUFFICES ASSUME DispatcherInv, DispatcherInv', [Next]_vars
               PROVE  Promise!Next
    OBVIOUS
  <2>1. [s \in Steps |-> EffectOf(s)]' = [s \in Steps |-> EffectOf(s)']
    OBVIOUS
  <2>2. \A s \in Steps : EffectOf(s)' \in Promise!Effect
    BY <1>3
  <2>3. \A s \in Steps : Promise!Evolves(EffectOf(s), EffectOf(s)')
                            \/ EffectOf(s)' = EffectOf(s)
    BY EveryEffectMoves DEF EffectMoves, MovesTo
  <2> QED BY <2>1, <2>2, <2>3 DEF Promise!Next
<1> QED BY <1>1, <1>4, InvHolds, PTL DEF Spec, ImplementsTaskEffect, Promise!Spec
=============================================================================
