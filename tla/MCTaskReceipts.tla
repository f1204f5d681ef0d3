---------------------------- MODULE MCTaskReceipts ----------------------------
(* Model values of the dispatcher: one step in depth, or two of one run.   *)
EXTENDS TaskReceipts

CONSTANTS s1, s2, r1, plain, careful

MCRunOf == [s \in Steps |-> r1]
(* The limits of the fingerprints: maxAttempts is part of a fingerprint.   *)
MCLimit == [fp \in Fingerprints |-> MaxTaskAttempts]
=============================================================================
