--------------------------- MODULE MCDesktopSessions ---------------------------
(* Two conversations or one, two sessions for the first, three callers.        *)
EXTENDS DesktopSessions, TLC

CONSTANTS one, two, c1, c2, c3, s1, s2, s3

\* The third caller is after the other conversation.
Mixed == c1 :> one @@ c2 :> one @@ c3 :> two
Same == [c \in Callers |-> one]
Homes == [s \in Sessions |-> IF s = s3 THEN two ELSE one]

================================================================================
