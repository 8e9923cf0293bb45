-------------------------- MODULE MCGradingBypass --------------------------
(* TLC instance of GradingBypass: what the requests for a bypass supply.   *)
EXTENDS GradingBypass

CONSTANTS s1, o1, o2

\* One default for everybody, and an outcome for each student by name with a
\* next grade that may not be above.
MCPayload ==
  [o \in {o1, o2} |->
     IF o = o1 THEN [outcomes |-> <<>>, default |-> "promoted", wanted |-> <<>>]
     ELSE [outcomes |-> [s \in {s1} |-> "promoted"], default |-> None,
           wanted |-> [s \in {s1} |-> 3]]]

\* A user graduates a student by hand, or opens the year again.
MCEdits ==
  {[status |-> "completed", outcome |-> "graduated"],
   [status |-> "enrolled", outcome |-> None]}
=============================================================================
