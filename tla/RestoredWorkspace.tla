------------------------- MODULE RestoredWorkspace -------------------------
(***************************************************************************)
(* What a restore promises to the people of one workspace, without schemas,*)
(* workers or recoveries: there is one copy of the data, which they see or *)
(* do not see, and which changes in a single step, while nobody sees it,   *)
(* to the archive of an approved request.  TenantRestore implements this.  *)
(***************************************************************************)
CONSTANT Archives   \* one for each restore request

VARIABLES
  data,      \* whose data the workspace holds
  seen,      \* the data its users are let in to, or "nothing"
  approved   \* archives whose restore was approved

Init ==
  /\ data = "original"
  /\ seen = data
  /\ approved = {}

Approve ==
  /\ \E a \in Archives : approved' = approved \cup {a}
  /\ UNCHANGED <<data, seen>>

Close ==
  /\ seen' = "nothing"
  /\ UNCHANGED <<data, approved>>

Open ==
  /\ seen' = data
  /\ UNCHANGED <<data, approved>>

Replace ==
  /\ seen = "nothing"
  /\ data' \in approved
  /\ UNCHANGED <<seen, approved>>

Next == Approve \/ Close \/ Open \/ Replace

Spec == Init /\ [][Next]_<<data, seen, approved>>
=============================================================================
