--------------------------- MODULE MCPlanWatchdog ---------------------------
(* The instance TLC checks; its .cfg gives the bounds.                         *)
EXTENDS PlanWatchdog

WatchedPlans == Ids \X Names
Disturbances == {{"stops", "user"}, {"stops", "error"}, {"stops", "edit"}, {"stops", "switch"},
                 {"outage"}, {"reuse"}}
\* One plan among disturbances, and two that are only started after each other.
Cases == [may : Disturbances, ids : {{1}}] \union [may : {{}}, ids : {{1, 2}}]

=============================================================================
