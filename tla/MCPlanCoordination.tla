------------------------ MODULE MCPlanCoordination ------------------------
(* The instances TLC checks; each .cfg chooses the calls that meet. *)
EXTENDS PlanCoordination, FiniteSets, TLC

\* Calls of one kind are interchangeable (used by the safety runs only).
CallSymmetry ==
    Permutations(Syncs) \union Permutations(Restores)
    \union Permutations(Reloads) \union Permutations(HAReloads)
    \union Permutations(Edits)

\* A bound: every four of the instance's calls meet.
AtMostFourCalls == Cardinality({t \in Calls : pc[t] # "idle"}) <= 4

=============================================================================
