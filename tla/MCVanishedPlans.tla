-------------------------- MODULE MCVanishedPlans --------------------------
(* One plan, so that its pushes, restores and checks meet; and which changes, *)
(* faults, taps and reloads meet in one behaviour.                            *)
EXTENDS VanishedPlans

Together(c, f, t, r) == [changes |-> c, faults |-> f, taps |-> t, reloads |-> r]
Meetings == {Together(1, 1, 2, 1), Together(2, 1, 1, 0), Together(2, 0, 2, 0)}

=============================================================================
