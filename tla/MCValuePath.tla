---------------------------- MODULE MCValuePath ----------------------------
(* The instance TLC checks; its .cfg gives the bounds.                         *)
EXTENDS ValuePath

\* Sources do not meet each other, so one at a time changes: with one poll at a time and a
\* failure, or with two that may overlap.
OneSource == {{s} : s \in Sources}
PollsAlone == [sources : OneSource, polls : {{Scheduled}}, changes : {2}, faults : {1}]
PollsOverlap == [sources : OneSource, polls : {Polls}, changes : {2}, faults : {0}]
PollCases == PollsAlone \union PollsOverlap

=============================================================================
