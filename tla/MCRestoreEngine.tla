--------------------------- MODULE MCRestoreEngine ---------------------------
(* Backups and live plans for the checks of RestoreEngine: two gates of one     *)
(* type told apart by their place, a scene and a Quantum module, a comment.     *)
EXTENDS RestoreEngine

Element(kind, ref, at) ==
    [kind |-> kind, ref |-> ref, at |-> at, set |-> NoSettings, conf |-> "default", rules |-> "default"]
Wire(a, b) == [from |-> a, to |-> {b}]
Timed(e, v) == [e EXCEPT !.set = "time" :> v]
With(e, conf, rules) == [e EXCEPT !.conf = conf, !.rules = rules]

GateA == Element("block", "gate", "a")
GateB == Element("block", "gate", "b")
Scene == Element("scene", "scene", "a")
Quantum == Element("quantum", "module", "b")
Comment == Element("comment", "comment", "c")

Snap(els, paper) == [els |-> els, wires |-> {Wire(1, 2)}, paper |-> paper,
                     setsIn |-> TRUE, confsIn |-> TRUE, fits |-> TRUE]
Gates == Snap(<<Timed(GateA, 1), GateB>>, "A4")
Modules2 == Snap(<<With(Scene, "mine", "default"), With(Quantum, "mine", "default")>>, "none")
MCBackups ==
    <<Gates, Modules2,
     Snap(<<GateA, Timed(GateB, 1), Comment>>, "odd"),
     Snap(<<Scene, With(Quantum, "default", "own")>>, "A3"),
     [Modules2 EXCEPT !.confsIn = FALSE], [Gates EXCEPT !.setsIn = FALSE], [Gates EXCEPT !.fits = FALSE]>>

Live(name, els, wires, paper, running) ==
    [name |-> name, els |-> els, wires |-> wires, paper |-> paper, running |-> running]
MCLivePlans ==
    {Live(Own, <<Timed(GateA, 2), Timed(GateB, 2)>>, {Wire(1, 2)}, "A4", TRUE),
     Live(Own, <<GateB, Timed(GateA, 1)>>, {Wire(2, 1)}, "A4", FALSE),
     Live(Own, <<With(Scene, "other", "default"), With(Quantum, "other", "own")>>, {}, "A3", TRUE),
     Live(Own, <<[Scene EXCEPT !.at = "c"]>>, {}, "none", TRUE),
     Live("other", 3 :> GateA @@ 4 :> GateB, {Wire(4, 3)}, "A4", FALSE),
     Live("other", 3 :> Comment, {}, "none", TRUE)}
=============================================================================
