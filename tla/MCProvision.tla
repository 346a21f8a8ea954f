---------------------------- MODULE MCProvision ----------------------------
(* Instances of Provision for TLC.                                         *)
EXTENDS ProvisionInvariant, TLC

CONSTANTS a, b, i1, i2, p1, p2, p3, w1, w2, w3

OneName  == {a}
TwoNames == {a, b}
OneId    == {i1}
TwoIds   == {i1, i2}
TwoProcs   == {p1, p2}
ThreeProcs == {p1, p2, p3}
TwoPasswords   == {w1, w2}
ThreePasswords == {w1, w2, w3}

\* Every name has an identifier of its own / "a-b" and "a_b" share one.
Separate == [n \in Names |-> IF n = a THEN i1 ELSE i2]
Shared   == [n \in Names |-> i1]

AllFaults == FaultKinds
NoFaults  == {}
ServerFaults == {"mysql", "file"}
CrashFault == {"crash"}

Symmetry == Permutations(Procs) \cup Permutations(Passwords)

\* Two names with identifiers of their own are exchanged together.
Exchange == (a :> b) @@ (b :> a) @@ (i1 :> i2) @@ (i2 :> i1)
SymmetryOfNames == Symmetry \cup {Exchange}
============================================================================
