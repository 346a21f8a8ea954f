------------------------------ MODULE MCAccess ------------------------------
(* Instances of Access for TLC.                                            *)
EXTENDS Access, TLC

CONSTANTS t1, p1, p2, c1, c2

OneToken   == {t1}
TwoClients == {p1, p2}
TwoAdmins  == {c1, c2}

Symmetry == Permutations(Clients) \cup Permutations(Admins)
=============================================================================
