---------------------------- MODULE MCSecretFile ----------------------------
(* Instances of SecretFile and RandomPassword for TLC: the file of one      *)
(* project, and the password that goes into it.                             *)
EXTENDS SecretFile, RandomPassword

CONSTANTS w1, w2, w3

ThreePasswords == {w1, w2, w3}

AllFaults == FaultKinds

\* Two bytes more than there are slots: they collide with and without the modulo.
TenBytes == 0 .. 9

----------------------------------------------------------------------------
\* They share no state: either moves while the other is at its beginning, the file
\* with one draw of the bytes out of all.
Drawn == i = 1 /\ idx = [k \in 1 .. 4 |-> k]

BothInit == Init /\ PasswordInit
BothNext == \/ Drawn /\ Next /\ UNCHANGED passwordVars
            \/ Init /\ PasswordNext /\ UNCHANGED vars
BothSpec == BothInit /\ [][BothNext]_<<vars, passwordVars>>
=============================================================================
