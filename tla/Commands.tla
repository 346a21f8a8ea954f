------------------------------ MODULE Commands ------------------------------
(***************************************************************************)
(* Both binaries that are run by hand: dbi, a client of the server, and    *)
(* the server's own, which is another process on another line each time.   *)
(* They share no state; either moves while the other has not begun.        *)
(***************************************************************************)
EXTENDS Dbi

CONSTANT Launches
VARIABLE main

M == INSTANCE Main

ASSUME MainAssumption == M!MainAssumption

BothInit == Init /\ M!Init
BothNext == \/ main = M!NoProcess /\ Next /\ UNCHANGED main
            \/ <<project, call, late, line>> = <<[n \in Names |-> "none"], NoCall, {}, << >>>>
               /\ M!Next /\ UNCHANGED vars
BothSpec == BothInit /\ [][BothNext]_<<vars, main>>

----------------------------------------------------------------------------
(* Properties                                                              *)

\* What a server that serves is configured with (config.go:98, main.go:329).
ServesAsConfigured == M!ServesAsConfigured

\* The commands and the server agree on the store (main.go:69, 106).
OneStoreForAll == M!OneStoreForAll
=============================================================================
