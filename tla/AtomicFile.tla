----------------------------- MODULE AtomicFile -----------------------------
(***************************************************************************)
(* What the service expects of the file with a project's credentials: a    *)
(* Write or a Delete replaces the whole file at one moment between its     *)
(* call and its answer if it answers success, and never if it answers an   *)
(* error. A call that is cut off by the end of the process may have had    *)
(* its effect or not. These are the outcomes of Provision!FileCall. After  *)
(* a power failure the file is as some change has left it that the disk    *)
(* had not followed by another one.                                        *)
(***************************************************************************)
CONSTANTS Passwords, NoPw

VARIABLES
    file,   \* the password in the file, NoPw if there is no file
    disk,   \* what the file may be after a power failure
    call    \* the call in progress and its answer

vars == <<file, disk, call>>

NoCall == [op |-> "none", pw |-> NoPw]

Init == file = NoPw /\ disk = {NoPw} /\ call = NoCall

Write ==
    /\ call.op = "none"
    /\ \E w \in Passwords : call' = [op |-> "write", pw |-> w]
    /\ UNCHANGED <<file, disk>>

Delete ==
    /\ call.op = "none"
    /\ call' = [op |-> "delete", pw |-> NoPw]
    /\ UNCHANGED <<file, disk>>

Succeed ==
    /\ call.op \in {"write", "delete"}
    /\ file' = call.pw
    /\ disk' = disk \cup {call.pw}
    /\ call' = [call EXCEPT !.op = "ok"]

Fail ==
    /\ call.op \in {"write", "delete"}
    /\ call' = [call EXCEPT !.op = "failed"]
    /\ UNCHANGED <<file, disk>>

End ==
    /\ call.op # "none"
    /\ call' = NoCall
    /\ UNCHANGED <<file, disk>>

\* The disk has followed a write, before its answer.
Settle ==
    /\ call.op = "ok"
    /\ disk' = {file}
    /\ UNCHANGED <<file, call>>

PowerFailure ==
    /\ file' \in disk
    /\ disk' = {file'}
    /\ call' = NoCall

Next == Write \/ Delete \/ Succeed \/ Fail \/ End \/ Settle \/ PowerFailure

Spec == Init /\ [][Next]_vars
=============================================================================
