----------------------------- MODULE SecretFile -----------------------------
(***************************************************************************)
(* internal/secrets: the system calls of Writer.Write and Writer.Delete on *)
(* the env file of one project, with errors, the end of the process and    *)
(* power failures. The service's mutex per name admits one call at a time  *)
(* (Provision!MutualExclusion) and names have temporary files of their     *)
(* own. A file's content is the password in it.                            *)
(***************************************************************************)
CONSTANTS
    Passwords,
    NoPw,      \* no file
    Torn,      \* a file that is empty or ends in the middle
    Faults     \* which faults happen, a subset of FaultKinds

(* "io": a system call fails; "kill": the process ends; "power": the        *)
(* machine stops and loses what it had not written to the disk.            *)
FaultKinds == {"io", "kill", "power"}

ASSUME SecretFileAssumption ==
    /\ NoPw \notin Passwords
    /\ Torn \notin Passwords \cup {NoPw}
    /\ Faults \subseteq FaultKinds

VARIABLES
    file,      \* the project's env file as other processes see it
    durable,   \* what that file may be after a power failure
    op         \* the call of the Writer in progress

vars == <<file, durable, op>>

Whole    == Passwords \cup {NoPw}
Contents == Whole \cup {Torn}

Labels == {"idle", "create", "write", "chmod", "sync", "close", "rename",
           "syncdir", "remove", "unlink", "done"}

TypeOK ==
    /\ file \in Contents
    /\ durable \subseteq Contents
    /\ op \in [at     : Labels,
               pw     : Whole,      \* what the file is to become
               temp   : Contents,   \* the temporary file
               synced : BOOLEAN,    \* tmp.Sync has returned
               missed : BOOLEAN,    \* history: a best-effort step has failed
               ok     : BOOLEAN]    \* the call answers success

Idle == [at |-> "idle", pw |-> NoPw, temp |-> NoPw,
         synced |-> FALSE, missed |-> FALSE, ok |-> FALSE]

Init == file = NoPw /\ durable = {NoPw} /\ op = Idle

At(l) == op.at = l

\* The step of the call that changes nothing but op.
Becomes(o) == op' = o /\ UNCHANGED <<file, durable>>

Fails(o) == "io" \in Faults /\ Becomes(o)

----------------------------------------------------------------------------
(* Writer.Write                                                            *)

Write == At("idle") /\ \E w \in Passwords : Becomes([Idle EXCEPT !.at = "create", !.pw = w])

\* Nothing is to be removed if the file could not be created.
CreateTemp ==
    /\ At("create")
    /\ \/ Becomes([op EXCEPT !.at = "write", !.temp = Torn])
       \/ Fails([op EXCEPT !.at = "done"])

\* Variant: the error returns past the clean-up.
WriteTempKept ==
    /\ At("write")
    /\ \/ Becomes([op EXCEPT !.at = "chmod", !.temp = op.pw])
       \/ Fails([op EXCEPT !.at = "done"])

WriteTemp ==
    /\ At("write")
    /\ \/ Becomes([op EXCEPT !.at = "chmod", !.temp = op.pw])
       \/ Fails([op EXCEPT !.at = "remove"])

Chmod ==
    /\ At("chmod")
    /\ \/ Becomes([op EXCEPT !.at = "sync"])
       \/ Fails([op EXCEPT !.at = "remove"])

\* Variant: the file is left to the page cache.
SyncSkipped == At("sync") /\ Becomes([op EXCEPT !.at = "close"])

Sync ==
    /\ At("sync")
    /\ \/ Becomes([op EXCEPT !.at = "close", !.synced = TRUE])
       \/ Fails([op EXCEPT !.at = "remove"])

Close ==
    /\ At("close")
    /\ \/ Becomes([op EXCEPT !.at = "rename"])
       \/ Fails([op EXCEPT !.at = "remove"])

\* Variant: an error of Rename is reported as success.
RenameUnchecked ==
    /\ At("rename")
    /\ \/ /\ file' = op.temp
          /\ durable' = durable \cup {op.temp} \cup (IF op.synced THEN {} ELSE {Torn})
          /\ op' = [op EXCEPT !.at = "syncdir", !.temp = NoPw, !.ok = TRUE]
       \/ Fails([op EXCEPT !.at = "syncdir", !.ok = TRUE])

(* The new file takes the name at once for everybody who opens it. On the   *)
(* disk the old one may stay for a while, and a file whose data were not    *)
(* synced may come before its data.                                         *)
Rename ==
    /\ At("rename")
    /\ \/ /\ file' = op.temp
          /\ durable' = durable \cup {op.temp} \cup (IF op.synced THEN {} ELSE {Torn})
          /\ op' = [op EXCEPT !.at = "syncdir", !.temp = NoPw, !.ok = TRUE]
       \/ Fails([op EXCEPT !.at = "remove"])

\* Variant: the open file is synced, not the directory.
SyncDirNot == At("syncdir") /\ Becomes([op EXCEPT !.at = "remove"])

\* Best effort: an error of Open or Sync on the directory is ignored.
SyncDir ==
    /\ At("syncdir")
    /\ \/ durable' = {file} /\ op' = [op EXCEPT !.at = "remove"] /\ UNCHANGED file
       \/ Fails([op EXCEPT !.at = "remove", !.missed = TRUE])

\* The deferred os.Remove, of a name that a rename has taken away already.
RemoveTemp ==
    /\ At("remove")
    /\ \/ Becomes([op EXCEPT !.at = "done", !.temp = NoPw])
       \/ op.temp # NoPw /\ Fails([op EXCEPT !.at = "done", !.missed = TRUE])

----------------------------------------------------------------------------
(* Writer.Delete, and the end of a call                                    *)

Delete == At("idle") /\ Becomes([Idle EXCEPT !.at = "unlink"])

\* A missing file is no error. The directory is not synced.
Unlink ==
    /\ At("unlink")
    /\ \/ /\ file' = NoPw
          /\ durable' = durable \cup {NoPw}
          /\ op' = [op EXCEPT !.at = "done", !.ok = TRUE]
       \/ Fails([op EXCEPT !.at = "done"])

Return == At("done") /\ Becomes(Idle)

Kill == "kill" \in Faults /\ ~At("idle") /\ Becomes(Idle)

PowerFailure ==
    /\ "power" \in Faults
    /\ file' \in durable
    /\ durable' = {file'}
    /\ op' = Idle

Next ==
    \/ Write \/ CreateTemp \/ WriteTemp \/ Chmod \/ Sync \/ Close \/ Rename
    \/ SyncDir \/ RemoveTemp
    \/ Delete \/ Unlink \/ Return \/ Kill \/ PowerFailure

Spec == Init /\ [][Next]_vars

----------------------------------------------------------------------------
(* Properties                                                              *)

(* An application never reads half a file, at whatever step the write      *)
(* before it was interrupted, power failures included (secrets.go:47-49).  *)
NeverTorn == file # Torn /\ Torn \notin durable

(* Each of the error returns of Write removes the temporary file, which    *)
(* holds the password, if the removal itself succeeds (secrets.go:69-71).  *)
TempIsGone == At("done") /\ ~op.missed => op.temp = NoPw

(* A power failure can take an acknowledged change back only if it was a   *)
(* Delete or the sync of the directory failed, which Write ignores:        *)
(* otherwise the disk has the new file and no other when Write answers     *)
(* success (secrets.go:92-97).                                             *)
WrittenIsDurable ==
    At("done") /\ op.ok /\ op.pw # NoPw /\ ~op.missed => durable = {op.pw}

BeforeRename == {"create", "write", "chmod", "sync", "close", "rename"}

\* How far the call is as the service sees it.
Phase == IF At("idle") THEN "none"
         ELSE IF op.ok THEN "ok"
         ELSE IF At("unlink") THEN "delete"
         ELSE IF op.at \in BeforeRename THEN "write" ELSE "failed"

Abstract == INSTANCE AtomicFile
              WITH disk <- durable, call <- [op |-> Phase, pw |-> op.pw]

(* Write and Delete are the atomic file operations that the service takes  *)
(* them for, success if and only if the file was replaced; and a power     *)
(* failure brings back a whole file that was there, if it changes any.     *)
ImplementsAtomicFile == Abstract!Spec

----------------------------------------------------------------------------
(* The inductive invariant                                                 *)

StepInv ==
    /\ At("idle") => op = Idle
    /\ At("create") \/ At("syncdir") => op.temp = NoPw
    /\ op.at \in {"chmod", "sync", "close", "rename"} => op.temp = op.pw
    /\ op.at \in {"close", "rename"} => op.synced
    /\ op.at \in BeforeRename \cup {"unlink"} => ~op.ok
    /\ At("syncdir") => op.ok
    /\ At("unlink") => op.pw = NoPw /\ op.temp = NoPw
    /\ At("syncdir") => file = op.pw
    /\ At("remove") /\ op.ok /\ ~op.missed => durable = {op.pw}

(* What each system call relies on: the file that Rename moves is complete *)
(* and synced, and a call has succeeded from the Rename on and not before. *)
IInv == TypeOK /\ StepInv /\ NeverTorn /\ TempIsGone /\ WrittenIsDurable
=============================================================================
