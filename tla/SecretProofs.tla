---------------------------- MODULE SecretProofs ----------------------------
(***************************************************************************)
(* The properties of SecretFile, for every set of passwords and faults,    *)
(* and of RandomPassword, for every length that the function accepts and   *)
(* whatever the random bytes are.                                          *)
(***************************************************************************)
EXTENDS SecretFile, RandomPassword, TLAPS

USE SecretFileAssumption

(* A new Writer holds no file (secrets.New creates the directory only).    *)
LEMMA InvInit == Init => IInv
  BY DEF Init, IInv, TypeOK, StepInv, NeverTorn, TempIsGone, WrittenIsDurable, Idle, At, Whole,
         Contents, Labels, BeforeRename

(* Every system call of Write and Delete, every fault and every return     *)
(* keeps the invariant.                                                    *)
LEMMA InvStep == IInv /\ [Next]_vars => IInv'
  <1> SUFFICES ASSUME IInv, [Next]_vars PROVE IInv'
    OBVIOUS
  <1> USE DEF IInv, TypeOK, StepInv, NeverTorn, TempIsGone, WrittenIsDurable, Idle, At, Whole,
              Contents, Labels, BeforeRename, Becomes, Fails
  <1>1. CASE Write
    BY <1>1 DEF Write
  <1>2. CASE CreateTemp
    BY <1>2 DEF CreateTemp
  <1>3. CASE WriteTemp
    <2>1. CASE Becomes([op EXCEPT !.at = "chmod", !.temp = op.pw])
      BY <1>3, <2>1 DEF WriteTemp
    <2>2. CASE Fails([op EXCEPT !.at = "remove"])
      BY <1>3, <2>2 DEF WriteTemp
    <2> QED
      BY <1>3, <2>1, <2>2 DEF WriteTemp
  <1>4. CASE Chmod
    BY <1>4 DEF Chmod
  <1>5. CASE Sync
    BY <1>5 DEF Sync
  <1>6. CASE Close
    BY <1>6 DEF Close
  <1>7. CASE Rename
    <2>1. /\ op.temp = op.pw /\ op.synced /\ op.pw \in Whole
          /\ op.at = "rename" /\ ~op.ok
      BY <1>7 DEF Rename
    <2>2. CASE /\ file' = op.temp
               /\ durable' = durable \cup {op.temp} \cup (IF op.synced THEN {} ELSE {Torn})
               /\ op' = [op EXCEPT !.at = "syncdir", !.temp = NoPw, !.ok = TRUE]
      <3>1. file' = op.pw /\ durable' = durable \cup {op.pw}
        BY <2>1, <2>2
      <3> QED
        BY <2>1, <2>2, <3>1
    <2>3. CASE Fails([op EXCEPT !.at = "remove"])
      BY <2>1, <2>3
    <2> QED
      BY <1>7, <2>2, <2>3 DEF Rename
  <1>8. CASE SyncDir
    <2>1. /\ op.at = "syncdir" /\ op.ok /\ op.temp = NoPw /\ op.pw \in Whole
          /\ file = op.pw
      BY <1>8 DEF SyncDir
    <2>2. CASE durable' = {file} /\ op' = [op EXCEPT !.at = "remove"] /\ UNCHANGED file
      BY <2>1, <2>2
    <2>3. CASE Fails([op EXCEPT !.at = "remove", !.missed = TRUE])
      BY <2>1, <2>3
    <2> QED
      BY <1>8, <2>2, <2>3 DEF SyncDir
  <1>9. CASE RemoveTemp
    <2>1. /\ UNCHANGED <<file, durable>>
          /\ op' = [op EXCEPT !.at = "done", !.temp = op'.temp, !.missed = op'.missed]
          /\ \/ op'.temp = NoPw /\ op'.missed = op.missed
             \/ op'.temp = op.temp /\ op'.missed
      BY <1>9 DEF RemoveTemp
    <2> QED
      BY <1>9, <2>1 DEF RemoveTemp
  <1>10. CASE Delete
    BY <1>10 DEF Delete
  <1>11. CASE Unlink
    <2>1. CASE /\ file' = NoPw /\ durable' = durable \cup {NoPw}
               /\ op' = [op EXCEPT !.at = "done", !.ok = TRUE]
      BY <1>11, <2>1 DEF Unlink
    <2>2. CASE Fails([op EXCEPT !.at = "done"])
      BY <1>11, <2>2 DEF Unlink
    <2> QED
      BY <1>11, <2>1, <2>2 DEF Unlink
  <1>12. CASE Return
    BY <1>12 DEF Return
  <1>13. CASE Kill
    BY <1>13 DEF Kill
  <1>14. CASE PowerFailure
    BY <1>14 DEF PowerFailure
  <1>15. CASE UNCHANGED vars
    BY <1>15 DEF vars
  <1> QED
    BY <1>1, <1>2, <1>3, <1>4, <1>5, <1>6, <1>7, <1>8, <1>9, <1>10, <1>11,
       <1>12, <1>13, <1>14, <1>15 DEF Next

(* The steps of Write rely on each other as IInv says, whatever fails.     *)
THEOREM FileInvariant == Spec => []IInv
  BY InvInit, InvStep, PTL DEF Spec

(* The env file is never half-written, not even after a power failure      *)
(* (secrets.go:47-49).                                                     *)
THEOREM FileNeverTorn == Spec => []NeverTorn
  <1>1. IInv => NeverTorn
    BY DEF IInv
  <1> QED
    BY <1>1, FileInvariant, PTL

(* Every return of Write has removed the temporary file, unless the        *)
(* removal itself failed (secrets.go:69-71).                               *)
THEOREM TempFileGone == Spec => []TempIsGone
  <1>1. IInv => TempIsGone
    BY DEF IInv
  <1> QED
    BY <1>1, FileInvariant, PTL

(* What Write has acknowledged survives a power failure, unless the sync   *)
(* of the directory failed, which it ignores (secrets.go:92-97).           *)
THEOREM WrittenDurable == Spec => []WrittenIsDurable
  <1>1. IInv => WrittenIsDurable
    BY DEF IInv
  <1> QED
    BY <1>1, FileInvariant, PTL

----------------------------------------------------------------------------
(* Refinement                                                              *)

(* Every system call is a stutter of the abstract file, except for the     *)
(* Rename, the sync of the directory, the Unlink and the first error.      *)
LEMMA StepImplements ==
    ASSUME IInv, [Next]_vars
    PROVE  [Abstract!Next]_Abstract!vars
  <1> USE DEF Abstract!vars, Abstract!Next, Abstract!NoCall, At, Becomes, Fails
  <1>1. CASE Write
    <2>1. /\ Phase = "none" /\ op.pw = NoPw /\ Phase' = "write"
          /\ op'.pw \in Passwords /\ file' = file /\ durable' = durable
      BY <1>1 DEF Write, Phase, Idle, BeforeRename, IInv, TypeOK, StepInv
    <2> QED
      BY <2>1 DEF Abstract!Write
  <1>2. CASE CreateTemp
    <2>1. \/ Phase' = Phase /\ op'.pw = op.pw /\ file' = file /\ durable' = durable
          \/ Phase = "write" /\ Phase' = "failed" /\ op'.pw = op.pw /\ file' = file /\ durable' = durable
      BY <1>2 DEF CreateTemp, Phase, Idle, BeforeRename, IInv, TypeOK, StepInv
    <2> QED
      BY <2>1 DEF Abstract!Fail
  <1>3. CASE WriteTemp
    <2>1. \/ Phase' = Phase /\ op'.pw = op.pw /\ file' = file /\ durable' = durable
          \/ Phase = "write" /\ Phase' = "failed" /\ op'.pw = op.pw /\ file' = file /\ durable' = durable
      BY <1>3 DEF WriteTemp, Phase, Idle, BeforeRename, IInv, TypeOK, StepInv
    <2> QED
      BY <2>1 DEF Abstract!Fail
  <1>4. CASE Chmod
    <2>1. \/ Phase' = Phase /\ op'.pw = op.pw /\ file' = file /\ durable' = durable
          \/ Phase = "write" /\ Phase' = "failed" /\ op'.pw = op.pw /\ file' = file /\ durable' = durable
      BY <1>4 DEF Chmod, Phase, Idle, BeforeRename, IInv, TypeOK, StepInv
    <2> QED
      BY <2>1 DEF Abstract!Fail
  <1>5. CASE Sync
    <2>1. \/ Phase' = Phase /\ op'.pw = op.pw /\ file' = file /\ durable' = durable
          \/ Phase = "write" /\ Phase' = "failed" /\ op'.pw = op.pw /\ file' = file /\ durable' = durable
      BY <1>5 DEF Sync, Phase, Idle, BeforeRename, IInv, TypeOK, StepInv
    <2> QED
      BY <2>1 DEF Abstract!Fail
  <1>6. CASE Close
    <2>1. \/ Phase' = Phase /\ op'.pw = op.pw /\ file' = file /\ durable' = durable
          \/ Phase = "write" /\ Phase' = "failed" /\ op'.pw = op.pw /\ file' = file /\ durable' = durable
      BY <1>6 DEF Close, Phase, Idle, BeforeRename, IInv, TypeOK, StepInv
    <2> QED
      BY <2>1 DEF Abstract!Fail
  <1>7. CASE Rename
    <2>1. /\ Phase = "write" /\ op'.pw = op.pw
          /\ \/ Phase' = "ok" /\ file' = op.pw /\ durable' = durable \cup {op.pw}
             \/ Phase' = "failed" /\ file' = file /\ durable' = durable
      BY <1>7 DEF Rename, Phase, Idle, BeforeRename, IInv, TypeOK, StepInv
    <2> QED
      BY <2>1 DEF Abstract!Succeed, Abstract!Fail
  <1>8. CASE SyncDir
    <2>1. /\ Phase = "ok" /\ Phase' = "ok" /\ op'.pw = op.pw /\ file' = file
          /\ durable' = {file} \/ durable' = durable
      BY <1>8 DEF SyncDir, Phase, Idle, BeforeRename, IInv, TypeOK, StepInv
    <2> QED
      BY <2>1 DEF Abstract!Settle
  <1>9. CASE RemoveTemp
    <2>1. Phase' = Phase /\ op'.pw = op.pw /\ file' = file /\ durable' = durable
      BY <1>9 DEF RemoveTemp, Phase, Idle, BeforeRename, IInv, TypeOK, StepInv
    <2> QED
      BY <2>1
  <1>10. CASE Delete
    <2>1. /\ Phase = "none" /\ op.pw = NoPw /\ Phase' = "delete"
          /\ op'.pw = NoPw /\ file' = file /\ durable' = durable
      BY <1>10 DEF Delete, Phase, Idle, BeforeRename, IInv, TypeOK, StepInv
    <2> QED
      BY <2>1 DEF Abstract!Delete
  <1>11. CASE Unlink
    <2>1. /\ Phase = "delete" /\ op'.pw = op.pw
          /\ \/ Phase' = "ok" /\ file' = op.pw /\ durable' = durable \cup {op.pw}
             \/ Phase' = "failed" /\ file' = file /\ durable' = durable
      BY <1>11 DEF Unlink, Phase, Idle, BeforeRename, IInv, TypeOK, StepInv
    <2> QED
      BY <2>1 DEF Abstract!Succeed, Abstract!Fail
  <1>12. CASE Return
    <2>1. /\ Phase # "none" /\ Phase' = "none"
          /\ op'.pw = NoPw /\ file' = file /\ durable' = durable
      BY <1>12 DEF Return, Phase, Idle, BeforeRename, IInv, TypeOK, StepInv
    <2> QED
      BY <2>1 DEF Abstract!End
  <1>13. CASE Kill
    <2>1. /\ Phase # "none" /\ Phase' = "none"
          /\ op'.pw = NoPw /\ file' = file /\ durable' = durable
      BY <1>13 DEF Kill, Phase, Idle, BeforeRename, IInv, TypeOK, StepInv
    <2> QED
      BY <2>1 DEF Abstract!End
  <1>14. CASE PowerFailure
    <2>1. /\ file' \in durable /\ durable' = {file'}
          /\ Phase' = "none" /\ op'.pw = NoPw
      BY <1>14 DEF PowerFailure, Phase, Idle
    <2> QED
      BY <2>1 DEF Abstract!PowerFailure
  <1>15. CASE UNCHANGED vars
    BY <1>15 DEF vars, Phase
  <1> QED
    BY <1>1, <1>2, <1>3, <1>4, <1>5, <1>6, <1>7, <1>8, <1>9, <1>10, <1>11,
       <1>12, <1>13, <1>14, <1>15 DEF Next

(* Write and Delete are the atomic operations that the service uses, under *)
(* every fault (Provision!FileCall).                                       *)
THEOREM FileImplemented == Spec => ImplementsAtomicFile
  <1>1. Init => Abstract!Init
    BY DEF Init, Idle, At, Phase, Abstract!Init, Abstract!NoCall
  <1>2. IInv /\ [Next]_vars => [Abstract!Next]_Abstract!vars
    BY StepImplements
  <1> QED
    BY <1>1, <1>2, FileInvariant, PTL DEF Spec, ImplementsAtomicFile, Abstract!Spec
----------------------------------------------------------------------------
(* RandomPassword has a character of each class.                           *)

USE PasswordAssumption

(* The four positions start as slots (secret.go:61).                       *)
LEMMA PasswordStart == PasswordInit => PasswordInv
  <1> SUFFICES ASSUME PasswordInit PROVE PasswordInv
    OBVIOUS
  <1>1. \A b \in Nat : b % N \in Slots
    BY DEF Slots
  <1>2. pos \in [1 .. 4 -> Slots]
    BY <1>1 DEF PasswordInit
  <1>3. /\ idx \in [1 .. 4 -> Bytes] /\ i = 1 /\ seen = {}
        /\ pw \in [Slots -> {"any", "lower", "upper", "digit", "special"}]
    BY DEF PasswordInit
  <1> QED
    BY <1>2, <1>3 DEF PasswordInv, PasswordTypeOK, PassedAreDistinct

(* As the loop has passed at most three positions, one of the first four   *)
(* slots is free, and the search finds the least free one.                 *)
LEMMA LeastIsFree ==
    ASSUME PasswordInv, i <= 4
    PROVE  Least(Free) \in Free
  <1>1. PICK s \in {0, 1, 2, 3} : s # pos[1] /\ s # pos[2] /\ s # pos[3]
    OBVIOUS
  <1>2. s \in Free
    <2>1. \A t \in seen : t = pos[1] \/ t = pos[2] \/ t = pos[3]
      BY DEF PasswordInv, PasswordTypeOK
    <2> QED
      BY <1>1, <2>1 DEF Free, Slots
  <1>3. \E t \in Free : \A u \in Free : t <= u
    <2>1. CASE 0 \in Free
      BY <2>1 DEF Free, Slots
    <2>2. CASE 0 \notin Free /\ 1 \in Free
      BY <2>2 DEF Free, Slots
    <2>3. CASE 0 \notin Free /\ 1 \notin Free /\ 2 \in Free
      BY <2>3 DEF Free, Slots
    <2>4. CASE 0 \notin Free /\ 1 \notin Free /\ 2 \notin Free
      BY <1>1, <1>2, <2>4 DEF Free, Slots
    <2> QED
      BY <2>1, <2>2, <2>3, <2>4
  <1> QED
    BY <1>3 DEF Least

(* Each pass of the loop and each assignment keeps the invariant.          *)
LEMMA PasswordStep == PasswordInv /\ [PasswordNext]_passwordVars => PasswordInv'
  <1> SUFFICES ASSUME PasswordInv, [PasswordNext]_passwordVars PROVE PasswordInv'
    OBVIOUS
  <1> USE DEF PasswordInv, PasswordTypeOK, PassedAreDistinct
  <1>1. CASE Replace
    <2>1. Least(Free) \in Slots /\ Least(Free) \notin seen
      BY <1>1, LeastIsFree DEF Replace, Free
    <2>2. PasswordTypeOK'
      BY <1>1, <2>1 DEF Replace
    <2>3. PassedAreDistinct'
      BY <1>1, <2>1 DEF Replace
    <2>4. (\A s \in seen : \E j \in 1 .. 4 : j < i /\ pos[j] = s)'
      BY <1>1, <2>1 DEF Replace
    <2>5. (\A k \in 1 .. 4 : k + 4 < i => pw[pos[k]] = Classes[k])'
      BY <1>1 DEF Replace
    <2> QED
      BY <2>2, <2>3, <2>4, <2>5
  <1>2. CASE Keep
    <2>1. PasswordTypeOK' /\ PassedAreDistinct'
      BY <1>2 DEF Keep
    <2>2. (\A s \in seen : \E j \in 1 .. 4 : j < i /\ pos[j] = s)'
      BY <1>2 DEF Keep
    <2>3. (\A k \in 1 .. 4 : k + 4 < i => pw[pos[k]] = Classes[k])'
      BY <1>2 DEF Keep
    <2> QED
      BY <2>1, <2>2, <2>3
  <1>3. CASE Put
    <2> DEFINE n == i - 4
    <2>1. n \in 1 .. 4 /\ pos[n] \in Slots /\ i' = i + 1
      BY <1>3 DEF Put
    <2>2. pw' = [pw EXCEPT ![pos[n]] = Classes[n]] /\ UNCHANGED <<idx, pos, seen>>
      BY <1>3 DEF Put
    <2>3. PasswordTypeOK'
      BY <1>3, <2>1, <2>2 DEF Put, Classes
    <2>4. PassedAreDistinct'
      BY <1>3, <2>1, <2>2 DEF Put
    <2>5. (\A s \in seen : \E j \in 1 .. 4 : j < i /\ pos[j] = s)'
      BY <2>1, <2>2
    <2>6. ASSUME NEW k \in 1 .. 4, k + 4 < i' PROVE pw'[pos'[k]] = Classes[k]
      <3>1. CASE k = n
        BY <2>1, <2>2, <3>1
      <3>2. CASE k # n
        <4>1. k < n /\ pos[k] # pos[n]
          BY <2>1, <2>6, <3>2
        <4>2. pw[pos[k]] = Classes[k]
          BY <2>1, <4>1
        <4> QED
          BY <2>2, <4>1, <4>2
      <3> QED
        BY <3>1, <3>2
    <2> QED
      BY <2>3, <2>4, <2>5, <2>6
  <1>4. CASE UNCHANGED passwordVars
    BY <1>4 DEF passwordVars
  <1> QED
    BY <1>1, <1>2, <1>3, <1>4 DEF PasswordNext

(* The positions passed are distinct and marked, whichever bytes collide.  *)
THEOREM PasswordInvariant == PasswordSpec => []PasswordInv
  BY PasswordStart, PasswordStep, PTL DEF PasswordSpec

(* The finished password has a character of each class, which MySQL's      *)
(* password policy asks for (secret.go:26-29).                             *)
THEOREM PasswordHasEveryClass == PasswordSpec => []EveryClassPresent
  <1>1. PasswordInv => EveryClassPresent
    BY DEF PasswordInv, PasswordTypeOK, EveryClassPresent
  <1> QED
    BY <1>1, PasswordInvariant, PTL
=============================================================================
