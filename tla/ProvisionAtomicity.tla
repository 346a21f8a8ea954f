-------------------------- MODULE ProvisionAtomicity --------------------------
(***************************************************************************)
(* While nothing fails the service implements AtomicService: what each     *)
(* step of a request comes to (CreateQuiet, RotateQuiet, DeleteQuiet,      *)
(* OuterQuiet), the invariant of such runs (QuietInv), and the step of the *)
(* atomic service that it is.                                              *)
(***************************************************************************)
EXTENDS ProvisionTheorems

\* A step of p that goes to l with password w and the given reply.
Passes(p, l, w, reply) == \E h : Becomes(p, l, h, w, req[p].partial, reply)

Stays == UNCHANGED <<rows, secret>>

\* The program points of Create from the INSERT to the update of the row.
Making == {"c_db", "c_user", "c_grant", "c_flush", "c_secret", "c_ready"}

\* What is known of every state of a run without faults.
QuietInv == IInv /\ ReliableInv /\ ReadyInv /\ SmoothInv

(* No call fails.                                                          *)
LEMMA NoFailing ==
  ASSUME Faults = {}, NEW p, Reliable(req[p]), NEW kind, NEW r
  PROVE  Failing(p, kind, r) = {}
  BY DEF Failing, Reliable

(* Calls take their effect and go on.                                      *)
LEMMA NoError ==
  ASSUME Faults = {}, NEW p, Reliable(req[p]), NEW effect, NEW ok, NEW err
  PROVE  /\ MySQLCall(p, effect, ok, err) => effect /\ Move(p, ok) /\ UNCHANGED <<disk, locks>>
         /\ StoreCall(p, effect, ok, err)
              => effect /\ Move(p, ok) /\ UNCHANGED <<mysqlVars, secret, locks>>
         /\ FileCall(p, effect, ok, err)
              => effect /\ Move(p, ok) /\ UNCHANGED <<mysqlVars, rows, leaked, locks>>
         /\ ~LookupFails(p)
  BY NoFailing DEF MySQLCall, StoreCall, FileCall, LookupFails, Returns

(* What the three moves come to.                                           *)
LEMMA MovePasses ==
  ASSUME NEW p \in Procs, NEW k, Runs(p, k), NEW l \in Labels
  PROVE  /\ Move(p, Goto(p, l)) => Passes(p, l, req[p].pw, req[p].reply)
         /\ Move(p, NextHost(p, l)) => \/ Passes(p, k, req[p].pw, req[p].reply)
                                       \/ Passes(p, l, req[p].pw, req[p].reply)
         /\ \A a \in Replies : Move(p, Answer(p, l, a)) => Passes(p, l, req[p].pw, a)
         /\ \A w \in Passwords :
               Move(p, [Goto(p, l) EXCEPT !.pw = w]) => Passes(p, l, w, req[p].reply)
  BY Jump, JumpHost, JumpAnswer, JumpPassword DEF Passes, Jumps

(* The steps of Create. MySQL refuses no grant: the accounts exist. The row *)
(* that is found is that of a complete project.                            *)
LEMMA CreateQuiet ==
  ASSUME Faults = {}, QuietInv, NEW p \in Procs, CreateStep(p)
  PROVE  LET n == Name(p)
             w == req[p].pw
         IN  \/ At(p, "c_get") /\ rows[n] = "ready" /\ Stays /\ Passes(p, "audit", w, "existing")
             \/ At(p, "c_get") /\ rows[n] = "none" /\ Stays /\ Passes(p, "c_insert", w, "none")
             \/ /\ At(p, "c_insert") /\ rows' = [rows EXCEPT ![n] = "pending"] /\ UNCHANGED secret
                /\ \E v \in Passwords : Passes(p, "c_db", v, "none")
             \/ /\ req[p].at \in Making \ {"c_ready"} /\ UNCHANGED rows
                /\ secret' = secret \/ secret' = [secret EXCEPT ![n] = w]
                /\ \E l \in Making : Passes(p, l, w, "none")
             \/ /\ At(p, "c_ready") /\ rows' = [rows EXCEPT ![n] = "ready"] /\ UNCHANGED secret
                /\ Passes(p, "c_final", w, "none")
             \/ At(p, "c_final") /\ Stays /\ Passes(p, "audit", w, "created")
  <1> DEFINE n == Name(p)
             w == req[p].pw
  <1>1. TypeOK /\ LockFor(p) /\ RowInv(p) /\ CreateInv(p) /\ Reliable(req[p]) /\ Smooth(req[p])
    BY DEF QuietInv, IInv, ControlInv, RowFor, ResourceFor, ReliableInv, SmoothInv
  <1>2. /\ req[p].at \notin {"rb_user", "rb_db", "c_mark"}
        /\ req[p].at \in CreateLabels => req[p].reply = "none"
    BY <1>1 DEF Smooth, Critical, RotateLabels, DeleteLabels, CreateLabels
  <1>3. {"existing", "created", "refused", "error"} \subseteq Replies
        /\ Making \cup {"c_insert", "c_final", "audit", "fin"} \subseteq Labels
    BY DEF Replies, Making, Labels, Critical, CreateLabels
  <1>4. CASE CreateLookup(p)
    <2>1. Runs(p, "c_get") /\ req[p].reply = "none" /\ Knows(p, "c_get")
      BY <1>1, <1>2, <1>4, Context DEF CreateLookup, Knows, At, CreateLabels
    <2>2. rows[n] \in {"none", "ready"}
      <3> SUFFICES ASSUME NEW q \in Procs, Name(q) = n, req[q].at \in CreateLabels \ {"c_get", "c_insert", "c_final"}
                   PROVE  FALSE
        BY <2>1 DEF QuietInv, SmoothInv, StatusFor, BeingCreated, Runs, Name
      <3>1. Holding(p) /\ Holding(q)
        BY <2>1 DEF Holding, InCritical, Critical, CreateLabels, Runs
      <3> QED BY <2>1, <3>1, ProvisionAssumption DEF QuietInv, IInv, ControlInv, LockFor, Runs, CreateLabels
    <2>3. ~LookupFails(p)
      BY <1>1, NoError
    <2>4. /\ Stays
          /\ \/ rows[n] = "ready" /\ Move(p, Answer(p, "audit", "existing"))
             \/ rows[n] = "none" /\ Move(p, Goto(p, "c_insert"))
      BY <1>4, <2>2, <2>3 DEF CreateLookup, Found, Silent, disk, Stays
    <2> QED BY <1>3, <1>4, <2>1, <2>4, MovePasses DEF CreateLookup
  <1>5. CASE CreateInsert(p)
    <2>1. Runs(p, "c_insert") /\ req[p].reply = "none"
      BY <1>1, <1>2, <1>5, Context DEF CreateInsert, Knows, At, CreateLabels
    <2>2. PICK v \in Passwords : CreateProject(n) /\ Move(p, [Goto(p, "c_db") EXCEPT !.pw = v]) /\ UNCHANGED secret
      BY <1>1, <1>5, NoError DEF CreateInsert
    <2>3. Passes(p, "c_db", v, "none")
      BY <1>3, <2>1, <2>2, MovePasses DEF Making
    <2> QED BY <1>5, <2>2, <2>3 DEF CreateInsert, CreateProject
  <1>6. ASSUME NEW k \in {"c_db", "c_user", "c_grant", "c_flush"}, NEW l \in Making, At(p, k),
               UNCHANGED disk, Move(p, Goto(p, l)) \/ Move(p, NextHost(p, l))
        PROVE  /\ UNCHANGED <<rows, secret>> /\ req[p].at \in Making \ {"c_ready"}
               /\ \E j \in Making : Passes(p, j, w, "none")
    <2>1. Runs(p, k) /\ req[p].reply = "none" /\ k \in Making /\ l \in Labels
      BY <1>1, <1>2, <1>3, <1>6, Context DEF Knows, At, Making, CreateLabels
    <2>2. Passes(p, l, w, "none") \/ Passes(p, k, w, "none")
      BY <1>6, <2>1, MovePasses
    <2> QED BY <1>6, <2>1, <2>2 DEF disk, At, Making
  <1>7. CASE EnsureDatabase(p) \/ EnsureUser(p) \/ GrantProjectPrivileges(p) \/ FlushPrivileges(p)
    <2>1. CASE EnsureDatabase(p)
      BY <1>1, <1>6, <2>1, NoError DEF EnsureDatabase, Making
    <2>2. CASE EnsureUser(p)
      BY <1>1, <1>6, <2>2, NoError DEF EnsureUser, Making
    <2>3. CASE GrantProjectPrivileges(p)
      <3>1. Runs(p, "c_grant")
        BY <1>1, <2>3, Context DEF GrantProjectPrivileges, Knows
      <3>2. HasAccount(Id(p), req[p].host)
        BY <1>1, <3>1 DEF CreateInv, After, Runs
      <3> QED BY <1>1, <1>6, <2>3, <3>2, NoError DEF GrantProjectPrivileges, Refused, Making
    <2>4. CASE FlushPrivileges(p)
      BY <1>1, <1>6, <2>4, NoError DEF FlushPrivileges, Making
    <2> QED BY <1>7, <2>1, <2>2, <2>3, <2>4
  <1>8. CASE CreateSecret(p)
    <2>1. Runs(p, "c_secret") /\ req[p].reply = "none"
      BY <1>1, <1>2, <1>8, Context DEF CreateSecret, Knows, At, CreateLabels
    <2>2. SetSecret(n, w) /\ Move(p, Goto(p, "c_ready")) /\ UNCHANGED rows
      BY <1>1, <1>8, NoError DEF CreateSecret
    <2>3. Passes(p, "c_ready", w, "none")
      BY <1>3, <2>1, <2>2, MovePasses DEF Making
    <2> QED BY <2>1, <2>2, <2>3 DEF SetSecret, Making, Runs
  <1>9. CASE CreateReady(p)
    <2>1. Runs(p, "c_ready") /\ req[p].reply = "none" /\ rows[n] = "pending"
      BY <1>1, <1>2, <1>9, Context DEF CreateReady, Knows, At, CreateLabels, RowInv
    <2>2. UpdateProjectStatus(n, "ready") /\ Move(p, Goto(p, "c_final")) /\ UNCHANGED secret
      BY <1>1, <1>9, NoError DEF CreateReady
    <2>3. Passes(p, "c_final", w, "none")
      BY <1>3, <2>1, <2>2, MovePasses
    <2> QED BY <1>9, <2>1, <2>2, <2>3 DEF CreateReady, UpdateProjectStatus
  <1>10. CASE CreateFinal(p)
    <2>1. Runs(p, "c_final")
      BY <1>1, <1>10, Context DEF CreateFinal, Knows, At
    <2>2. UNCHANGED rows /\ Move(p, Answer(p, "audit", "created")) /\ UNCHANGED secret
      BY <1>1, <1>10, NoError DEF CreateFinal
    <2>3. Passes(p, "audit", w, "created")
      BY <1>3, <2>1, <2>2, MovePasses
    <2> QED BY <1>10, <2>2, <2>3 DEF CreateFinal, Stays
  <1>11. ~(RollbackUser(p) \/ RollbackDatabase(p) \/ MarkError(p))
    BY <1>2 DEF RollbackUser, RollbackDatabase, MarkError, At
  <1> QED BY <1>4, <1>5, <1>7, <1>8, <1>9, <1>10, <1>11 DEF CreateStep

(* A request between the mutexes is the only one that can be creating or    *)
(* deleting its project: what it finds there is complete.                  *)
LEMMA CompleteProject ==
  ASSUME QuietInv, NEW p \in Procs, InCritical(p), rows[Name(p)] # "none",
         req[p].at \notin (CreateLabels \ {"c_get", "c_final"}) \cup {"d_user", "d_secret", "d_row"}
  PROVE  rows[Name(p)] = "ready" /\ Serves(Name(p))
  <1>1. /\ Name(p) \in Names /\ ioLock[Name(p)] = p
        /\ \A q \in Procs : InCritical(q) /\ Name(q) = Name(p) => q = p
    BY DEF QuietInv, IInv, ControlInv, TypeOK, LockFor, Holding, InCritical, Critical, CreateLabels,
       RotateLabels, DeleteLabels, Name
  <1>2. ~BeingCreated(Name(p)) /\ ~BeingDeleted(Name(p))
    BY <1>1 DEF BeingCreated, BeingDeleted, InCritical, Critical, CreateLabels, DeleteLabels
  <1> QED BY <1>1, <1>2 DEF QuietInv, SmoothInv, StatusFor, ReadyInv, ReadyFor

(* The steps of Rotate. The project is complete, so that ALTER USER finds   *)
(* its accounts.                                                           *)
LEMMA RotateQuiet ==
  ASSUME Faults = {}, QuietInv, NEW p \in Procs, RotateStep(p)
  PROVE  LET n == Name(p)
             w == req[p].pw
         IN  \/ /\ At(p, "r_get") /\ rows[n] # "none" /\ Stays
                /\ \E v \in Passwords : Passes(p, "r_alter", v, "none")
             \/ At(p, "r_get") /\ rows[n] = "none" /\ Stays /\ Passes(p, "audit", w, "notfound")
             \/ At(p, "r_alter") /\ Stays /\ \E l \in {"r_alter", "r_secret"} : Passes(p, l, w, "none")
             \/ /\ At(p, "r_secret") /\ UNCHANGED rows /\ secret' = [secret EXCEPT ![n] = w]
                /\ Passes(p, "audit", w, "rotated")
             \/ At(p, "r_final") /\ Stays /\ Passes(p, "fin", w, "rotated")
  <1> DEFINE n == Name(p)
             w == req[p].pw
  <1>1. TypeOK /\ LockFor(p) /\ RowInv(p) /\ FlowInv(p) /\ Reliable(req[p]) /\ Smooth(req[p])
    BY DEF QuietInv, IInv, ControlInv, RowFor, ReliableInv, SmoothInv
  <1>2. req[p].at \in {"r_get", "r_alter", "r_secret"} => req[p].reply = "none"
    BY <1>1 DEF Smooth, Critical, RotateLabels
  <1>3. {"notfound", "rotated"} \subseteq Replies /\ RotateLabels \cup {"audit", "fin"} \subseteq Labels
    BY DEF Replies, Labels, Critical
  <1>4. CASE RotateLookup(p)
    <2>1. Runs(p, "r_get") /\ req[p].reply = "none"
      BY <1>1, <1>2, <1>4, Context DEF RotateLookup, Knows, At
    <2>2. ~LookupFails(p)
      BY <1>1, NoError
    <2>3. /\ Stays
          /\ \/ rows[n] # "none" /\ \E v \in Passwords : Move(p, [Goto(p, "r_alter") EXCEPT !.pw = v])
             \/ rows[n] = "none" /\ Move(p, Answer(p, "audit", "notfound"))
      BY <1>4, <2>2 DEF RotateLookup, Found, NotFound, Silent, disk, Stays
    <2>4. ASSUME NEW v \in Passwords, Move(p, [Goto(p, "r_alter") EXCEPT !.pw = v])
          PROVE  Passes(p, "r_alter", v, "none")
      BY <1>3, <2>1, <2>4, MovePasses DEF RotateLabels
    <2>5. Move(p, Answer(p, "audit", "notfound")) => Passes(p, "audit", w, "notfound")
      BY <1>3, <2>1, MovePasses
    <2>6. CASE rows[n] # "none"
      <3>1. \E v \in Passwords : Passes(p, "r_alter", v, "none")
        BY <2>3, <2>4, <2>6
      <3> QED BY <1>4, <2>3, <2>6, <3>1 DEF RotateLookup
    <2>7. CASE rows[n] = "none"
      <3>1. Passes(p, "audit", w, "notfound")
        BY <2>3, <2>5, <2>7
      <3> QED BY <1>4, <2>3, <2>7, <3>1 DEF RotateLookup
    <2> QED BY <2>6, <2>7
  <1>5. CASE SetUserPassword(p)
    <2>1. Runs(p, "r_alter") /\ req[p].reply = "none"
      BY <1>1, <1>2, <1>5, Context DEF SetUserPassword, Knows, At
    <2>2. HasAccount(Id(p), req[p].host)
      <3>1. rows[n] # "none" /\ InCritical(p)
        BY <1>1, <2>1 DEF RowInv, Runs, At, InCritical, Critical, RotateLabels
      <3>2. Serves(n)
        BY <2>1, <3>1, CompleteProject DEF Runs, CreateLabels
      <3> QED BY <2>1, <3>2 DEF Runs, Serves, Usable, Id, Name
    <2>3. Move(p, NextHost(p, "r_secret")) /\ UNCHANGED disk
      BY <1>1, <1>5, <2>2, NoError DEF SetUserPassword, Refused
    <2> QED BY <1>3, <1>5, <2>1, <2>3, MovePasses DEF SetUserPassword, disk, Stays, RotateLabels
  <1>6. CASE RotateSecret(p)
    <2>1. Runs(p, "r_secret")
      BY <1>1, <1>6, Context DEF RotateSecret, Knows
    <2>2. SetSecret(n, w) /\ Move(p, Answer(p, "audit", "rotated")) /\ UNCHANGED rows
      BY <1>1, <1>6, NoError DEF RotateSecret
    <2>3. Passes(p, "audit", w, "rotated")
      BY <1>3, <2>1, <2>2, MovePasses
    <2> QED BY <1>6, <2>2, <2>3 DEF RotateSecret, SetSecret
  <1>7. CASE RotateFinal(p)
    <2>1. Runs(p, "r_final") /\ req[p].reply = "rotated"
      BY <1>1, <1>7, Context DEF RotateFinal, Knows, FlowInv
    <2>2. UNCHANGED rows /\ Move(p, Goto(p, "fin")) /\ UNCHANGED secret
      BY <1>1, <1>7, NoError DEF RotateFinal
    <2>3. Passes(p, "fin", w, "rotated")
      BY <1>3, <2>1, <2>2, MovePasses
    <2> QED BY <1>7, <2>2, <2>3 DEF RotateFinal, Stays
  <1> QED BY <1>4, <1>5, <1>6, <1>7 DEF RotateStep

(* The steps of Delete.                                                    *)
LEMMA DeleteQuiet ==
  ASSUME Faults = {}, QuietInv, NEW p \in Procs, DeleteStep(p)
  PROVE  LET n == Name(p)
             w == req[p].pw
         IN  \/ At(p, "d_get") /\ rows[n] # "none" /\ Stays /\ Passes(p, "d_db", w, "none")
             \/ At(p, "d_get") /\ rows[n] = "none" /\ Stays /\ Passes(p, "audit", w, "notfound")
             \/ At(p, "d_db") /\ Stays /\ Passes(p, "d_user", w, "none")
             \/ At(p, "d_user") /\ Stays /\ \E l \in {"d_user", "d_secret"} : Passes(p, l, w, "none")
             \/ /\ At(p, "d_secret") /\ UNCHANGED rows /\ secret' = [secret EXCEPT ![n] = NoPw]
                /\ Passes(p, "d_row", w, "none")
             \/ /\ At(p, "d_row") /\ rows' = [rows EXCEPT ![n] = "none"] /\ UNCHANGED secret
                /\ Passes(p, "audit", w, "deleted")
  <1> DEFINE n == Name(p)
             w == req[p].pw
  <1>1. TypeOK /\ LockFor(p) /\ Reliable(req[p]) /\ Smooth(req[p])
    BY DEF QuietInv, IInv, ControlInv, ReliableInv, SmoothInv
  <1>2. ~req[p].partial /\ (req[p].at \in DeleteLabels => req[p].reply = "none")
    BY <1>1 DEF Smooth, Critical, RotateLabels, DeleteLabels
  <1>3. {"notfound", "deleted"} \subseteq Replies /\ DeleteLabels \cup {"audit"} \subseteq Labels
    BY DEF Replies, Labels, Critical
  <1>4. CASE DeleteLookup(p)
    <2>1. Runs(p, "d_get") /\ req[p].reply = "none"
      BY <1>1, <1>2, <1>4, Context DEF DeleteLookup, Knows, At, DeleteLabels
    <2>2. ~LookupFails(p)
      BY <1>1, NoError
    <2>3. /\ Stays
          /\ \/ rows[n] # "none" /\ Move(p, Goto(p, "d_db"))
             \/ rows[n] = "none" /\ Move(p, Answer(p, "audit", "notfound"))
      BY <1>4, <2>2 DEF DeleteLookup, Found, NotFound, Silent, disk, Stays
    <2> QED BY <1>3, <1>4, <2>1, <2>3, MovePasses DEF DeleteLookup, DeleteLabels
  <1>5. CASE DeleteDatabase(p)
    <2>1. Runs(p, "d_db") /\ req[p].reply = "none"
      BY <1>1, <1>2, <1>5, Context DEF DeleteDatabase, Knows, At, DeleteLabels
    <2>2. Move(p, Goto(p, "d_user")) /\ UNCHANGED disk
      BY <1>1, <1>5, NoError DEF DeleteDatabase
    <2> QED BY <1>3, <1>5, <2>1, <2>2, MovePasses DEF DeleteDatabase, disk, Stays, DeleteLabels
  <1>6. CASE DeleteUser(p)
    <2>1. Runs(p, "d_user") /\ req[p].reply = "none"
      BY <1>1, <1>2, <1>6, Context DEF DeleteUser, Knows, At, DeleteLabels
    <2>2. Move(p, NextHost(p, "d_secret")) /\ UNCHANGED disk
      BY <1>1, <1>6, NoError DEF DeleteUser
    <2> QED BY <1>3, <1>6, <2>1, <2>2, MovePasses DEF DeleteUser, disk, Stays, DeleteLabels
  <1>7. CASE DeleteSecret(p)
    <2>1. Runs(p, "d_secret") /\ req[p].reply = "none"
      BY <1>1, <1>2, <1>7, Context DEF DeleteSecret, Knows, At, DeleteLabels
    <2>2. SetSecret(n, NoPw) /\ Move(p, Goto(p, "d_row")) /\ UNCHANGED rows
      BY <1>1, <1>7, NoError DEF DeleteSecret
    <2> QED BY <1>3, <1>7, <2>1, <2>2, MovePasses DEF DeleteSecret, SetSecret, DeleteLabels
  <1>8. CASE DeleteRow(p)
    <2>1. Runs(p, "d_row")
      BY <1>1, <1>8, Context DEF DeleteRow, Knows
    <2>2. DeleteProject(n, req[p].partial) /\ Move(p, Answer(p, "audit", "deleted")) /\ UNCHANGED secret
      BY <1>1, <1>2, <1>8, NoError DEF DeleteRow
    <2> QED BY <1>3, <1>8, <2>1, <2>2, MovePasses DEF DeleteRow, DeleteProject
  <1> QED BY <1>4, <1>5, <1>6, <1>7, <1>8 DEF DeleteStep

\* A request of p begins on project n, or p is on its way to the next one.
Begins(p, l, n, reply) ==
    /\ req' \in [Procs -> Request] /\ \A q \in Procs \ {p} : req'[q] = req[q]
    /\ req'[p].at = l /\ req'[p].name = n /\ ~req'[p].partial /\ req'[p].reply = reply

Locking == {<<"c_store", "c_io">>, <<"c_io", "c_get">>, <<"r_io", "r_get">>, <<"d_io", "d_get">>}

(* The steps that begin a request, take a mutex, look or end it.           *)
LEMMA OuterQuiet ==
  ASSUME Faults = {}, QuietInv, NEW p \in Procs, Start(p) \/ Lock(p) \/ Get(p) \/ Finish(p)
  PROVE  LET n == Name(p)
             w == req[p].pw
             a == req[p].reply
         IN  /\ Stays
             /\ \/ /\ At(p, "idle")
                   /\ \E l \in {"c_store", "r_io", "d_io", "g_get"}, m \in Names : Begins(p, l, m, "none")
                \/ At(p, "idle") /\ \E m \in Names : Begins(p, "audit", m, "unconfirmed")
                \/ \E l \in Labels : <<req[p].at, l>> \in Locking /\ Passes(p, l, w, a)
                \/ At(p, "g_get") /\ rows[n] # "none" /\ Passes(p, "fin", w, "shown")
                \/ At(p, "g_get") /\ rows[n] = "none" /\ Passes(p, "audit", w, "notfound")
                \/ At(p, "audit") /\ Passes(p, IF a = "rotated" THEN "r_final" ELSE "fin", w, a)
                \/ At(p, "fin") /\ \E l \in {"idle", "c_unlock"} : \E m : Begins(p, l, m, "none")
                \/ At(p, "c_unlock") /\ Begins(p, "idle", NoName, "none")
  <1> DEFINE n == Name(p)
             w == req[p].pw
             a == req[p].reply
  <1>1. TypeOK /\ LockFor(p) /\ Reliable(req[p]) /\ req \in [Procs -> Request] /\ req[p] \in Request
    BY DEF QuietInv, IInv, ControlInv, ReliableInv, TypeOK
  <1>2. Start(p) \/ Lock(p) \/ Get(p) \/ Finish(p) => Stays
    BY <1>1, NoError DEF Start, BeginCreate, BeginRotate, BeginDelete, BeginGet, BeginUnconfirmed, Begin, Lock,
       LockCreate, LockName, Get, NotFound, Finish, Audit, Return, ReleaseCreate, Silent, disk, Stays
  <1>3. /\ {"shown", "notfound", "unconfirmed", "none"} \subseteq Replies
        /\ {"c_store", "r_io", "d_io", "g_get", "audit", "fin", "c_io", "c_get", "r_get", "d_get", "c_unlock",
            "r_final", "idle"} \subseteq Labels
        /\ 1 \in Hosts /\ n \in Names \cup {NoName}
    BY <1>1, RequestFields DEF Hosts, Name, Replies, Labels, Critical, CreateLabels, RotateLabels, DeleteLabels
  <1>4. ASSUME NEW l \in Labels, NEW m \in Names \cup {NoName}, NEW reply \in Replies,
               Move(p, [Idle EXCEPT !.at = l, !.name = m, !.reply = reply])
        PROVE  Begins(p, l, m, reply)
    <2>1. Is([Idle EXCEPT !.at = l, !.name = m, !.reply = reply], l, m, 1, NoPw, FALSE, reply)
      BY <1>3, Zenon DEF Is, Idle, Request, MaybePassword
    <2> QED BY <1>1, <1>4, <2>1 DEF Is, Move, Begins
  <1>5. CASE Start(p)
    <2>1. CASE BeginUnconfirmed(p)
      BY <1>2, <1>3, <1>4, <2>1 DEF BeginUnconfirmed, Begin, Silent, Start
    <2>2. CASE BeginCreate(p) \/ BeginRotate(p) \/ BeginDelete(p) \/ BeginGet(p)
      BY <1>2, <1>3, <1>4, <2>2 DEF BeginCreate, BeginRotate, BeginDelete, BeginGet, Begin, Silent, Start
    <2> QED BY <1>5, <2>1, <2>2 DEF Start
  <1>6. CASE Lock(p)
    <2>1. PICK l \in Labels : <<req[p].at, l>> \in Locking /\ Move(p, Goto(p, l))
      BY <1>3, <1>6 DEF Lock, LockCreate, LockName, AfterLock, Locking, At
    <2>2. Runs(p, req[p].at)
      BY <1>1, <2>1, RunsAt DEF Locking, At
    <2>3. Passes(p, l, w, a)
      BY <2>1, <2>2, MovePasses
    <2> QED BY <1>2, <1>6, <2>1, <2>3
  <1>7. CASE Get(p)
    <2>1. Runs(p, "g_get")
      BY <1>1, <1>7, RunsAt DEF Get
    <2>2. \/ rows[n] # "none" /\ Move(p, Answer(p, "fin", "shown"))
          \/ rows[n] = "none" /\ Move(p, Answer(p, "audit", "notfound"))
      BY <1>1, <1>7, NoError DEF Get, Found, NotFound, Silent
    <2> QED BY <1>2, <1>3, <1>7, <2>1, <2>2, MovePasses DEF Get
  <1>8. CASE Audit(p)
    <2>1. Runs(p, "audit")
      BY <1>1, <1>8, RunsAt DEF Audit
    <2>2. Move(p, [AfterAudit(p) EXCEPT !.logged = TRUE])
      BY <1>1, <1>8, NoFailing DEF Audit, Silent
    <2>3. PICK l : l = (IF a = "rotated" THEN "r_final" ELSE "fin")
      OBVIOUS
    <2>4. Is([Goto(p, l) EXCEPT !.logged = TRUE], l, req[p].name, 1, w, req[p].partial, a)
      BY <1>1, <1>3, <2>3, GotoIs, LoggedIs
    <2>5. Passes(p, l, w, a)
      BY <1>1, <2>2, <2>3, <2>4, MoveIs DEF AfterAudit, Passes
    <2> QED BY <1>2, <1>8, <2>3, <2>5 DEF Audit, Finish
  <1>9. CASE Return(p)
    <2>1. Move(p, Idle) \/ Move(p, [Idle EXCEPT !.at = "c_unlock", !.name = Name(p)])
      BY <1>9 DEF Return
    <2>2. Idle \in Request /\ Idle.at = "idle" /\ ~Idle.partial /\ Idle.reply = "none"
      BY <1>3 DEF Idle, Request, Hosts, MaybePassword
    <2>3. Is([Idle EXCEPT !.at = "c_unlock", !.name = n], "c_unlock", n, 1, NoPw, FALSE, "none")
      BY <1>3, Zenon DEF Is, Idle, Request, MaybePassword
    <2>4. \E l \in {"idle", "c_unlock"} : \E m : Begins(p, l, m, "none")
      BY <1>1, <2>1, <2>2, <2>3 DEF Is, Move, Begins, Name
    <2> QED BY <1>2, <1>9, <2>4 DEF Return, Finish
  <1>10. CASE ReleaseCreate(p)
    <2>1. Idle \in Request /\ Idle.at = "idle" /\ ~Idle.partial /\ Idle.reply = "none" /\ Idle.name = NoName
      BY <1>3 DEF Idle, Request, Hosts, MaybePassword
    <2>2. Begins(p, "idle", NoName, "none")
      BY <1>1, <1>10, <2>1 DEF ReleaseCreate, Move, Begins
    <2> QED BY <1>2, <1>10, <2>2 DEF ReleaseCreate, Finish
  <1> QED BY <1>5, <1>6, <1>7, <1>8, <1>9, <1>10 DEF Finish

(* A request between the mutexes that is not creating its project finds no  *)
(* row that is left pending.                                               *)
LEMMA SettledRow ==
  ASSUME QuietInv, NEW p \in Procs, InCritical(p),
         req[p].at \notin CreateLabels \ {"c_get", "c_insert", "c_final"}
  PROVE  rows[Name(p)] \in {"none", "ready"}
  <1>1. /\ Name(p) \in Names
        /\ \A q \in Procs : InCritical(q) /\ Name(q) = Name(p) => q = p
    BY DEF QuietInv, IInv, ControlInv, TypeOK, LockFor, Holding, InCritical, Critical, CreateLabels,
       RotateLabels, DeleteLabels, Name
  <1>2. ~BeingCreated(Name(p))
    BY <1>1 DEF BeingCreated, InCritical, Critical, CreateLabels
  <1> QED BY <1>1, <1>2 DEF QuietInv, SmoothInv, StatusFor

(* A step leaves its own request smooth, and what its Delete relies on.     *)
LEMMA OwnSmooth ==
  ASSUME Faults = {}, QuietInv, NEW p \in Procs, Start(p) \/ Lock(p) \/ Run(p)
  PROVE  Smooth(req'[p]) /\ SecretFor(p)'
  <1>1. Smooth(req[p]) /\ SecretFor(p) /\ RowInv(p)
    BY DEF QuietInv, SmoothInv, IInv, ControlInv, RowFor
  <1>2. CASE CreateStep(p)
    <2>1. \/ \E l \in {"c_insert", "c_db"} \cup Making : \E w : Passes(p, l, w, "none")
          \/ Passes(p, "c_final", req[p].pw, "none")
          \/ \E a \in {"existing", "created"} : Passes(p, "audit", req[p].pw, a)
      BY <1>2, CreateQuiet
    <2> QED BY <1>1, <2>1 DEF Passes, Becomes, Smooth, SecretFor, Making, Critical, CreateLabels, RotateLabels,
               DeleteLabels
  <1>3. CASE RotateStep(p)
    <2>1. \/ \E l \in {"r_alter", "r_secret"} : \E w : Passes(p, l, w, "none")
          \/ \E l \in {"audit", "fin"}, a \in {"notfound", "rotated"} : Passes(p, l, req[p].pw, a)
      BY <1>3, RotateQuiet
    <2> QED BY <1>1, <2>1 DEF Passes, Becomes, Smooth, SecretFor, Critical, CreateLabels, RotateLabels, DeleteLabels
  <1>4. CASE DeleteStep(p)
    <2>1. \/ \E l \in {"d_db", "d_row"} : Passes(p, l, req[p].pw, "none")
          \/ \E a \in {"notfound", "deleted"} : Passes(p, "audit", req[p].pw, a)
          \/ /\ req[p].at \in {"d_db", "d_user"} /\ Stays
             /\ \E l \in {"d_user", "d_secret"} : Passes(p, l, req[p].pw, "none")
      BY <1>4, DeleteQuiet DEF At
    <2>2. CASE At(p, "d_db")
      <3>1. InCritical(p) /\ rows[Name(p)] # "none"
        BY <1>1, <2>2 DEF InCritical, Critical, DeleteLabels, RowInv, At
      <3>2. secret[Name(p)] # NoPw
        BY <2>2, <3>1, CompleteProject DEF CreateLabels, At, Serves
      <3> QED BY <1>1, <2>1, <3>2 DEF Passes, Becomes, Stays, Smooth, SecretFor, Name, Critical, CreateLabels,
                 RotateLabels, DeleteLabels
    <2>3. CASE ~At(p, "d_db")
      BY <1>1, <2>1, <2>3 DEF At, Passes, Becomes, Stays, Smooth, SecretFor, Name, Critical, CreateLabels,
         RotateLabels, DeleteLabels
    <2> QED BY <2>2, <2>3
  <1>5. CASE Start(p) \/ Lock(p) \/ Get(p) \/ Finish(p)
    <2>1. \/ \E l \in {"c_store", "r_io", "d_io", "g_get", "idle", "c_unlock"} : \E m : Begins(p, l, m, "none")
          \/ \E m \in Names : Begins(p, "audit", m, "unconfirmed")
          \/ \E l \in Labels : <<req[p].at, l>> \in Locking /\ Passes(p, l, req[p].pw, req[p].reply)
          \/ \E a \in {"shown", "notfound"}, l \in {"audit", "fin"} : Passes(p, l, req[p].pw, a)
          \/ \E l \in {"r_final", "fin"} : Passes(p, l, req[p].pw, req[p].reply)
      BY <1>5, OuterQuiet
    <2> QED BY <1>1, <2>1 DEF Begins, Passes, Becomes, Locking, Smooth, SecretFor, Critical, CreateLabels,
               RotateLabels, DeleteLabels
  <1> QED BY <1>2, <1>3, <1>4, <1>5 DEF Run

(* A step leaves no project pending that nobody is creating.               *)
LEMMA StatusNext ==
  ASSUME Faults = {}, QuietInv, NEW p \in Procs, Start(p) \/ Lock(p) \/ Run(p), Frame(p), NEW n \in Names
  PROVE  StatusFor(n)'
  <1>1. StatusFor(n) /\ RowInv(p) /\ TypeOK
    BY DEF QuietInv, SmoothInv, IInv, ControlInv, RowFor
  <1>2. CASE n # Name(p) \/ ~InCritical(p)
    <2>1. rows'[n] = rows[n]
      BY <1>2 DEF Frame, SameProject
    <2>2. BeingCreated(n) => BeingCreated(n)'
      BY <1>2 DEF BeingCreated, Frame, InCritical, Critical, Name
    <2> QED BY <1>1, <2>1, <2>2 DEF StatusFor
  <1>3. CASE n = Name(p) /\ InCritical(p)
    <2>1. rows[n] \in {"none", "ready"} \/ (rows[n] = "pending" /\ req[p].at \in Making)
      <3>1. CASE req[p].at \in Making
        BY <1>1, <1>3, <3>1 DEF RowInv, Making, CreateLabels
      <3>2. req[p].at \notin Making => req[p].at \notin CreateLabels \ {"c_get", "c_insert", "c_final"}
        BY DEF QuietInv, SmoothInv, Smooth, Making, CreateLabels
      <3> QED BY <1>3, <3>1, <3>2, SettledRow
    <2>2. CASE CreateStep(p)
      <3>1. \/ rows' = rows /\ req[p].at \notin Making
            \/ /\ rows' = rows \/ rows' = [rows EXCEPT ![n] = "pending"]
               /\ \E l \in Making : \E v : Passes(p, l, v, "none")
            \/ rows' = [rows EXCEPT ![n] = "ready"]
        BY <1>3, <2>2, CreateQuiet DEF Stays, At, Making
      <3>2. (\E l \in Making : \E v : Passes(p, l, v, "none")) => BeingCreated(n)'
        BY <1>3 DEF Passes, Becomes, BeingCreated, Making, CreateLabels, Name
      <3> QED BY <1>1, <2>1, <3>1, <3>2 DEF StatusFor, TypeOK
    <2>3. CASE ~CreateStep(p)
      <3>1. rows' = rows \/ rows' = [rows EXCEPT ![n] = "none"]
        BY <1>3, <2>3, RotateQuiet, DeleteQuiet, OuterQuiet DEF Run, Stays
      <3>2. req[p].at \notin Making
        BY <2>3, RotateQuiet, DeleteQuiet, OuterQuiet DEF Run, Making, At, Locking
      <3> QED BY <1>1, <2>1, <3>1, <3>2 DEF StatusFor, TypeOK
    <2> QED BY <2>2, <2>3
  <1> QED BY <1>2, <1>3

(* What holds beyond ReadyInv while nothing fails is kept by every step.    *)
LEMMA SmoothNext ==
  ASSUME Injective, Faults = {}
  PROVE  QuietInv /\ [Next]_vars => QuietInv'
  <1> SUFFICES ASSUME QuietInv, [Next]_vars PROVE QuietInv'
    OBVIOUS
  <1>1. Attended /\ "crash" \notin Faults
    BY DEF Attended
  <1>2. IInv' /\ ReliableInv' /\ ReadyInv'
    BY <1>1, ResourceNext, ReliableNext, ReadyNext DEF QuietInv, IInv
  <1>3. UNCHANGED vars => SmoothInv'
    BY DEF QuietInv, SmoothInv, Smooth, SecretFor, StatusFor, BeingCreated, Name, vars, disk
  <1>4. ASSUME NEW p \in Procs, Start(p) \/ Lock(p) \/ Run(p) PROVE SmoothInv'
    <2>1. Frame(p) /\ TypeOK /\ LockFor(p)
      BY <1>4, StepPreserves DEF Preserved, QuietInv, IInv, ControlInv
    <2>2. ASSUME NEW q \in Procs PROVE Smooth(req'[q]) /\ SecretFor(q)'
      <3>1. CASE q = p
        BY <1>4, <3>1, OwnSmooth
      <3>2. CASE q # p
        <4>1. req'[q] = req[q] /\ Smooth(req[q]) /\ SecretFor(q) /\ LockFor(q)
          BY <2>1, <3>2 DEF Frame, QuietInv, SmoothInv, IInv, ControlInv
        <4>2. CASE req[q].at \in {"d_user", "d_secret"}
          <5>1. Holding(q)
            BY <4>2 DEF Holding, InCritical, Critical, DeleteLabels
          <5>2. Name(q) \in Names /\ (InCritical(p) => Name(p) # Name(q))
            BY <2>1, <3>2, <4>1, <5>1, Owner
          <5> QED BY <2>1, <4>1, <5>2 DEF Frame, SameProject, SecretFor, Name
        <4> QED BY <4>1, <4>2 DEF SecretFor
      <3> QED BY <3>1, <3>2
    <2>3. \A n \in Names : StatusFor(n)'
      BY <1>4, <2>1, StatusNext
    <2> QED BY <2>2, <2>3 DEF SmoothInv
  <1>5. ~Crash
    BY DEF Crash
  <1> QED BY <1>2, <1>3, <1>4, <1>5 DEF Next, QuietInv

\* The abstract call of a request with record r, and of the service.
CallOf(r) ==
    IF r.at \in {"idle", "c_unlock"} \/ r.reply = "unconfirmed" THEN Atomic!NoCall
    ELSE [op    |-> CASE r.at \in {"c_store", "c_io"} \cup (CreateLabels \ {"c_final"}) -> "create"
                      [] r.at \in {"r_io"} \cup (RotateLabels \ {"r_final"})             -> "rotate"
                      [] r.at \in {"d_io"} \cup (DeleteLabels \ {"d_row"})               -> "delete"
                      [] r.at = "g_get"                                                  -> "get"
                      [] OTHER                                                           -> "done",
          name  |-> r.name,
          reply |-> CASE r.at = "c_final" -> "created"
                      [] r.at = "d_row"   -> "deleted"
                      [] OTHER            -> r.reply]

Calls == [p \in Procs |-> AtomicCall(p)]

\* No step of p but its own call, which becomes c.
CallBecomes(p, c) == Calls' = [Calls EXCEPT ![p] = c]

(* The abstract call of a record, by its program point.                    *)
LEMMA CallIs ==
  ASSUME NEW r
  PROVE  /\ r.at \in {"idle", "c_unlock"} \/ r.reply = "unconfirmed" => CallOf(r) = Atomic!NoCall
         /\ r.reply # "unconfirmed" =>
              /\ r.at \in {"c_store", "c_io", "c_get", "c_insert"} \cup Making
                   => CallOf(r) = [op |-> "create", name |-> r.name, reply |-> r.reply]
              /\ r.at \in {"r_io", "r_get", "r_alter", "r_secret"}
                   => CallOf(r) = [op |-> "rotate", name |-> r.name, reply |-> r.reply]
              /\ r.at \in {"d_io", "d_get", "d_db", "d_user", "d_secret"}
                   => CallOf(r) = [op |-> "delete", name |-> r.name, reply |-> r.reply]
              /\ r.at = "g_get"
                   => CallOf(r) = [op |-> "get", name |-> r.name, reply |-> r.reply]
              /\ r.at = "c_final"
                   => CallOf(r) = [op |-> "done", name |-> r.name, reply |-> "created"]
              /\ r.at = "d_row"
                   => CallOf(r) = [op |-> "done", name |-> r.name, reply |-> "deleted"]
              /\ r.at \in {"audit", "r_final", "fin"}
                   => CallOf(r) = [op |-> "done", name |-> r.name, reply |-> r.reply]
  BY DEF CallOf, Making, CreateLabels, RotateLabels, DeleteLabels

(* AtomicCall is the call of the request's record.                         *)
LEMMA CallsAre ==
  ASSUME NEW p \in Procs
  PROVE  Calls[p] = CallOf(req[p]) /\ (Calls[p] = CallOf(req[p]))'
  BY DEF Calls, AtomicCall, CallOf, Operation, At, Atomic!NoCall

(* A step of p changes the abstract call of p only.                        *)
LEMMA CallNext ==
  ASSUME NEW p \in Procs, \A q \in Procs \ {p} : req'[q] = req[q]
  PROVE  CallBecomes(p, CallOf(req'[p]))
  <1>1. \A q \in Procs : Calls[q] = CallOf(req[q]) /\ Calls'[q] = CallOf(req'[q])
    BY CallsAre
  <1>2. Calls = [q \in Procs |-> Calls[q]] /\ Calls' = [q \in Procs |-> Calls'[q]]
    BY DEF Calls
  <1> QED BY <1>1, <1>2 DEF CallBecomes

(* A step that answers a call.                                             *)
LEMMA CallDone ==
  ASSUME NEW p \in Procs, NEW op, NEW n, NEW a, NEW b, Calls[p] = [op |-> op, name |-> n, reply |-> a],
         CallBecomes(p, [op |-> "done", name |-> n, reply |-> b])
  PROVE  Atomic!Done(p, b)
  <1> DEFINE r == [op |-> op, name |-> n, reply |-> a]
  <1> DEFINE s == [op |-> "done", name |-> n, reply |-> a]
  <1>1. [r EXCEPT !.op = "done"] = s /\ [s EXCEPT !.reply = b] = [op |-> "done", name |-> n, reply |-> b]
    OBVIOUS
  <1>2. [Calls EXCEPT ![p].op = "done", ![p].reply = b]
          = [Calls EXCEPT ![p] = [[Calls[p] EXCEPT !.op = "done"] EXCEPT !.reply = b]]
    BY DEF Calls
  <1> QED BY <1>1, <1>2, Zenon DEF Atomic!Done, CallBecomes, Calls

(* A step that publishes a password.                                       *)
LEMMA Publishes ==
  ASSUME NEW p \in Procs, NEW op, NEW n, NEW a, NEW w, Calls[p] = [op |-> op, name |-> n, reply |-> a],
         Published' = [Published EXCEPT ![n] = w]
  PROVE  Atomic!Publish(p, w)
  <1>1. Calls[p].name = n
    OBVIOUS
  <1> QED BY <1>1, Zenon DEF Atomic!Publish, Calls

(* A step of the service is one of the atomic service if it takes a project *)
(* and a call from one state to another as one of its actions does.        *)
LEMMA Stutters ==
  ASSUME NEW p \in Procs, CallBecomes(p, Calls[p]), Stays
  PROVE  UNCHANGED <<Published, Calls>>
  BY DEF CallBecomes, Calls, Published, Stays

(* What p publishes, and what the mutexes tell about it.                   *)
LEMMA PublishedIs ==
  ASSUME TypeOK, NEW n \in Names
  PROVE  /\ Published[n] = IF rows[n] = "ready" THEN secret[n] ELSE NoPw
         /\ \A w : UNCHANGED rows /\ rows[n] # "ready" /\ secret' = [secret EXCEPT ![n] = w]
                     => UNCHANGED Published
         /\ \A w : UNCHANGED rows /\ rows[n] = "ready" /\ secret' = [secret EXCEPT ![n] = w]
                     => Published' = [Published EXCEPT ![n] = w]
         /\ \A s : UNCHANGED secret /\ s # "ready" /\ Published[n] = NoPw /\ rows' = [rows EXCEPT ![n] = s]
                     => UNCHANGED Published
         /\ UNCHANGED secret /\ rows' = [rows EXCEPT ![n] = "ready"]
                     => Published' = [Published EXCEPT ![n] = secret[n]]
  BY DEF TypeOK, Published

\* A step of the atomic service.
Atomically == Atomic!Next \/ UNCHANGED <<Published, Calls>>

(* The steps of Create take effect at the update to ready, or at the lookup *)
(* of a project that exists.                                               *)
LEMMA CreateRefines ==
  ASSUME Faults = {}, QuietInv, NEW p \in Procs, CreateStep(p)
  PROVE  Atomically
  <1> DEFINE n == Name(p)
             w == req[p].pw
  <1>1. /\ TypeOK /\ n \in Names /\ RowInv(p) /\ CreateInv(p)
        /\ req[p].reply = "none" /\ w \in MaybePassword
    <2>1. TypeOK /\ RowInv(p) /\ CreateInv(p) /\ Smooth(req[p]) /\ req[p].at \in CreateLabels
      BY CreateQuiet DEF QuietInv, SmoothInv, IInv, ControlInv, RowFor, ResourceFor, At, Making, CreateLabels
    <2> QED BY <2>1, RequestFields DEF TypeOK, Smooth, Critical, RotateLabels, DeleteLabels, CreateLabels, Name
  <1>2. ASSUME NEW l, NEW v, NEW a, Passes(p, l, v, a)
        PROVE  /\ req'[p].at = l /\ req'[p].name = n /\ req'[p].reply = a
               /\ CallBecomes(p, CallOf(req'[p])) /\ Calls[p] = CallOf(req[p])
    BY <1>2, CallNext, CallsAre DEF Passes, Becomes, Name
  <1>3. CASE At(p, "c_get") /\ rows[n] = "ready" /\ Stays /\ Passes(p, "audit", w, "existing")
    <2>1. /\ Calls[p] = [op |-> "create", name |-> n, reply |-> "none"]
          /\ CallBecomes(p, [op |-> "done", name |-> n, reply |-> "existing"])
      BY <1>1, <1>2, <1>3, CallIs DEF At, Name
    <2>2. Atomic!Done(p, "existing")
      BY <2>1, CallDone
    <2>3. Published[n] # NoPw /\ UNCHANGED Published
      <3>1. Serves(n)
        BY <1>3, CompleteProject DEF InCritical, Critical, CreateLabels, DeleteLabels, At
      <3> QED BY <1>1, <1>3, <3>1 DEF Serves, Published, Stays
    <2>4. Atomic!Create(p)
      BY <2>1, <2>2, <2>3 DEF Atomic!Create, Atomic!Called, Atomic!Exists, Calls
    <2> QED BY <2>4 DEF Atomically, Atomic!Next
  <1>4. CASE At(p, "c_get") /\ rows[n] = "none" /\ Stays /\ Passes(p, "c_insert", w, "none")
    <2>1. CallBecomes(p, Calls[p])
      BY <1>1, <1>2, <1>4, CallIs DEF At, Name
    <2> QED BY <1>4, <2>1, Stutters DEF Atomically
  <1>5. ASSUME At(p, "c_insert"), rows' = [rows EXCEPT ![n] = "pending"], UNCHANGED secret,
               NEW v \in Passwords, Passes(p, "c_db", v, "none")
        PROVE  Atomically
    <2>1. CallBecomes(p, Calls[p])
      BY <1>1, <1>2, <1>5, CallIs DEF At, Name, Making
    <2>2. UNCHANGED Published
      BY <1>1, <1>5, PublishedIs DEF RowInv
    <2> QED BY <2>1, <2>2 DEF Atomically, CallBecomes, Calls
  <1>6. ASSUME req[p].at \in Making \ {"c_ready"}, UNCHANGED rows,
               secret' = secret \/ secret' = [secret EXCEPT ![n] = w],
               NEW l \in Making, Passes(p, l, w, "none")
        PROVE  Atomically
    <2>1. CallBecomes(p, Calls[p])
      BY <1>1, <1>2, <1>6, CallIs DEF Name
    <2>2. rows[n] # "ready"
      BY <1>1, <1>6 DEF RowInv, Making, CreateLabels
    <2>3. UNCHANGED Published
      BY <1>1, <1>6, <2>2, PublishedIs DEF Published
    <2> QED BY <2>1, <2>3 DEF Atomically, CallBecomes, Calls
  <1>7. CASE /\ At(p, "c_ready") /\ rows' = [rows EXCEPT ![n] = "ready"] /\ UNCHANGED secret
             /\ Passes(p, "c_final", w, "none")
    <2>1. /\ Calls[p] = [op |-> "create", name |-> n, reply |-> "none"]
          /\ CallBecomes(p, [op |-> "done", name |-> n, reply |-> "created"])
      BY <1>1, <1>2, <1>7, CallIs DEF At, Name, Making
    <2>2. Atomic!Done(p, "created")
      BY <2>1, CallDone
    <2>3. Published[n] = NoPw /\ w \in Passwords /\ Published' = [Published EXCEPT ![n] = w]
      BY <1>1, <1>7, PublishedIs DEF RowInv, CreateInv, After, At, CreateLabels, MaybePassword, Name
    <2>4. Atomic!Publish(p, w)
      BY <2>1, <2>3, Publishes
    <2>5. Atomic!Create(p)
      BY <2>1, <2>2, <2>3, <2>4 DEF Atomic!Create, Atomic!Called, Atomic!Exists, Calls
    <2> QED BY <2>5 DEF Atomically, Atomic!Next
  <1>8. CASE At(p, "c_final") /\ Stays /\ Passes(p, "audit", w, "created")
    <2>1. CallBecomes(p, Calls[p])
      BY <1>1, <1>2, <1>8, CallIs DEF At, Name
    <2> QED BY <1>8, <2>1, Stutters DEF Atomically
  <1> QED BY <1>3, <1>4, <1>5, <1>6, <1>7, <1>8, CreateQuiet

(* The steps of Rotate take effect when the secret file is written, or at   *)
(* the lookup of a project that does not exist.                            *)
LEMMA RotateRefines ==
  ASSUME Faults = {}, QuietInv, NEW p \in Procs, RotateStep(p)
  PROVE  Atomically
  <1> DEFINE n == Name(p)
             w == req[p].pw
  <1>1. /\ TypeOK /\ n \in Names /\ RowInv(p) /\ FlowInv(p) /\ Reliable(req[p])
        /\ req[p].at # "r_final" => req[p].reply = "none"
        /\ w \in MaybePassword /\ req[p].at \in RotateLabels
    <2>1. /\ TypeOK /\ RowInv(p) /\ FlowInv(p) /\ Smooth(req[p]) /\ Reliable(req[p])
          /\ req[p].at \in RotateLabels
      BY RotateQuiet DEF QuietInv, SmoothInv, ReliableInv, IInv, ControlInv, RowFor, At, RotateLabels
    <2> QED BY <2>1, RequestFields DEF TypeOK, Smooth, Critical, RotateLabels, Name
  <1>2. ASSUME NEW l, NEW v, NEW a, Passes(p, l, v, a)
        PROVE  /\ req'[p].at = l /\ req'[p].name = n /\ req'[p].reply = a
               /\ CallBecomes(p, CallOf(req'[p])) /\ Calls[p] = CallOf(req[p])
    BY <1>2, CallNext, CallsAre DEF Passes, Becomes, Name
  <1>3. ASSUME At(p, "r_get"), Stays, NEW v \in Passwords, Passes(p, "r_alter", v, "none")
        PROVE  Atomically
    <2>1. CallBecomes(p, Calls[p])
      BY <1>1, <1>2, <1>3, CallIs DEF At, Name
    <2> QED BY <1>3, <2>1, Stutters DEF Atomically
  <1>4. CASE At(p, "r_get") /\ rows[n] = "none" /\ Stays /\ Passes(p, "audit", w, "notfound")
    <2>1. /\ Calls[p] = [op |-> "rotate", name |-> n, reply |-> "none"]
          /\ CallBecomes(p, [op |-> "done", name |-> n, reply |-> "notfound"])
      BY <1>1, <1>2, <1>4, CallIs DEF At, Name
    <2>2. Atomic!Done(p, "notfound") /\ Published[n] = NoPw /\ UNCHANGED Published
      BY <1>1, <1>4, <2>1, CallDone DEF Published, Stays
    <2>3. Atomic!NotFound(p)
      BY <2>1, <2>2 DEF Atomic!NotFound, Atomic!Exists, Calls
    <2> QED BY <2>3 DEF Atomically, Atomic!Next
  <1>5. ASSUME At(p, "r_alter"), Stays, NEW l \in {"r_alter", "r_secret"}, Passes(p, l, w, "none")
        PROVE  Atomically
    <2>1. CallBecomes(p, Calls[p])
      BY <1>1, <1>2, <1>5, CallIs DEF At, Name
    <2> QED BY <1>5, <2>1, Stutters DEF Atomically
  <1>6. CASE /\ At(p, "r_secret") /\ UNCHANGED rows /\ secret' = [secret EXCEPT ![n] = w]
             /\ Passes(p, "audit", w, "rotated")
    <2>1. /\ Calls[p] = [op |-> "rotate", name |-> n, reply |-> "none"]
          /\ CallBecomes(p, [op |-> "done", name |-> n, reply |-> "rotated"])
      BY <1>1, <1>2, <1>6, CallIs DEF At, Name
    <2>2. Atomic!Done(p, "rotated")
      BY <2>1, CallDone
    <2>3. rows[n] = "ready" /\ secret[n] # NoPw
      <3>1. rows[n] # "none" /\ InCritical(p)
        BY <1>1, <1>6 DEF RowInv, At, RotateLabels, InCritical, Critical
      <3> QED BY <1>6, <3>1, CompleteProject DEF Serves, At, CreateLabels
    <2>4. Published[n] # NoPw /\ w \in Passwords /\ Published' = [Published EXCEPT ![n] = w]
      BY <1>1, <1>6, <2>3, PublishedIs DEF Reliable, At, MaybePassword
    <2>5. Atomic!Publish(p, w)
      BY <2>1, <2>4, Publishes
    <2>6. Atomic!Rotate(p)
      BY <2>1, <2>2, <2>4, <2>5 DEF Atomic!Rotate, Atomic!Called, Atomic!Exists, Calls
    <2> QED BY <2>6 DEF Atomically, Atomic!Next
  <1>7. CASE At(p, "r_final") /\ Stays /\ Passes(p, "fin", w, "rotated")
    <2>1. CallBecomes(p, Calls[p])
      BY <1>1, <1>2, <1>7, CallIs DEF At, Name, FlowInv
    <2> QED BY <1>7, <2>1, Stutters DEF Atomically
  <1> QED BY <1>3, <1>4, <1>5, <1>6, <1>7, RotateQuiet

(* The steps of Delete take effect when the secret file is removed, or at   *)
(* the lookup of a project that does not exist.                            *)
LEMMA DeleteRefines ==
  ASSUME Faults = {}, QuietInv, NEW p \in Procs, DeleteStep(p)
  PROVE  Atomically
  <1> DEFINE n == Name(p)
             w == req[p].pw
  <1>1. /\ TypeOK /\ n \in Names /\ RowInv(p) /\ DeleteInv(p) /\ SecretFor(p) /\ Smooth(req[p])
        /\ req[p].reply = "none" /\ req[p].at \in DeleteLabels
    <2>1. /\ TypeOK /\ RowInv(p) /\ DeleteInv(p) /\ Smooth(req[p]) /\ SecretFor(p)
          /\ req[p].at \in DeleteLabels
      BY DeleteQuiet DEF QuietInv, SmoothInv, IInv, ControlInv, RowFor, ResourceFor, At, DeleteLabels
    <2> QED BY <2>1 DEF TypeOK, Smooth, Critical, RotateLabels, DeleteLabels, Name
  <1>2. ASSUME NEW l, NEW v, NEW a, Passes(p, l, v, a)
        PROVE  /\ req'[p].at = l /\ req'[p].name = n /\ req'[p].reply = a
               /\ CallBecomes(p, CallOf(req'[p])) /\ Calls[p] = CallOf(req[p])
    BY <1>2, CallNext, CallsAre DEF Passes, Becomes, Name
  <1>3. ASSUME req[p].at \in {"d_get", "d_db", "d_user"}, Stays, NEW l \in {"d_db", "d_user", "d_secret"},
               Passes(p, l, w, "none")
        PROVE  Atomically
    <2>1. CallBecomes(p, Calls[p])
      BY <1>1, <1>2, <1>3, CallIs DEF Name
    <2> QED BY <1>3, <2>1, Stutters DEF Atomically
  <1>4. CASE At(p, "d_get") /\ rows[n] = "none" /\ Stays /\ Passes(p, "audit", w, "notfound")
    <2>1. /\ Calls[p] = [op |-> "delete", name |-> n, reply |-> "none"]
          /\ CallBecomes(p, [op |-> "done", name |-> n, reply |-> "notfound"])
      BY <1>1, <1>2, <1>4, CallIs DEF At, Name
    <2>2. Atomic!Done(p, "notfound") /\ Published[n] = NoPw /\ UNCHANGED Published
      BY <1>1, <1>4, <2>1, CallDone DEF Published, Stays
    <2>3. Atomic!NotFound(p)
      BY <2>1, <2>2 DEF Atomic!NotFound, Atomic!Exists, Calls
    <2> QED BY <2>3 DEF Atomically, Atomic!Next
  <1>5. CASE /\ At(p, "d_secret") /\ UNCHANGED rows /\ secret' = [secret EXCEPT ![n] = NoPw]
             /\ Passes(p, "d_row", w, "none")
    <2>1. /\ Calls[p] = [op |-> "delete", name |-> n, reply |-> "none"]
          /\ CallBecomes(p, [op |-> "done", name |-> n, reply |-> "deleted"])
      BY <1>1, <1>2, <1>5, CallIs DEF At, Name
    <2>2. Atomic!Done(p, "deleted")
      BY <2>1, CallDone
    <2>3. rows[n] = "ready" /\ secret[n] # NoPw
      <3>1. rows[n] # "none" /\ InCritical(p) /\ secret[n] # NoPw
        BY <1>1, <1>5 DEF RowInv, SecretFor, At, DeleteLabels, InCritical, Critical
      <3> QED BY <1>5, <3>1, SettledRow DEF At, CreateLabels
    <2>4. Published[n] # NoPw /\ Published' = [Published EXCEPT ![n] = NoPw]
      BY <1>1, <1>5, <2>3, PublishedIs
    <2>5. Atomic!Publish(p, NoPw)
      BY <2>1, <2>4, Publishes
    <2>6. Atomic!Delete(p)
      BY <2>1, <2>2, <2>4, <2>5 DEF Atomic!Delete, Atomic!Called, Atomic!Exists, Calls
    <2> QED BY <2>6 DEF Atomically, Atomic!Next
  <1>6. CASE /\ At(p, "d_row") /\ rows' = [rows EXCEPT ![n] = "none"] /\ UNCHANGED secret
             /\ Passes(p, "audit", w, "deleted")
    <2>1. CallBecomes(p, Calls[p])
      BY <1>1, <1>2, <1>6, CallIs DEF At, Name
    <2>2. secret[n] = NoPw
      BY <1>1, <1>6 DEF DeleteInv, Removed, Smooth, At
    <2>3. UNCHANGED Published
      BY <1>1, <1>6, <2>2, PublishedIs
    <2> QED BY <2>1, <2>3 DEF Atomically, CallBecomes, Calls
  <1> QED BY <1>3, <1>4, <1>5, <1>6, DeleteQuiet DEF At

(* Get shows a project that is published, or that another request is       *)
(* creating or deleting.                                                   *)
LEMMA GetRefines ==
  ASSUME QuietInv, NEW p \in Procs, At(p, "g_get"), rows[Name(p)] # "none", Stays,
         Passes(p, "fin", req[p].pw, "shown")
  PROVE  Atomically
  <1> DEFINE n == Name(p)
  <1>1. n \in Names /\ StatusFor(n) /\ ReadyFor(n) /\ Smooth(req[p])
    BY DEF QuietInv, SmoothInv, ReadyInv, IInv, ControlInv, TypeOK, At, Name
  <1>2. /\ Calls[p] = [op |-> "get", name |-> n, reply |-> "none"]
        /\ CallBecomes(p, [op |-> "done", name |-> n, reply |-> "shown"])
    BY <1>1, CallIs, CallNext, CallsAre DEF Passes, Becomes, Name, At, Smooth
  <1>3. Atomic!Done(p, "shown") /\ UNCHANGED Published
    BY <1>2, CallDone DEF Stays, Published
  <1>4. Published[n] # NoPw \/ BeingCreated(n) \/ BeingDeleted(n)
    BY <1>1 DEF StatusFor, ReadyFor, Serves, Published
  <1>5. BeingCreated(n) \/ BeingDeleted(n) => Atomic!InProgress(n, p)
    <2>1. SUFFICES ASSUME NEW q \in Procs, Name(q) = n,
                          req[q].at \in (CreateLabels \ {"c_get", "c_insert", "c_final"})
                                        \cup {"d_user", "d_secret", "d_row"}
                   PROVE  Atomic!InProgress(n, p)
      BY DEF BeingCreated, BeingDeleted
    <2>2. /\ req[q].at \in Making \cup {"d_user", "d_secret", "d_row"}
          /\ req[q].reply = "none" /\ q # p
      BY <2>1 DEF QuietInv, SmoothInv, Smooth, Making, CreateLabels, Critical, DeleteLabels, RotateLabels, At
    <2>3. Calls[q].name = n /\ Calls[q].op \in {"create", "delete", "done"}
      BY <2>1, <2>2, CallIs, CallsAre DEF Name
    <2> QED BY <2>2, <2>3 DEF Atomic!InProgress, Calls
  <1>6. Atomic!Get(p)
    BY <1>2, <1>3, <1>4, <1>5 DEF Atomic!Get, Atomic!Called, Atomic!Exists, Calls
  <1> QED BY <1>6 DEF Atomically, Atomic!Next

(* The steps that begin and end a request are the call and the return of    *)
(* the atomic service; a Delete without a confirmation is no call.         *)
LEMMA OuterRefines ==
  ASSUME Faults = {}, QuietInv, NEW p \in Procs, Start(p) \/ Lock(p) \/ Get(p) \/ Finish(p)
  PROVE  Atomically
  <1> DEFINE n == Name(p)
             w == req[p].pw
             a == req[p].reply
  <1>1. Stays /\ Smooth(req[p]) /\ TypeOK
    BY OuterQuiet DEF QuietInv, SmoothInv, IInv, ControlInv
  <1>2. UNCHANGED Published
    BY <1>1 DEF Published, Stays
  <1>3. ASSUME NEW l, NEW v, NEW b, Passes(p, l, v, b)
        PROVE  /\ req'[p].at = l /\ req'[p].name = n /\ req'[p].reply = b
               /\ CallBecomes(p, CallOf(req'[p])) /\ Calls[p] = CallOf(req[p])
    BY <1>3, CallNext, CallsAre DEF Passes, Becomes, Name
  <1>4. ASSUME NEW l, NEW m, NEW b, Begins(p, l, m, b)
        PROVE  /\ req'[p].at = l /\ req'[p].name = m /\ req'[p].reply = b
               /\ CallBecomes(p, CallOf(req'[p])) /\ Calls[p] = CallOf(req[p])
    BY <1>4, CallNext, CallsAre DEF Begins
  <1>5. CallBecomes(p, Calls[p]) => Atomically
    BY <1>1, Stutters DEF Atomically
  <1>6. ASSUME At(p, "idle"), NEW l \in {"c_store", "r_io", "d_io", "g_get"}, NEW m \in Names,
               Begins(p, l, m, "none")
        PROVE  Atomically
    <2>1. Calls[p] = Atomic!NoCall
      BY <1>4, <1>6, CallIs DEF At
    <2>2. PICK op \in {"create", "rotate", "delete", "get"} :
             CallBecomes(p, [op |-> op, name |-> m, reply |-> "none"])
      BY <1>4, <1>6, CallIs
    <2>3. Calls[p].op = "none"
      BY <2>1 DEF Atomic!NoCall
    <2>4. Atomic!Invoke(p)
      BY <1>2, <2>2, <2>3, Zenon DEF Atomic!Invoke, Atomic!Called, CallBecomes, Calls
    <2> QED BY <2>4 DEF Atomically, Atomic!Next
  <1>7. ASSUME At(p, "idle"), NEW m \in Names, Begins(p, "audit", m, "unconfirmed")
        PROVE  Atomically
    BY <1>4, <1>5, <1>7, CallIs DEF At
  <1>8. ASSUME NEW l \in Labels, <<req[p].at, l>> \in Locking, Passes(p, l, w, a)
        PROVE  Atomically
    BY <1>1, <1>3, <1>5, <1>8, CallIs DEF Locking, Smooth, Name
  <1>9. CASE At(p, "g_get") /\ rows[n] # "none" /\ Passes(p, "fin", w, "shown")
    BY <1>1, <1>9, GetRefines
  <1>10. CASE At(p, "g_get") /\ rows[n] = "none" /\ Passes(p, "audit", w, "notfound")
    <2>1. /\ Calls[p] = [op |-> "get", name |-> n, reply |-> "none"]
          /\ CallBecomes(p, [op |-> "done", name |-> n, reply |-> "notfound"])
      BY <1>1, <1>3, <1>10, CallIs DEF At, Name, Smooth
    <2>2. Atomic!Done(p, "notfound") /\ Published[n] = NoPw
      BY <1>1, <1>10, <2>1, CallDone DEF Published, TypeOK, At, Name
    <2>3. Atomic!NotFound(p)
      BY <1>2, <2>1, <2>2 DEF Atomic!NotFound, Atomic!Exists, Calls
    <2> QED BY <2>3 DEF Atomically, Atomic!Next
  <1>11. CASE At(p, "audit") /\ Passes(p, IF a = "rotated" THEN "r_final" ELSE "fin", w, a)
    BY <1>3, <1>5, <1>11, CallIs DEF At, Name
  <1>12. ASSUME At(p, "fin"), NEW l \in {"idle", "c_unlock"}, NEW m, Begins(p, l, m, "none")
         PROVE  Atomically
    <2>1. CallBecomes(p, Atomic!NoCall)
      BY <1>4, <1>12, CallIs
    <2>2. CASE a = "unconfirmed"
      BY <1>4, <1>5, <1>12, <2>1, <2>2, CallIs
    <2>3. CASE a # "unconfirmed"
      <3>1. Calls[p].op = "done"
        BY <1>4, <1>12, <2>3, CallIs DEF At
      <3>2. Atomic!Return(p)
        BY <1>2, <2>1, <3>1, Zenon DEF Atomic!Return, Atomic!Called, CallBecomes, Calls
      <3> QED BY <3>2 DEF Atomically, Atomic!Next
    <2> QED BY <2>2, <2>3
  <1>13. CASE At(p, "c_unlock") /\ Begins(p, "idle", NoName, "none")
    BY <1>4, <1>5, <1>13, CallIs DEF At
  <1> QED BY <1>6, <1>7, <1>8, <1>9, <1>10, <1>11, <1>12, <1>13, OuterQuiet

(* Every step is one of the atomic service or none.                        *)
LEMMA AtomicStep ==
  ASSUME Faults = {}
  PROVE  QuietInv /\ [Next]_vars => [Atomic!Next]_<<Published, Calls>>
  <1> SUFFICES ASSUME QuietInv, [Next]_vars PROVE Atomically
    BY DEF Atomically
  <1>1. UNCHANGED vars => UNCHANGED <<Published, Calls>>
    BY DEF vars, disk, Published, Calls, AtomicCall, Operation, At
  <1>2. ASSUME NEW p \in Procs, Start(p) \/ Lock(p) \/ Run(p) PROVE Atomically
    BY <1>2, CreateRefines, RotateRefines, DeleteRefines, OuterRefines DEF Run
  <1>3. ~Crash
    BY DEF Crash
  <1> QED BY <1>1, <1>2, <1>3 DEF Next, Atomically

(* Without faults the service implements AtomicService, for any number of   *)
(* names, requests and passwords: Create, Rotate and Delete each take       *)
(* effect at one moment between their call and their answer                 *)
(* (service.go:80-263), and Get (service.go:68) shows a project only when   *)
(* it exists or when another request is creating or deleting it.           *)
THEOREM ServiceIsAtomic ==
  ASSUME Injective, Faults = {} PROVE Spec => ImplementsAtomicService
  <1>1. Init => QuietInv
    <2> SUFFICES ASSUME Init PROVE QuietInv
      OBVIOUS
    <2>1. IInv
      BY ResourceInit
    <2>2. ReliableInv /\ ReadyInv
      BY DEF Init, Idle, ReliableInv, Reliable, ReadyInv, ReadyFor
    <2>3. SmoothInv
      BY DEF Init, Idle, SmoothInv, Smooth, SecretFor, StatusFor, Critical, CreateLabels, RotateLabels, DeleteLabels
    <2> QED BY <2>1, <2>2, <2>3 DEF QuietInv
  <1>2. QuietInv /\ [Next]_vars => QuietInv'
    BY SmoothNext
  <1>3. Init => Atomic!Init
    <2> SUFFICES ASSUME Init PROVE Atomic!Init
      OBVIOUS
    <2>1. \A p \in Procs : AtomicCall(p) = Atomic!NoCall
      BY DEF Init, Idle, AtomicCall, Atomic!NoCall
    <2> QED BY <2>1 DEF Init, Atomic!Init, Published
  <1>4. QuietInv /\ [Next]_vars => [Atomic!Next]_(Atomic!vars)
    BY AtomicStep DEF Atomic!vars, Calls
  <1> QED BY <1>1, <1>2, <1>3, <1>4, PTL DEF Spec, ImplementsAtomicService, Atomic!Spec
==============================================================================
