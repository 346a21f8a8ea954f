----------------------------- MODULE Provision -----------------------------
(***************************************************************************)
(* internal/provision/service.go: Create, Rotate, Delete and Get, executed *)
(* by concurrent HTTP handlers over the SQLite metadata (internal/store),  *)
(* MySQL (internal/mysqlx) and the secret files (internal/secrets).        *)
(* One action is one call to a store, one SQL statement, one file          *)
(* operation or one mutex operation, in the order of the code.             *)
(***************************************************************************)
EXTENDS MySQL

CONSTANTS
    Names,      \* project names
    NoName,
    SafeOf,     \* SafeOf[n]: n's identifier ("-" becomes "_": not injective)
    Procs,      \* concurrent requests, one goroutine each
    NoProc,
    Faults      \* what may go wrong: a subset of FaultKinds

FaultKinds == {"mysql", "sqlite", "file", "cancel", "crash"}

ASSUME ProvisionAssumption ==
    /\ SafeOf \in [Names -> Ids]
    /\ NoName \notin Names
    /\ NoProc \notin Procs
    /\ NoPw \notin Passwords
    /\ Faults \subseteq FaultKinds

VARIABLES
    rows,       \* rows[n]: status of n's row in database_projects, or "none"
    secret,     \* secret[n]: the password in n's env file, or NoPw
    storeLock,  \* Store.creating: holder of LockCreate(n)
    ioLock,     \* Service.inflight: holder of lock(n)
    req,        \* req[p]: the request p serves: its program point and locals
    leaked      \* history: names whose row a Delete removed although an
                \* earlier step of that Delete had failed, told or not

locks == <<storeLock, ioLock>>
disk  == <<rows, secret, leaked>>
vars  == <<mysqlVars, disk, locks, req>>

----------------------------------------------------------------------------
(* Types.                                                                  *)

CreateLabels ==
    {"c_get", "c_insert", "c_db", "c_user", "c_grant", "c_flush", "c_secret",
     "c_ready", "c_final", "rb_user", "rb_db", "c_mark"}
RotateLabels == {"r_get", "r_alter", "r_secret", "r_final"}
DeleteLabels == {"d_get", "d_db", "d_user", "d_secret", "d_row"}

\* The program points at which the per-name mutex is held for sure.
Critical == CreateLabels \cup RotateLabels \cup DeleteLabels

Labels == Critical \cup {"idle", "c_store", "c_io", "r_io", "d_io", "g_get",
                         "audit", "fin", "c_unlock"}

Replies == {"none", "created", "existing", "refused", "rotated", "deleted",
            "partial", "unconfirmed", "shown", "notfound", "error"}

Statuses == {"none", "pending", "ready", "error"}

Request ==
    [at      : Labels,
     name    : Names \cup {NoName},
     host    : Hosts,           \* loop index of the provisioner's methods
     pw      : MaybePassword,   \* the generated password
     live    : BOOLEAN,         \* r.Context() is not cancelled
     partial : BOOLEAN,         \* Delete's list of failures is not empty
     reply   : Replies,
     logged  : BOOLEAN]         \* history: the audit entry was stored

Idle == [at |-> "idle", name |-> NoName, host |-> 1, pw |-> NoPw,
         live |-> TRUE, partial |-> FALSE, reply |-> "none", logged |-> FALSE]

TypeOK ==
    /\ MySQLTypeOK
    /\ rows \in [Names -> Statuses]
    /\ secret \in [Names -> MaybePassword]
    /\ storeLock \in [Names -> Procs \cup {NoProc}]
    /\ ioLock \in [Names -> Procs \cup {NoProc}]
    /\ req \in [Procs -> Request]
    /\ \A p \in Procs : req[p].at # "idle" => req[p].name \in Names
    /\ leaked \subseteq Names

Init ==
    /\ MySQLInit
    /\ rows = [n \in Names |-> "none"]
    /\ secret = [n \in Names |-> NoPw]
    /\ storeLock = [n \in Names |-> NoProc]
    /\ ioLock = [n \in Names |-> NoProc]
    /\ req = [p \in Procs |-> Idle]
    /\ leaked = {}

----------------------------------------------------------------------------
(* Control flow of one request.                                            *)

At(p, l) == req[p].at = l
Name(p)  == req[p].name
Id(p)    == SafeOf[req[p].name]

Move(p, r) == req' = [req EXCEPT ![p] = r]

Goto(p, l) == [req[p] EXCEPT !.at = l, !.host = 1]

Answer(p, l, reply) == [Goto(p, l) EXCEPT !.reply = reply]

\* Variant: the loop runs once too often.
NextHostOffByOne(p, l) ==
    IF req[p].host <= 2 THEN [req[p] EXCEPT !.host = @ + 1] ELSE Goto(p, l)

\* for _, host := range hosts: repeat the step for the second host.
NextHost(p, l) ==
    IF req[p].host = 1 THEN [req[p] EXCEPT !.host = 2] ELSE Goto(p, l)

\* A step that touches nothing but the request itself.
Silent(p, r) == Move(p, r) /\ UNCHANGED <<mysqlVars, disk, locks>>

(* The ways in which a call that takes the request's context fails and      *)
(* continues as r: the context is cancelled already, it is cancelled during *)
(* the call (the client disconnects or times out), or the server errs.      *)
Failing(p, kind, r) ==
    {x \in {r, [r EXCEPT !.live = FALSE]} :
        \/ ~req[p].live
        \/ x.live /\ kind \in Faults
        \/ ~x.live /\ "cancel" \in Faults}

(* A call with the request's context returns: its effect is done and no     *)
(* error is seen, or there is an error, and an error that comes up during   *)
(* the call leaves open whether the effect took place.                      *)
Returns(p, kind, done, ok, err) ==
    \/ done /\ Move(p, ok)
    \/ \E r \in Failing(p, kind, err) : Move(p, r)

MySQLCall(p, stmt, ok, err) ==
    \E done \in BOOLEAN :
        /\ Returns(p, "mysql", done, ok, err)
        /\ IF done THEN req[p].live /\ stmt ELSE UNCHANGED mysqlVars
        /\ UNCHANGED <<disk, locks>>

\* MySQL refuses ALTER USER and GRANT for an account that does not exist.
Refused(p, err) ==
    /\ req[p].live
    /\ ~HasAccount(Id(p), req[p].host)
    /\ Silent(p, err)

StoreCall(p, write, ok, err) ==
    \E done \in BOOLEAN :
        /\ Returns(p, "sqlite", done, ok, err)
        /\ IF done THEN req[p].live /\ write ELSE UNCHANGED <<rows, leaked>>
        /\ UNCHANGED <<mysqlVars, secret, locks>>

\* A file operation ignores the context; one that fails changes nothing.
FileCall(p, effect, ok, err) ==
    /\ \/ effect /\ Move(p, ok)
       \/ "file" \in Faults /\ UNCHANGED secret /\ Move(p, err)
    /\ UNCHANGED <<mysqlVars, rows, leaked, locks>>

\* GetProject finds no answer: no audit entry, the error is returned.
LookupFails(p) ==
    \E r \in Failing(p, "sqlite", Answer(p, "fin", "error")) : Silent(p, r)

NotFound(p) ==
    req[p].live /\ rows[Name(p)] = "none" /\ Silent(p, Answer(p, "audit", "notfound"))

Found(p) == req[p].live /\ rows[Name(p)] # "none"

----------------------------------------------------------------------------
(* The metadata store and the secret directory.                            *)

\* INSERT ... 'pending'. The UNIQUE constraint never strikes: InsertIsFresh.
CreateProject(n) ==
    rows' = [rows EXCEPT ![n] = "pending"] /\ UNCHANGED leaked

\* UPDATE ... WHERE name = ?: no row, no effect.
UpdateProjectStatus(n, status) ==
    /\ rows' = [rows EXCEPT ![n] = IF @ = "none" THEN @ ELSE status]
    /\ UNCHANGED leaked

(* DELETE FROM database_projects; leaked remembers what Delete left behind, *)
(* from here on: the answer and the audit entry, which say so, come later  *)
(* and may not come at all.                                                *)
DeleteProject(n, partial) ==
    /\ rows' = [rows EXCEPT ![n] = "none"]
    /\ leaked' = IF partial THEN leaked \cup {n} ELSE leaked \ {n}

\* secrets.Write replaces the file in one rename; secrets.Delete removes it.
SetSecret(n, w) == secret' = [secret EXCEPT ![n] = w]

----------------------------------------------------------------------------
(* A request arrives; it may be refused before any lock is taken.          *)

Begin(p, l, reply) ==
    \E n \in Names :
        /\ At(p, "idle")
        /\ Silent(p, [Idle EXCEPT !.at = l, !.name = n, !.reply = reply])

BeginCreate(p) == Begin(p, "c_store", "none")
BeginRotate(p) == Begin(p, "r_io", "none")
BeginDelete(p) == Begin(p, "d_io", "none")
BeginGet(p)    == Begin(p, "g_get", "none")

\* Delete without a confirmation equal to the name.
BeginUnconfirmed(p) == Begin(p, "audit", "unconfirmed")

\* Store.LockCreate: only Create takes this mutex, before the next one.
LockCreate(p) ==
    /\ At(p, "c_store")
    /\ storeLock[Name(p)] = NoProc
    /\ storeLock' = [storeLock EXCEPT ![Name(p)] = p]
    /\ Move(p, Goto(p, "c_io"))
    /\ UNCHANGED <<mysqlVars, disk, ioLock>>

AfterLock == [c_io |-> "c_get", r_io |-> "r_get", d_io |-> "d_get"]

\* Variants: the mutex is never waited for, by nobody or only by Create, or
\* waiting for the mutex of any name is enough.
TakeName(p) ==
    /\ req[p].at \in DOMAIN AfterLock
    /\ ioLock' = [ioLock EXCEPT ![Name(p)] = p]
    /\ Move(p, Goto(p, AfterLock[req[p].at]))
    /\ UNCHANGED <<mysqlVars, disk, storeLock>>

TakeNameUnlessCreate(p) ==
    (At(p, "c_io") => ioLock[Name(p)] = NoProc) /\ TakeName(p)

TakeNameIfAnyIsFree(p) ==
    (\E n \in Names : ioLock[n] = NoProc) /\ TakeName(p)

\* Service.lock: the per-name mutex of Create, Rotate and Delete.
LockName(p) ==
    /\ req[p].at \in DOMAIN AfterLock
    /\ ioLock[Name(p)] = NoProc
    /\ ioLock' = [ioLock EXCEPT ![Name(p)] = p]
    /\ Move(p, Goto(p, AfterLock[req[p].at]))
    /\ UNCHANGED <<mysqlVars, disk, storeLock>>

----------------------------------------------------------------------------
(* Service.Create                                                          *)

\* Variant: a create that failed may be tried again.
CreateLookupAgain(p) ==
    /\ At(p, "c_get")
    /\ \/ Found(p) /\ rows[Name(p)] = "ready"
                   /\ Silent(p, Answer(p, "audit", "existing"))
       \/ Found(p) /\ rows[Name(p)] = "pending"
                   /\ Silent(p, Answer(p, "fin", "refused"))
       \/ /\ req[p].live /\ rows[Name(p)] \in {"none", "error"}
          /\ Silent(p, Goto(p, "c_insert"))
       \/ LookupFails(p)

CreateLookup(p) ==
    /\ At(p, "c_get")
    /\ \/ Found(p) /\ rows[Name(p)] = "ready"
                   /\ Silent(p, Answer(p, "audit", "existing"))
       \/ Found(p) /\ rows[Name(p)] # "ready"
                   /\ Silent(p, Answer(p, "fin", "refused"))
       \/ /\ req[p].live /\ rows[Name(p)] = "none"
          /\ Silent(p, Goto(p, "c_insert"))
       \/ LookupFails(p)

(* The password is drawn once the row is in. RandomPassword has no error to *)
(* return: since Go 1.24 crypto/rand.Read aborts the process instead.       *)

\* Variant: Create goes on when the INSERT fails.
CreateInsertUnchecked(p) ==
    /\ At(p, "c_insert")
    /\ \E w \in Passwords :
          StoreCall(p, CreateProject(Name(p)),
                    [Goto(p, "c_db") EXCEPT !.pw = w], [Goto(p, "c_db") EXCEPT !.pw = w])

CreateInsert(p) ==
    /\ At(p, "c_insert")
    /\ \E w \in Passwords :
          StoreCall(p, CreateProject(Name(p)),
                    [Goto(p, "c_db") EXCEPT !.pw = w],
                    Answer(p, "audit", "error"))

EnsureDatabase(p) ==
    /\ At(p, "c_db")
    /\ MySQLCall(p, CreateDatabase(Id(p)),
                 Goto(p, "c_user"), Answer(p, "c_mark", "error"))

EnsureUser(p) ==
    /\ At(p, "c_user")
    /\ MySQLCall(p, CreateUser(Id(p), req[p].host, req[p].pw),
                 NextHost(p, "c_grant"), Answer(p, "rb_db", "error"))

\* Variant: the error of GRANT is dropped.
GrantUnchecked(p) ==
    /\ At(p, "c_grant")
    /\ MySQLCall(p, Grant(Id(p), req[p].host), NextHost(p, "c_flush"), Goto(p, "c_flush"))

GrantProjectPrivileges(p) ==
    /\ At(p, "c_grant")
    /\ \/ MySQLCall(p, Grant(Id(p), req[p].host),
                    NextHost(p, "c_flush"), Answer(p, "rb_user", "error"))
       \/ Refused(p, Answer(p, "rb_user", "error"))

FlushPrivileges(p) ==
    /\ At(p, "c_flush")
    /\ MySQLCall(p, UNCHANGED mysqlVars,
                 Goto(p, "c_secret"), Answer(p, "rb_user", "error"))

\* Variant: the error of writing the file is dropped.
CreateSecretUnchecked(p) ==
    /\ At(p, "c_secret")
    /\ FileCall(p, SetSecret(Name(p), req[p].pw), Goto(p, "c_ready"), Goto(p, "c_ready"))

\* The environment file is the last resource; its failure undoes nothing.
CreateSecret(p) ==
    /\ At(p, "c_secret")
    /\ FileCall(p, SetSecret(Name(p), req[p].pw),
                Goto(p, "c_ready"), Answer(p, "c_mark", "error"))

\* Variant: the project is marked as failed when the update to ready fails.
CreateReadyMarking(p) ==
    /\ At(p, "c_ready")
    /\ StoreCall(p, UpdateProjectStatus(Name(p), "ready"),
                 Goto(p, "c_final"), Answer(p, "c_mark", "error"))

CreateReady(p) ==
    /\ At(p, "c_ready")
    /\ StoreCall(p, UpdateProjectStatus(Name(p), "ready"),
                 Goto(p, "c_final"), Answer(p, "audit", "error"))

CreateFinal(p) ==
    /\ At(p, "c_final")
    /\ StoreCall(p, UNCHANGED <<rows, leaked>>,
                 Answer(p, "audit", "created"), Answer(p, "audit", "error"))

\* Roll back: DropUser gives up at the first host that fails, no error is seen.
RollbackUser(p) ==
    /\ At(p, "rb_user")
    /\ MySQLCall(p, DropUser(Id(p), req[p].host),
                 NextHost(p, "rb_db"), Goto(p, "rb_db"))

\* Variant: the rollback begins anew until it succeeds.
RollbackDatabaseRepeated(p) ==
    /\ At(p, "rb_db")
    /\ MySQLCall(p, DropDatabase(Id(p)), Goto(p, "c_mark"), Goto(p, "rb_user"))

RollbackDatabase(p) ==
    /\ At(p, "rb_db")
    /\ MySQLCall(p, DropDatabase(Id(p)), Goto(p, "c_mark"), Goto(p, "c_mark"))

\* Variant: the return path after markError forgets auditFailure.
MarkErrorUnaudited(p) ==
    /\ At(p, "c_mark")
    /\ StoreCall(p, UpdateProjectStatus(Name(p), "error"), Goto(p, "fin"), Goto(p, "fin"))

MarkError(p) ==
    /\ At(p, "c_mark")
    /\ StoreCall(p, UpdateProjectStatus(Name(p), "error"),
                 Goto(p, "audit"), Goto(p, "audit"))

----------------------------------------------------------------------------
(* Service.Rotate                                                          *)

\* Any status will do: a project left pending or in error is rotated too.
RotateLookup(p) ==
    /\ At(p, "r_get")
    /\ \/ /\ Found(p)
          /\ \E w \in Passwords :
                Silent(p, [Goto(p, "r_alter") EXCEPT !.pw = w])
       \/ NotFound(p)
       \/ LookupFails(p)

\* Variant: only the account at the first host is altered.
SetFirstPassword(p) ==
    /\ At(p, "r_alter")
    /\ MySQLCall(p, AlterUser(Id(p), req[p].host, req[p].pw),
                 Goto(p, "r_secret"), Answer(p, "audit", "error"))

SetUserPassword(p) ==
    /\ At(p, "r_alter")
    /\ \/ MySQLCall(p, AlterUser(Id(p), req[p].host, req[p].pw),
                    NextHost(p, "r_secret"), Answer(p, "audit", "error"))
       \/ Refused(p, Answer(p, "audit", "error"))

RotateSecret(p) ==
    /\ At(p, "r_secret")
    /\ FileCall(p, SetSecret(Name(p), req[p].pw),
                Answer(p, "audit", "rotated"), Answer(p, "audit", "error"))

\* Success is audited already when the row is read for the answer.
RotateFinal(p) ==
    /\ At(p, "r_final")
    /\ StoreCall(p, UNCHANGED <<rows, leaked>>,
                 Goto(p, "fin"), Answer(p, "fin", "error"))

----------------------------------------------------------------------------
(* Service.Delete: every step is attempted, whatever became of the others. *)

DeleteLookup(p) ==
    /\ At(p, "d_get")
    /\ \/ Found(p) /\ Silent(p, Goto(p, "d_db"))
       \/ NotFound(p)
       \/ LookupFails(p)

\* Variant: the failure of a step is not noted.
PartialForgotten(p, l) == Goto(p, l)

Partial(p, l) == [Goto(p, l) EXCEPT !.partial = TRUE]

DeleteDatabase(p) ==
    /\ At(p, "d_db")
    /\ MySQLCall(p, DropDatabase(Id(p)), Goto(p, "d_user"), Partial(p, "d_user"))

DeleteUser(p) ==
    /\ At(p, "d_user")
    /\ MySQLCall(p, DropUser(Id(p), req[p].host),
                 NextHost(p, "d_secret"), Partial(p, "d_secret"))

DeleteSecret(p) ==
    /\ At(p, "d_secret")
    /\ FileCall(p, SetSecret(Name(p), NoPw), Goto(p, "d_row"), Partial(p, "d_row"))

DeleteRow(p) ==
    /\ At(p, "d_row")
    /\ StoreCall(p, DeleteProject(Name(p), req[p].partial),
                 Answer(p, "audit", IF req[p].partial THEN "partial" ELSE "deleted"),
                 [Answer(p, "audit", "partial") EXCEPT !.partial = TRUE])

----------------------------------------------------------------------------
(* Service.Get: one read, without a lock.                                  *)

Get(p) ==
    /\ At(p, "g_get")
    /\ \/ Found(p) /\ Silent(p, Answer(p, "fin", "shown"))
       \/ NotFound(p)
       \/ LookupFails(p)

----------------------------------------------------------------------------
(* The end of every request, and the end of the process.                   *)

AfterAudit(p) == Goto(p, IF req[p].reply = "rotated" THEN "r_final" ELSE "fin")

\* auditSuccess and auditFailure drop the error of Audit.Write.
Audit(p) ==
    /\ At(p, "audit")
    /\ \/ req[p].live /\ Silent(p, [AfterAudit(p) EXCEPT !.logged = TRUE])
       \/ \E r \in Failing(p, "sqlite", AfterAudit(p)), stored \in BOOLEAN :
             /\ stored => req[p].live
             /\ Silent(p, [r EXCEPT !.logged = stored])

\* Variant: the mutex of the name is freed whoever holds it.
ReturnFreeing(p) ==
    /\ At(p, "fin")
    /\ ioLock' = [ioLock EXCEPT ![Name(p)] = NoProc]
    /\ Move(p, IF storeLock[Name(p)] = p
               THEN [Idle EXCEPT !.at = "c_unlock", !.name = Name(p)]
               ELSE Idle)
    /\ UNCHANGED <<mysqlVars, disk, storeLock>>

\* defer ioLock(), then defer release(): the mutexes are freed in this order.
Return(p) ==
    /\ At(p, "fin")
    /\ ioLock' = [n \in Names |-> IF ioLock[n] = p THEN NoProc ELSE ioLock[n]]
    /\ Move(p, IF storeLock[Name(p)] = p
               THEN [Idle EXCEPT !.at = "c_unlock", !.name = Name(p)]
               ELSE Idle)
    /\ UNCHANGED <<mysqlVars, disk, storeLock>>

ReleaseCreate(p) ==
    /\ At(p, "c_unlock")
    /\ storeLock' = [storeLock EXCEPT ![Name(p)] = NoProc]
    /\ Move(p, Idle)
    /\ UNCHANGED <<mysqlVars, disk, ioLock>>

(* The server stops, killed or at the end of the 10 s that Shutdown waits   *)
(* for handlers, and is started again: the mutexes and requests are gone.   *)
Crash ==
    /\ "crash" \in Faults
    /\ \E p \in Procs : ~At(p, "idle")
    /\ req' = [p \in Procs |-> Idle]
    /\ storeLock' = [n \in Names |-> NoProc]
    /\ ioLock' = [n \in Names |-> NoProc]
    /\ UNCHANGED <<mysqlVars, disk>>

----------------------------------------------------------------------------

Start(p) == \/ BeginCreate(p) \/ BeginRotate(p) \/ BeginDelete(p)
            \/ BeginGet(p) \/ BeginUnconfirmed(p)

Lock(p) == LockCreate(p) \/ LockName(p)

CreateStep(p) ==
    \/ CreateLookup(p) \/ CreateInsert(p) \/ EnsureDatabase(p) \/ EnsureUser(p)
    \/ GrantProjectPrivileges(p) \/ FlushPrivileges(p) \/ CreateSecret(p)
    \/ CreateReady(p) \/ CreateFinal(p)
    \/ RollbackUser(p) \/ RollbackDatabase(p) \/ MarkError(p)

RotateStep(p) ==
    RotateLookup(p) \/ SetUserPassword(p) \/ RotateSecret(p) \/ RotateFinal(p)

DeleteStep(p) ==
    \/ DeleteLookup(p) \/ DeleteDatabase(p) \/ DeleteUser(p)
    \/ DeleteSecret(p) \/ DeleteRow(p)

Finish(p) == Audit(p) \/ Return(p) \/ ReleaseCreate(p)

Run(p) == CreateStep(p) \/ RotateStep(p) \/ DeleteStep(p) \/ Get(p) \/ Finish(p)

Next == (\E p \in Procs : Start(p) \/ Lock(p) \/ Run(p)) \/ Crash

Spec == Init /\ [][Next]_vars

(* Goroutines are scheduled and every call returns, in time or by an error; *)
(* a sync.Mutex hands itself to a waiter that has starved for 1 ms.         *)
Fairness == \A p \in Procs :
    /\ WF_vars(Run(p))
    /\ SF_vars(LockCreate(p))
    /\ SF_vars(LockName(p))

FairSpec == Spec /\ Fairness

----------------------------------------------------------------------------
(* Properties.                                                             *)

InCritical(p) == req[p].at \in Critical

Resources(n) ==
    <<SafeOf[n] \in dbs, acct[SafeOf[n]], granted[SafeOf[n]], secret[n], rows[n]>>

\* Every host's account, and the secret the application reads, have password w.
InSync(n, w) ==
    /\ \A h \in Hosts : acct[SafeOf[n]][h] = w
    /\ secret[n] = w

\* The application finds its database, its accounts and its grants. Whether the
\* accounts take the password of its secret file is another matter: InSync.
Usable(n) ==
    /\ SafeOf[n] \in dbs
    /\ granted[SafeOf[n]] = Hosts
    /\ \A h \in Hosts : HasAccount(SafeOf[n], h)

\* Nothing of n is left in MySQL or in the secret directory.
Gone(n) ==
    /\ SafeOf[n] \notin dbs
    /\ \A h \in Hosts : ~HasAccount(SafeOf[n], h)
    /\ secret[n] = NoPw

Answered(p, reply) == req[p].at \in {"audit", "r_final", "fin"} /\ req[p].reply = reply

(* The per-name mutex of service.go:59 admits one request per project, in   *)
(* whatever order Create takes its second mutex and requests are refused.   *)
MutualExclusion ==
    \A p, q \in Procs :
        InCritical(p) /\ InCritical(q) /\ Name(p) = Name(q) => p = q

(* When Create inserts the row (service.go:114) no row has come up since   *)
(* it looked (service.go:90): the branch for ErrConflict is never taken.    *)
InsertIsFresh == \A p \in Procs : At(p, "c_insert") => rows[Name(p)] = "none"

\* A step of another request leaves the project that p works on as it is.
OthersKeepOut ==
    \A p \in Procs :
        InCritical(p) /\ req'[p] = req[p]
          => Resources(Name(p))' = Resources(Name(p))

(* Create, Rotate and Delete read the project and act on it several calls   *)
(* later: while one of them runs no step of another request may touch the   *)
(* project's row, secret, database, accounts or grants.                     *)
Undisturbed == [][OthersKeepOut]_vars

(* No database, account, grant or secret file outlives the record of its    *)
(* project but in one way: a Delete removes the row although a step before  *)
(* it has failed (service.go:253). No order of steps, failed rollback or    *)
(* crash adds another. It is not said that anyone learns of what a Delete   *)
(* leaves: a crash, or a client that is gone, after the row was removed     *)
(* takes the answer and the audit entry (service.go:256-259) along.         *)
NoOrphans ==
    /\ \A i \in Ids :
          i \in dbs \/ granted[i] # {} \/ (\E h \in Hosts : HasAccount(i, h))
            => \E n \in Names : SafeOf[n] = i /\ (rows[n] # "none" \/ n \in leaked)
    /\ \A n \in Names : secret[n] # NoPw => rows[n] # "none" \/ n \in leaked

(* Create answers "created" (service.go:171) only for a project that is     *)
(* ready and has its database, accounts and grants; the accounts and the    *)
(* secret file have the password that was drawn, unless a Delete had left   *)
(* an account of that name behind.                                          *)
CreatedIsUsable ==
    \A p \in Procs :
        Answered(p, "created") =>
            /\ Usable(Name(p)) /\ rows[Name(p)] = "ready"
            /\ Name(p) \notin leaked => InSync(Name(p), req[p].pw)

(* Rotate answers success (service.go:210) only when both accounts and the  *)
(* secret file carry the new password, whatever failed rotation preceded it:*)
(* running it again repairs a half-done one (service.go:197).               *)
RotatedIsInSync ==
    \A p \in Procs : Answered(p, "rotated") => InSync(Name(p), req[p].pw)

(* Delete answers success (service.go:261) only when no resource and no row *)
(* of the project is left and nothing remains of earlier partial deletions. *)
DeletedIsGone ==
    \A p \in Procs :
        Answered(p, "deleted") =>
            Gone(Name(p)) /\ rows[Name(p)] = "none" /\ Name(p) \notin leaked

(* As long as statements and files may fail but the process, its metadata   *)
(* and the clients stay up, a project that is listed as ready and that no   *)
(* request works on has all its resources and a secret file, however many   *)
(* calls on it have failed. It can connect but for a Rotate that failed, or *)
(* a Create over an account left behind: then the file's password is wrong. *)
ReadyIsUsable ==
    \A n \in Names :
        rows[n] = "ready" /\ ioLock[n] = NoProc => Usable(n) /\ secret[n] # NoPw

(* As long as the audit table can be written and no client gives up, every  *)
(* request that may have changed a project has its entry when it returns,   *)
(* on the error paths too.                                                  *)
ChangesAreAudited ==
    \A p \in Procs :
        At(p, "fin") /\ (req[p].pw # NoPw \/ req[p].reply \in {"deleted", "partial"})
          => req[p].logged

(* Every request ends: Create and the other operations take the mutexes in  *)
(* orders that never block each other for good.                             *)
EveryRequestEnds == \A p \in Procs : ~At(p, "idle") ~> At(p, "idle")
----------------------------------------------------------------------------
(* What the service implements.                                            *)

Lifecycle == INSTANCE ProjectLifecycle WITH status <- rows

(* Under every fault the status of a project moves as ProjectLifecycle says:*)
(* markError (service.go:312) and the final update (service.go:162) find the*)
(* row pending, however the requests before them ended.                     *)
ImplementsLifecycle == Lifecycle!Spec

(* A project exists for its clients once Create has set it ready and until  *)
(* Delete removes its secret file.                                          *)
Published == [n \in Names |-> IF rows[n] = "ready" THEN secret[n] ELSE NoPw]

Operation(p) ==
    CASE req[p].at \in {"c_store", "c_io"} \cup (CreateLabels \ {"c_final"}) -> "create"
      [] req[p].at \in {"r_io"} \cup (RotateLabels \ {"r_final"})             -> "rotate"
      [] req[p].at \in {"d_io"} \cup (DeleteLabels \ {"d_row"})               -> "delete"
      [] At(p, "g_get")                                                       -> "get"
      [] OTHER                                                                -> "done"

AtomicCall(p) ==
    IF req[p].at \in {"idle", "c_unlock"} \/ req[p].reply = "unconfirmed"
    THEN [op |-> "none", name |-> NoName, reply |-> "none"]
    ELSE [op    |-> Operation(p),
          name  |-> req[p].name,
          reply |-> CASE At(p, "c_final") -> "created"
                      [] At(p, "d_row")   -> "deleted"
                      [] OTHER            -> req[p].reply]

Atomic == INSTANCE AtomicService
            WITH cred <- Published, call <- [p \in Procs |-> AtomicCall(p)]

(* Without faults concurrent requests behave as if each took effect at once:*)
(* the two mutexes make Create, Rotate and Delete linearizable, and Create  *)
(* never refuses a project that another request is creating or deleting.    *)
ImplementsAtomicService == Atomic!Spec
=============================================================================
