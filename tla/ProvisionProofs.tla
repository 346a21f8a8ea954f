-------------------------- MODULE ProvisionProofs --------------------------
(***************************************************************************)
(* One lemma per action of Provision: what a step of a request keeps of    *)
(* what that request relies on (RowFor, ResourceFor), and what the other   *)
(* requests see of it (Frame). ProvisionTheorems puts them together.       *)
(*                                                                         *)
(* Before them, lemmas on the building blocks of an action (a jump, a call *)
(* that may fail, an SQL statement): what they do to the fields of the     *)
(* request and to the project, stated without the records and nested       *)
(* functions they are written with.                                        *)
(***************************************************************************)
EXTENDS ProvisionInvariant, TLAPS

\* Record r is at label l, with the given values of the fields that matter.
Is(r, l, n, h, w, partial, reply) ==
    /\ r \in Request
    /\ r.at = l /\ r.name = n /\ r.host = h
    /\ r.pw = w /\ r.partial = partial /\ r.reply = reply

\* A step of p, and of no other request, to label l, on the same project.
Becomes(p, l, h, w, partial, reply) ==
    /\ req' \in [Procs -> Request]
    /\ \A q \in Procs \ {p} : req'[q] = req[q]
    /\ req'[p].at = l /\ req'[p].name = req[p].name /\ req'[p].host = h
    /\ req'[p].pw = w /\ req'[p].partial = partial /\ req'[p].reply = reply

\* The same with the locals of p as they are.
Jumps(p, l, reply) == Becomes(p, l, 1, req[p].pw, req[p].partial, reply)

SameIn(i) ==
    /\ i \in dbs' <=> i \in dbs
    /\ acct'[i][1] = acct[i][1] /\ acct'[i][2] = acct[i][2]
    /\ granted'[i] = granted[i]

SameProject(n) ==
    /\ rows'[n] = rows[n] /\ secret'[n] = secret[n]
    /\ n \in leaked' <=> n \in leaked

\* The step changes resources of p's project only, and no mutex.
Touches(p) ==
    /\ MySQLTypeOK'
    /\ \A j \in Ids \ {Id(p)} : SameIn(j)
    /\ rows' \in [Names -> Statuses]
    /\ secret' \in [Names -> MaybePassword]
    /\ leaked' \subseteq Names
    /\ \A n \in Names \ {Name(p)} : SameProject(n)
    /\ UNCHANGED locks

\* What the other requests see of any step of p.
Frame(p) ==
    /\ \A q \in Procs \ {p} : req'[q] = req[q]
    /\ \A n \in Names : n # Name(p) \/ ~InCritical(p) => SameProject(n)
    /\ \A i \in Ids : i # Id(p) \/ ~InCritical(p) => SameIn(i)
    /\ \A n \in Names : ioLock[n] \in Procs \ {p} => ioLock'[n] = ioLock[n]
    /\ InCritical(p) => req'[p].name = req[p].name

\* The types of everything a step of p at label l reads.
Runs(p, l) ==
    /\ req \in [Procs -> Request] /\ req[p] \in Request
    /\ req[p].at = l /\ req[p].name \in Names /\ SafeOf[req[p].name] \in Ids
    /\ req[p].host \in Hosts /\ (req[p].host = 1 \/ req[p].host = 2)
    /\ req[p].pw \in MaybePassword

----------------------------------------------------------------------------

(* The fields of a request have their types.                               *)
LEMMA RequestFields ==
  ASSUME NEW r \in Request
  PROVE /\ r.at \in Labels /\ r.name \in Names \cup {NoName} /\ r.host \in Hosts
        /\ r.pw \in MaybePassword /\ r.live \in BOOLEAN /\ r.partial \in BOOLEAN
        /\ r.reply \in Replies /\ r.logged \in BOOLEAN
  BY DEF Request

(* A request that is not idle works on a project name.                     *)
LEMMA RunsAt ==
  ASSUME NEW p \in Procs, NEW l, l # "idle", TypeOK, At(p, l)
  PROVE  Runs(p, l)
  BY ProvisionAssumption, RequestFields DEF TypeOK, At, Runs, Hosts

(* Goto, Answer and NextHost change the program point and the loop index,   *)
(* and Answer the reply; the name and the password stay.                   *)
LEMMA GotoIs ==
  ASSUME NEW p, NEW l \in Labels, req[p] \in Request
  PROVE  Is(Goto(p, l), l, req[p].name, 1, req[p].pw, req[p].partial, req[p].reply)
  <1>1. 1 \in Hosts BY DEF Hosts
  <1> QED BY <1>1, Zenon DEF Is, Goto, Request

(* Answer goes to l with reply a and keeps the other locals.               *)
LEMMA AnswerIs ==
  ASSUME NEW p, NEW l \in Labels, NEW a \in Replies, req[p] \in Request
  PROVE  Is(Answer(p, l, a), l, req[p].name, 1, req[p].pw, req[p].partial, a)
  <1>1. 1 \in Hosts BY DEF Hosts
  <1> QED BY <1>1, Zenon DEF Is, Answer, Goto, Request

(* NextHost repeats the label for the second host, then goes to l.         *)
LEMMA NextHostIs ==
  ASSUME NEW p, NEW l \in Labels, req[p] \in Request
  PROVE  \/ /\ req[p].host = 1
            /\ Is(NextHost(p, l), req[p].at, req[p].name, 2, req[p].pw, req[p].partial,
              req[p].reply)
         \/ /\ req[p].host = 2
            /\ Is(NextHost(p, l), l, req[p].name, 1, req[p].pw, req[p].partial, req[p].reply)
  <1>1. 2 \in Hosts /\ (req[p].host = 1 \/ req[p].host = 2)
    BY RequestFields DEF Hosts
  <1>2. CASE req[p].host = 1
    BY <1>1, <1>2, Zenon DEF NextHost, Is, Request
  <1>3. CASE req[p].host = 2
    <2>1. NextHost(p, l) = Goto(p, l)
      BY <1>3 DEF NextHost
    <2> QED BY <1>3, <2>1, GotoIs
  <1> QED BY <1>1, <1>2, <1>3

(* A call that fails differs from its error continuation in live only.      *)
LEMMA FailingIs ==
  ASSUME NEW p, NEW kind, NEW r, NEW x \in Failing(p, kind, r),
         NEW l, NEW n, NEW h, NEW w, NEW d, NEW a, Is(r, l, n, h, w, d, a)
  PROVE  Is(x, l, n, h, w, d, a)
  <1>1. x = r \/ x = [r EXCEPT !.live = FALSE]
    BY DEF Failing
  <1>2. Is([r EXCEPT !.live = FALSE], l, n, h, w, d, a)
    BY Zenon DEF Is, Request
  <1> QED BY <1>1, <1>2

(* A request that moves on as record r has r's fields afterwards.          *)
LEMMA MoveIs ==
  ASSUME NEW p \in Procs, req \in [Procs -> Request],
         NEW r, NEW l, NEW h, NEW w, NEW d, NEW a,
         Is(r, l, req[p].name, h, w, d, a), Move(p, r)
  PROVE  Becomes(p, l, h, w, d, a)
  BY DEF Is, Move, Becomes

(* A call continues as ok, its effect done, or with the error continuation. *)
LEMMA ReturnsCases ==
  ASSUME NEW p \in Procs, req \in [Procs -> Request], NEW kind, NEW done, NEW ok, NEW err,
         NEW l, NEW h, NEW w, NEW d, NEW a, Is(err, l, req[p].name, h, w, d, a),
         Returns(p, kind, done, ok, err)
  PROVE  (done /\ Move(p, ok)) \/ Becomes(p, l, h, w, d, a)
  <1>1. CASE \E r \in Failing(p, kind, err) : Move(p, r)
    <2>1. PICK r \in Failing(p, kind, err) : Move(p, r)
      BY <1>1
    <2>2. Is(r, l, req[p].name, h, w, d, a)
      BY FailingIs
    <2> QED BY <2>1, <2>2, MoveIs
  <1> QED BY <1>1 DEF Returns

(* A step that goes to l keeps the locals of the request.                  *)
LEMMA Jump ==
  ASSUME NEW p \in Procs, NEW k, Runs(p, k), NEW l \in Labels, Move(p, Goto(p, l))
  PROVE  Jumps(p, l, req[p].reply)
  BY GotoIs, MoveIs DEF Runs, Jumps

(* A step that goes to l with an answer keeps the other locals.            *)
LEMMA JumpAnswer ==
  ASSUME NEW p \in Procs, NEW k, Runs(p, k), NEW l \in Labels, NEW a \in Replies,
         Move(p, Answer(p, l, a))
  PROVE  Jumps(p, l, a)
  BY AnswerIs, MoveIs DEF Runs, Jumps

(* A step of a loop over the hosts repeats its label or leaves the loop.   *)
LEMMA JumpHost ==
  ASSUME NEW p \in Procs, NEW k, Runs(p, k), NEW l \in Labels, Move(p, NextHost(p, l))
  PROVE  \/ req[p].host = 1 /\ Becomes(p, k, 2, req[p].pw, req[p].partial, req[p].reply)
         \/ req[p].host = 2 /\ Jumps(p, l, req[p].reply)
  BY NextHostIs, MoveIs DEF Runs, Jumps

(* A call whose error is answered returns as it should, or with that       *)
(* answer.                                                                 *)
LEMMA JumpReturns ==
  ASSUME NEW p \in Procs, NEW k, Runs(p, k), NEW l \in Labels, NEW a \in Replies,
         NEW kind, NEW done, NEW ok, Returns(p, kind, done, ok, Answer(p, l, a))
  PROVE  (done /\ Move(p, ok)) \/ Jumps(p, l, a)
  <1>1. Is(Answer(p, l, a), l, req[p].name, 1, req[p].pw, req[p].partial, a)
    BY AnswerIs DEF Runs
  <1> QED BY <1>1, ReturnsCases DEF Runs, Jumps

(* A step that draws a password keeps the other locals.                    *)
LEMMA JumpPassword ==
  ASSUME NEW p \in Procs, NEW k, Runs(p, k), NEW l \in Labels, NEW w \in Passwords,
         Move(p, [Goto(p, l) EXCEPT !.pw = w])
  PROVE  Becomes(p, l, 1, w, req[p].partial, req[p].reply)
  <1>1. 1 \in Hosts /\ w \in MaybePassword /\ req[p] \in Request
    BY DEF Hosts, MaybePassword, Runs
  <1>2. Is([Goto(p, l) EXCEPT !.pw = w], l, req[p].name, 1, w, req[p].partial, req[p].reply)
    BY <1>1, Zenon DEF Is, Goto, Request
  <1> QED BY <1>2, MoveIs DEF Runs

(* A call whose error ends a partial Delete.                               *)
LEMMA PartialAnswerReturns ==
  ASSUME NEW p \in Procs, NEW k, Runs(p, k), NEW l \in Labels, NEW a \in Replies,
         NEW kind, NEW done, NEW ok,
         Returns(p, kind, done, ok, [Answer(p, l, a) EXCEPT !.partial = TRUE])
  PROVE  (done /\ Move(p, ok)) \/ Becomes(p, l, 1, req[p].pw, TRUE, a)
  <1>1. 1 \in Hosts /\ req[p] \in Request
    BY DEF Hosts, Runs
  <1>2. Is([Answer(p, l, a) EXCEPT !.partial = TRUE], l, req[p].name, 1, req[p].pw, TRUE, a)
    BY <1>1, Zenon DEF Is, Answer, Goto, Request
  <1> QED BY <1>2, ReturnsCases DEF Runs

(* Partial goes to l and notes the failure of a step of Delete.            *)
LEMMA PartialIs ==
  ASSUME NEW p, NEW l \in Labels, req[p] \in Request
  PROVE  Is(Partial(p, l), l, req[p].name, 1, req[p].pw, TRUE, req[p].reply)
  <1>1. 1 \in Hosts BY DEF Hosts
  <1> QED BY <1>1, Zenon DEF Is, Partial, Goto, Request

(* A step that notes a failure goes to l.                                  *)
LEMMA JumpPartial ==
  ASSUME NEW p \in Procs, NEW k, Runs(p, k), NEW l \in Labels, Move(p, Partial(p, l))
  PROVE  Becomes(p, l, 1, req[p].pw, TRUE, req[p].reply)
  BY PartialIs, MoveIs DEF Runs

(* A lookup without an answer ends the request with an error and changes   *)
(* nothing.                                                                *)
LEMMA LookupFailsIs ==
  ASSUME NEW p \in Procs, NEW k, Runs(p, k), LookupFails(p)
  PROVE  Jumps(p, "fin", "error") /\ UNCHANGED <<mysqlVars, disk, locks>>
  <1>1. PICK r \in Failing(p, "sqlite", Answer(p, "fin", "error")) : Silent(p, r)
    BY DEF LookupFails
  <1>2. Is(Answer(p, "fin", "error"), "fin", req[p].name, 1, req[p].pw, req[p].partial, "error")
    BY AnswerIs DEF Runs, Labels, Replies
  <1>3. Is(r, "fin", req[p].name, 1, req[p].pw, req[p].partial, "error")
    BY <1>2, FailingIs
  <1> QED BY <1>1, <1>3, MoveIs DEF Silent, Runs, Jumps

(* The history variable logged is none of the fields that matter.          *)
LEMMA LoggedIs ==
  ASSUME NEW r, NEW l, NEW n, NEW h, NEW w, NEW d, NEW a, NEW b \in BOOLEAN,
         Is(r, l, n, h, w, d, a)
  PROVE  Is([r EXCEPT !.logged = b], l, n, h, w, d, a)
  BY Zenon DEF Is, Request

(* A call of Delete whose error is noted.                                  *)
LEMMA PartialReturns ==
  ASSUME NEW p \in Procs, NEW k, Runs(p, k), NEW l \in Labels,
         NEW kind, NEW done, NEW ok, Returns(p, kind, done, ok, Partial(p, l))
  PROVE  (done /\ Move(p, ok)) \/ Becomes(p, l, 1, req[p].pw, TRUE, req[p].reply)
  <1>1. Is(Partial(p, l), l, req[p].name, 1, req[p].pw, TRUE, req[p].reply)
    BY PartialIs DEF Runs
  <1> QED BY <1>1, ReturnsCases DEF Runs

(* A call whose error is dropped goes to l in any case.                    *)
LEMMA GotoReturns ==
  ASSUME NEW p \in Procs, NEW k, Runs(p, k), NEW l \in Labels,
         NEW kind, NEW done, NEW ok, Returns(p, kind, done, ok, Goto(p, l))
  PROVE  (done /\ Move(p, ok)) \/ Jumps(p, l, req[p].reply)
  <1>1. Is(Goto(p, l), l, req[p].name, 1, req[p].pw, req[p].partial, req[p].reply)
    BY GotoIs DEF Runs
  <1> QED BY <1>1, ReturnsCases DEF Runs, Jumps
----------------------------------------------------------------------------
(* The SQL statements, account by account.                                 *)

(* CREATE DATABASE IF NOT EXISTS.                                          *)
LEMMA CreateDatabaseIs ==
  ASSUME MySQLTypeOK, NEW i \in Ids, CreateDatabase(i)
  PROVE  /\ MySQLTypeOK' /\ i \in dbs' /\ acct' = acct /\ granted' = granted
         /\ \A j \in Ids \ {i} : SameIn(j)
  BY DEF MySQLTypeOK, CreateDatabase, SameIn

(* DROP DATABASE IF EXISTS.                                                *)
LEMMA DropDatabaseIs ==
  ASSUME MySQLTypeOK, NEW i \in Ids, DropDatabase(i)
  PROVE  /\ MySQLTypeOK' /\ i \notin dbs' /\ acct' = acct /\ granted' = granted
         /\ \A j \in Ids \ {i} : SameIn(j)
  BY DEF MySQLTypeOK, DropDatabase, SameIn

(* CREATE USER IF NOT EXISTS for one host.                                 *)
LEMMA CreateUserIs ==
  ASSUME MySQLTypeOK, NEW i \in Ids, NEW h \in Hosts, NEW w \in MaybePassword,
         CreateUser(i, h, w)
  PROVE  /\ MySQLTypeOK' /\ dbs' = dbs /\ granted' = granted
         /\ acct'[i][h] = IF acct[i][h] = NoPw THEN w ELSE acct[i][h]
         /\ \A k \in Hosts \ {h} : acct'[i][k] = acct[i][k]
         /\ \A j \in Ids \ {i} : SameIn(j)
  BY DEF MySQLTypeOK, CreateUser, SetAccount, HasAccount, SameIn

(* ALTER USER for one host, which needs the account.                       *)
LEMMA AlterUserIs ==
  ASSUME MySQLTypeOK, NEW i \in Ids, NEW h \in Hosts, NEW w \in MaybePassword,
         AlterUser(i, h, w)
  PROVE  /\ MySQLTypeOK' /\ dbs' = dbs /\ granted' = granted
         /\ acct[i][h] # NoPw /\ acct'[i][h] = w
         /\ \A k \in Hosts \ {h} : acct'[i][k] = acct[i][k]
         /\ \A j \in Ids \ {i} : SameIn(j)
  BY DEF MySQLTypeOK, AlterUser, SetAccount, HasAccount, SameIn

(* DROP USER IF EXISTS for one host.                                       *)
LEMMA DropUserIs ==
  ASSUME MySQLTypeOK, NEW i \in Ids, NEW h \in Hosts, DropUser(i, h)
  PROVE  /\ MySQLTypeOK' /\ dbs' = dbs
         /\ acct'[i][h] = NoPw /\ granted'[i] = granted[i] \ {h}
         /\ \A k \in Hosts \ {h} : acct'[i][k] = acct[i][k]
         /\ \A j \in Ids \ {i} : SameIn(j)
  BY DEF MySQLTypeOK, DropUser, SetAccount, MaybePassword, SameIn

(* GRANT for one host.                                                     *)
LEMMA GrantIs ==
  ASSUME MySQLTypeOK, NEW i \in Ids, NEW h \in Hosts, Grant(i, h)
  PROVE  /\ MySQLTypeOK' /\ dbs' = dbs /\ acct' = acct
         /\ granted'[i] = granted[i] \cup {h}
         /\ \A j \in Ids \ {i} : SameIn(j)
  BY DEF MySQLTypeOK, Grant, SameIn

(* A call to MySQL touches one project if its statement does.               *)
LEMMA MySQLTouches ==
  ASSUME NEW p \in Procs, TypeOK, UNCHANGED <<disk, locks>>,
         MySQLTypeOK', \A j \in Ids \ {Id(p)} : SameIn(j)
  PROVE  Touches(p)
  BY DEF TypeOK, Touches, disk, SameProject

(* A step that changes no resource touches no project.                     *)
LEMMA NothingTouches ==
  ASSUME NEW p \in Procs, TypeOK, UNCHANGED <<mysqlVars, disk, locks>>
  PROVE  Touches(p)
  BY DEF TypeOK, Touches, mysqlVars, disk, SameProject, SameIn, MySQLTypeOK

(* Such a step keeps the types, is invisible to other projects and leaves   *)
(* the mutex with p.                                                       *)
LEMMA TouchesFrame ==
  ASSUME NEW p \in Procs, TypeOK, LockFor(p), InCritical(p), Touches(p),
         NEW l \in Labels \ {"idle"}, NEW h, NEW w, NEW d, NEW a, Becomes(p, l, h, w, d, a)
  PROVE  TypeOK' /\ Frame(p) /\ LockFor(p)'
  <1>1. req[p].at # "idle"
    BY DEF InCritical, Critical, CreateLabels, RotateLabels, DeleteLabels
  <1>2. TypeOK' /\ Frame(p)
    BY <1>1 DEF TypeOK, Touches, Frame, Becomes, locks
  <1>3. LockFor(p)'
    BY DEF LockFor, Holding, Touches, locks, Becomes, Name
  <1> QED BY <1>2, <1>3
(* A step that leaves every project alone.                                 *)
LEMMA QuietFrame ==
  ASSUME NEW p \in Procs, TypeOK, UNCHANGED <<mysqlVars, disk>>,
         storeLock' \in [Names -> Procs \cup {NoProc}],
         ioLock' \in [Names -> Procs \cup {NoProc}],
         \A n \in Names : ioLock[n] \in Procs \ {p} => ioLock'[n] = ioLock[n],
         req' \in [Procs -> Request], \A q \in Procs \ {p} : req'[q] = req[q],
         req'[p].at # "idle" => req'[p].name \in Names,
         InCritical(p) => req'[p].name = req[p].name
  PROVE  TypeOK' /\ Frame(p)
  BY DEF TypeOK, MySQLTypeOK, Frame, SameProject, SameIn, mysqlVars, disk
----------------------------------------------------------------------------
(* The actions.                                                            *)

\* What a step of p has to establish.
Preserved(p) ==
    /\ TypeOK' /\ Frame(p) /\ LockFor(p)'
    /\ InCritical(p) => req'[p] # req[p]
    /\ RowFor(p) => RowFor(p)'
    /\ RowFor(p) /\ ResourceFor(p) /\ (\A n \in Names : OrphanFor(n))
          => ResourceFor(p)' /\ (InCritical(p) => OrphanFor(Name(p))')

\* What is known before a step of p from label l.
Knows(p, l) == Runs(p, l) /\ TypeOK /\ MySQLTypeOK /\ LockFor(p)

(* A request that is not idle runs at its label with the types of          *)
(* everything it reads.                                                    *)
LEMMA Context ==
  ASSUME NEW p \in Procs, NEW l, l # "idle", TypeOK, LockFor(p), At(p, l)
  PROVE  Knows(p, l)
  BY RunsAt DEF Knows, TypeOK

(* A step between the mutexes that touches one project keeps the types,    *)
(* the mutex and the other projects.                                       *)
LEMMA CriticalFrame ==
  ASSUME NEW p \in Procs, NEW k \in Critical, Knows(p, k), Touches(p),
         NEW l \in Labels \ {"idle"}, NEW h, NEW w, NEW d, NEW a, Becomes(p, l, h, w, d, a)
  PROVE  TypeOK' /\ Frame(p) /\ LockFor(p)'
  <1>1. InCritical(p)
    BY DEF Knows, Runs, InCritical
  <1> QED BY <1>1, TouchesFrame DEF Knows

(* CREATE DATABASE (service.go:133): when it succeeds the database exists. *)
LEMMA EnsureDatabaseStep ==
  ASSUME NEW p \in Procs, TypeOK, LockFor(p), EnsureDatabase(p)
  PROVE  Preserved(p)
  <1>1. Knows(p, "c_db")
    BY Context DEF EnsureDatabase
  <1>2. PICK done \in BOOLEAN :
          /\ Returns(p, "mysql", done, Goto(p, "c_user"), Answer(p, "c_mark", "error"))
          /\ IF done THEN CreateDatabase(Id(p)) ELSE UNCHANGED mysqlVars
          /\ UNCHANGED <<disk, locks>>
    BY DEF EnsureDatabase, MySQLCall
  <1>3. \/ done /\ Jumps(p, "c_user", req[p].reply)
        \/ Jumps(p, "c_mark", "error")
    BY <1>1, <1>2, Jump, JumpReturns
       DEF Knows, Labels, Critical, CreateLabels, RotateLabels, DeleteLabels, Replies
  <1>4. /\ Touches(p)
        /\ done => Id(p) \in dbs' /\ acct' = acct /\ granted' = granted
    <2>1. CASE done
      BY <1>1, <1>2, <2>1, CreateDatabaseIs, MySQLTouches DEF Knows, Runs, Name, Id
    <2>2. CASE ~done
      BY <1>1, <1>2, <2>2, NothingTouches DEF Knows
    <2> QED BY <2>1, <2>2
  <1>5. /\ TypeOK' /\ Frame(p) /\ LockFor(p)'
        /\ req'[p] # req[p]
    <2>1. TypeOK' /\ Frame(p) /\ LockFor(p)'
      BY <1>1, <1>3, <1>4, CriticalFrame
         DEF Jumps, Labels, Critical, CreateLabels, RotateLabels, DeleteLabels, Replies
    <2>2. req'[p] # req[p]
      BY <1>1, <1>3 DEF Knows, Runs, Becomes, Jumps
    <2> QED BY <2>1, <2>2
  <1>6. ASSUME RowFor(p) PROVE RowFor(p)'
    BY <1>1, <1>2, <1>3, <1>4, <1>6
       DEF Knows, Runs, Becomes, Jumps, At, Answered, Name, RowFor, FlowInv, RowInv, disk,
           CreateLabels, RotateLabels, DeleteLabels
  <1>7. ASSUME RowFor(p), ResourceFor(p), \A n \in Names : OrphanFor(n)
        PROVE  ResourceFor(p)' /\ OrphanFor(Name(p))'
    <2>1. OrphanFor(Name(p))'
      BY <1>1, <1>2, <1>3, <1>4, <1>7
         DEF Knows, Runs, Becomes, Jumps, At, Answered, Name, RowFor, RowInv, OrphanFor, disk,
             CreateLabels, RotateLabels, DeleteLabels
    <2>2. CreateInv(p)'
      BY <1>1, <1>2, <1>3, <1>4, <1>7, ProvisionAssumption
         DEF Knows, Runs, Becomes, Jumps, At, Answered, Name, ResourceFor, CreateInv, Id, HostHas,
             HasAccount, Hosts, disk, After, UpTo, Removed, RowFor, FlowInv
    <2>3. RotateInv(p)' /\ DeleteInv(p)'
      BY <1>1, <1>3, <1>7
         DEF Knows, Runs, Becomes, Jumps, At, Answered, Name, RowFor, FlowInv, RotateInv,
             DeleteInv, UpTo, After, Removed
    <2> QED BY <2>1, <2>2, <2>3 DEF ResourceFor
  <1> QED BY <1>5, <1>6, <1>7 DEF Preserved

(* CREATE USER, host by host (service.go:138): an account that existed     *)
(* keeps its password, so that only a project Delete left nothing of gets  *)
(* the new one.                                                            *)
LEMMA EnsureUserStep ==
  ASSUME NEW p \in Procs, TypeOK, LockFor(p), EnsureUser(p)
  PROVE  Preserved(p)
  <1>1. Knows(p, "c_user")
    BY Context DEF EnsureUser
  <1>2. PICK done \in BOOLEAN :
          /\ Returns(p, "mysql", done, NextHost(p, "c_grant"), Answer(p, "rb_db", "error"))
          /\ IF done THEN CreateUser(Id(p), req[p].host, req[p].pw) ELSE UNCHANGED mysqlVars
          /\ UNCHANGED <<disk, locks>>
    BY DEF EnsureUser, MySQLCall
  <1>3. \/ done /\ req[p].host = 1 /\ Becomes(p, "c_user", 2, req[p].pw, req[p].partial,
                                              req[p].reply)
        \/ done /\ req[p].host = 2 /\ Jumps(p, "c_grant", req[p].reply)
        \/ Jumps(p, "rb_db", "error")
    BY <1>1, <1>2, JumpHost, JumpReturns
       DEF Knows, Labels, Critical, CreateLabels, RotateLabels, DeleteLabels, Replies
  <1>4. /\ Touches(p)
        /\ done => /\ dbs' = dbs /\ granted' = granted
                   /\ acct'[Id(p)][req[p].host] =
                         IF acct[Id(p)][req[p].host] = NoPw THEN req[p].pw ELSE acct[Id(p)][req[p].host]
                   /\ \A k \in Hosts \ {req[p].host} : acct'[Id(p)][k] = acct[Id(p)][k]
    <2>1. CASE done
      BY <1>1, <1>2, <2>1, CreateUserIs, MySQLTouches DEF Knows, Runs, Name, Id
    <2>2. CASE ~done
      BY <1>1, <1>2, <2>2, NothingTouches DEF Knows
    <2> QED BY <2>1, <2>2
  <1>5. /\ TypeOK' /\ Frame(p) /\ LockFor(p)'
        /\ req'[p] # req[p]
    <2>1. TypeOK' /\ Frame(p) /\ LockFor(p)'
      BY <1>1, <1>3, <1>4, CriticalFrame
         DEF Jumps, Labels, Critical, CreateLabels, RotateLabels, DeleteLabels, Replies
    <2>2. req'[p] # req[p]
      BY <1>1, <1>3 DEF Knows, Runs, Becomes, Jumps
    <2> QED BY <2>1, <2>2
  <1>6. ASSUME RowFor(p) PROVE RowFor(p)'
    BY <1>1, <1>2, <1>3, <1>4, <1>6
       DEF Knows, Runs, Becomes, Jumps, At, Answered, Name, RowFor, FlowInv, RowInv, disk,
           CreateLabels, RotateLabels, DeleteLabels
  <1>7. ASSUME RowFor(p), ResourceFor(p), \A n \in Names : OrphanFor(n)
        PROVE  ResourceFor(p)' /\ OrphanFor(Name(p))'
    <2>1. OrphanFor(Name(p))'
      BY <1>1, <1>2, <1>3, <1>4, <1>7
         DEF Knows, Runs, Becomes, Jumps, At, Answered, Name, RowFor, RowInv, OrphanFor, disk,
             CreateLabels, RotateLabels, DeleteLabels
    <2>2. CreateInv(p)'
      BY <1>1, <1>2, <1>3, <1>4, <1>7, ProvisionAssumption
         DEF Knows, Runs, Becomes, Jumps, At, Answered, Name, ResourceFor, CreateInv, Id, HostHas,
             HasAccount, Hosts, disk, After, UpTo, Removed, RowFor, FlowInv
    <2>3. RotateInv(p)' /\ DeleteInv(p)'
      BY <1>1, <1>3, <1>7
         DEF Knows, Runs, Becomes, Jumps, At, Answered, Name, RowFor, FlowInv, RotateInv,
             DeleteInv, UpTo, After, Removed
    <2> QED BY <2>1, <2>2, <2>3 DEF ResourceFor
  <1> QED BY <1>5, <1>6, <1>7 DEF Preserved

(* FLUSH PRIVILEGES (provisioner.go:159) changes nothing.                  *)
LEMMA FlushPrivilegesStep ==
  ASSUME NEW p \in Procs, TypeOK, LockFor(p), FlushPrivileges(p)
  PROVE  Preserved(p)
  <1>1. Knows(p, "c_flush")
    BY Context DEF FlushPrivileges
  <1>2. PICK done \in BOOLEAN :
          /\ Returns(p, "mysql", done, Goto(p, "c_secret"), Answer(p, "rb_user", "error"))
          /\ IF done THEN UNCHANGED mysqlVars ELSE UNCHANGED mysqlVars
          /\ UNCHANGED <<disk, locks>>
    BY DEF FlushPrivileges, MySQLCall
  <1>3. \/ done /\ Jumps(p, "c_secret", req[p].reply)
        \/ Jumps(p, "rb_user", "error")
    BY <1>1, <1>2, Jump, JumpReturns
       DEF Knows, Labels, Critical, CreateLabels, RotateLabels, DeleteLabels, Replies
  <1>4. /\ Touches(p)
        /\ dbs' = dbs /\ acct' = acct /\ granted' = granted
    <2>1. CASE done
      BY <1>1, <1>2, <2>1, NothingTouches DEF Knows, mysqlVars
    <2>2. CASE ~done
      BY <1>1, <1>2, <2>2, NothingTouches DEF Knows, mysqlVars
    <2> QED BY <2>1, <2>2
  <1>5. /\ TypeOK' /\ Frame(p) /\ LockFor(p)'
        /\ req'[p] # req[p]
    <2>1. TypeOK' /\ Frame(p) /\ LockFor(p)'
      BY <1>1, <1>3, <1>4, CriticalFrame
         DEF Jumps, Labels, Critical, CreateLabels, RotateLabels, DeleteLabels, Replies
    <2>2. req'[p] # req[p]
      BY <1>1, <1>3 DEF Knows, Runs, Becomes, Jumps
    <2> QED BY <2>1, <2>2
  <1>6. ASSUME RowFor(p) PROVE RowFor(p)'
    BY <1>1, <1>2, <1>3, <1>4, <1>6
       DEF Knows, Runs, Becomes, Jumps, At, Answered, Name, RowFor, FlowInv, RowInv, disk,
           CreateLabels, RotateLabels, DeleteLabels
  <1>7. ASSUME RowFor(p), ResourceFor(p), \A n \in Names : OrphanFor(n)
        PROVE  ResourceFor(p)' /\ OrphanFor(Name(p))'
    <2>1. OrphanFor(Name(p))'
      BY <1>1, <1>2, <1>3, <1>4, <1>7
         DEF Knows, Runs, Becomes, Jumps, At, Answered, Name, RowFor, RowInv, OrphanFor, disk,
             CreateLabels, RotateLabels, DeleteLabels
    <2>2. CreateInv(p)'
      BY <1>1, <1>2, <1>3, <1>4, <1>7, ProvisionAssumption
         DEF Knows, Runs, Becomes, Jumps, At, Answered, Name, ResourceFor, CreateInv, Id, HostHas,
             HasAccount, Hosts, disk, After, UpTo, Removed, RowFor, FlowInv
    <2>3. RotateInv(p)' /\ DeleteInv(p)'
      BY <1>1, <1>3, <1>7
         DEF Knows, Runs, Becomes, Jumps, At, Answered, Name, RowFor, FlowInv, RotateInv,
             DeleteInv, UpTo, After, Removed
    <2> QED BY <2>1, <2>2, <2>3 DEF ResourceFor
  <1> QED BY <1>5, <1>6, <1>7 DEF Preserved

(* The rollback of the accounts (service.go:149), host by host, with its   *)
(* errors dropped.                                                         *)
LEMMA RollbackUserStep ==
  ASSUME NEW p \in Procs, TypeOK, LockFor(p), RollbackUser(p)
  PROVE  Preserved(p)
  <1>1. Knows(p, "rb_user")
    BY Context DEF RollbackUser
  <1>2. PICK done \in BOOLEAN :
          /\ Returns(p, "mysql", done, NextHost(p, "rb_db"), Goto(p, "rb_db"))
          /\ IF done THEN DropUser(Id(p), req[p].host) ELSE UNCHANGED mysqlVars
          /\ UNCHANGED <<disk, locks>>
    BY DEF RollbackUser, MySQLCall
  <1>3. \/ done /\ req[p].host = 1 /\ Becomes(p, "rb_user", 2, req[p].pw, req[p].partial,
                                              req[p].reply)
        \/ done /\ req[p].host = 2 /\ Jumps(p, "rb_db", req[p].reply)
        \/ Jumps(p, "rb_db", req[p].reply)
    BY <1>1, <1>2, JumpHost, GotoReturns
       DEF Knows, Labels, Critical, CreateLabels, RotateLabels, DeleteLabels, Replies
  <1>4. /\ Touches(p)
        /\ TRUE
    <2>1. CASE done
      BY <1>1, <1>2, <2>1, DropUserIs, MySQLTouches DEF Knows, Runs, Name, Id
    <2>2. CASE ~done
      BY <1>1, <1>2, <2>2, NothingTouches DEF Knows
    <2> QED BY <2>1, <2>2
  <1>5. /\ TypeOK' /\ Frame(p) /\ LockFor(p)'
        /\ req'[p] # req[p]
    <2>1. TypeOK' /\ Frame(p) /\ LockFor(p)'
      BY <1>1, <1>3, <1>4, CriticalFrame
         DEF Jumps, Labels, Critical, CreateLabels, RotateLabels, DeleteLabels, Replies
    <2>2. req'[p] # req[p]
      BY <1>1, <1>3 DEF Knows, Runs, Becomes, Jumps
    <2> QED BY <2>1, <2>2
  <1>6. ASSUME RowFor(p) PROVE RowFor(p)'
    BY <1>1, <1>2, <1>3, <1>4, <1>6
       DEF Knows, Runs, Becomes, Jumps, At, Answered, Name, RowFor, FlowInv, RowInv, disk,
           CreateLabels, RotateLabels, DeleteLabels
  <1>7. ASSUME RowFor(p), ResourceFor(p), \A n \in Names : OrphanFor(n)
        PROVE  ResourceFor(p)' /\ OrphanFor(Name(p))'
    <2>1. OrphanFor(Name(p))'
      BY <1>1, <1>2, <1>3, <1>4, <1>7
         DEF Knows, Runs, Becomes, Jumps, At, Answered, Name, RowFor, RowInv, OrphanFor, disk,
             CreateLabels, RotateLabels, DeleteLabels
    <2>2. CreateInv(p)'
      BY <1>1, <1>2, <1>3, <1>4, <1>7, ProvisionAssumption
         DEF Knows, Runs, Becomes, Jumps, At, Answered, Name, ResourceFor, CreateInv, Id, HostHas,
             HasAccount, Hosts, disk, After, UpTo, Removed, RowFor, FlowInv
    <2>3. RotateInv(p)' /\ DeleteInv(p)'
      BY <1>1, <1>3, <1>7
         DEF Knows, Runs, Becomes, Jumps, At, Answered, Name, RowFor, FlowInv, RotateInv,
             DeleteInv, UpTo, After, Removed
    <2> QED BY <2>1, <2>2, <2>3 DEF ResourceFor
  <1> QED BY <1>5, <1>6, <1>7 DEF Preserved

(* The rollback of the database (service.go:142, 150), with its error      *)
(* dropped.                                                                *)
LEMMA RollbackDatabaseStep ==
  ASSUME NEW p \in Procs, TypeOK, LockFor(p), RollbackDatabase(p)
  PROVE  Preserved(p)
  <1>1. Knows(p, "rb_db")
    BY Context DEF RollbackDatabase
  <1>2. PICK done \in BOOLEAN :
          /\ Returns(p, "mysql", done, Goto(p, "c_mark"), Goto(p, "c_mark"))
          /\ IF done THEN DropDatabase(Id(p)) ELSE UNCHANGED mysqlVars
          /\ UNCHANGED <<disk, locks>>
    BY DEF RollbackDatabase, MySQLCall
  <1>3. \/ done /\ Jumps(p, "c_mark", req[p].reply)
        \/ Jumps(p, "c_mark", req[p].reply)
    BY <1>1, <1>2, Jump, GotoReturns
       DEF Knows, Labels, Critical, CreateLabels, RotateLabels, DeleteLabels, Replies
  <1>4. /\ Touches(p)
        /\ TRUE
    <2>1. CASE done
      BY <1>1, <1>2, <2>1, DropDatabaseIs, MySQLTouches DEF Knows, Runs, Name, Id
    <2>2. CASE ~done
      BY <1>1, <1>2, <2>2, NothingTouches DEF Knows
    <2> QED BY <2>1, <2>2
  <1>5. /\ TypeOK' /\ Frame(p) /\ LockFor(p)'
        /\ req'[p] # req[p]
    <2>1. TypeOK' /\ Frame(p) /\ LockFor(p)'
      BY <1>1, <1>3, <1>4, CriticalFrame
         DEF Jumps, Labels, Critical, CreateLabels, RotateLabels, DeleteLabels, Replies
    <2>2. req'[p] # req[p]
      BY <1>1, <1>3 DEF Knows, Runs, Becomes, Jumps
    <2> QED BY <2>1, <2>2
  <1>6. ASSUME RowFor(p) PROVE RowFor(p)'
    BY <1>1, <1>2, <1>3, <1>4, <1>6
       DEF Knows, Runs, Becomes, Jumps, At, Answered, Name, RowFor, FlowInv, RowInv, disk,
           CreateLabels, RotateLabels, DeleteLabels
  <1>7. ASSUME RowFor(p), ResourceFor(p), \A n \in Names : OrphanFor(n)
        PROVE  ResourceFor(p)' /\ OrphanFor(Name(p))'
    <2>1. OrphanFor(Name(p))'
      BY <1>1, <1>2, <1>3, <1>4, <1>7
         DEF Knows, Runs, Becomes, Jumps, At, Answered, Name, RowFor, RowInv, OrphanFor, disk,
             CreateLabels, RotateLabels, DeleteLabels
    <2>2. CreateInv(p)'
      BY <1>1, <1>2, <1>3, <1>4, <1>7, ProvisionAssumption
         DEF Knows, Runs, Becomes, Jumps, At, Answered, Name, ResourceFor, CreateInv, Id, HostHas,
             HasAccount, Hosts, disk, After, UpTo, Removed, RowFor, FlowInv
    <2>3. RotateInv(p)' /\ DeleteInv(p)'
      BY <1>1, <1>3, <1>7
         DEF Knows, Runs, Becomes, Jumps, At, Answered, Name, RowFor, FlowInv, RotateInv,
             DeleteInv, UpTo, After, Removed
    <2> QED BY <2>1, <2>2, <2>3 DEF ResourceFor
  <1> QED BY <1>5, <1>6, <1>7 DEF Preserved

(* GRANT, host by host (service.go:146): it is refused where the account   *)
(* is missing.                                                             *)
LEMMA GrantProjectPrivilegesStep ==
  ASSUME NEW p \in Procs, TypeOK, LockFor(p), GrantProjectPrivileges(p)
  PROVE  Preserved(p)
  <1>1. Knows(p, "c_grant")
    BY Context DEF GrantProjectPrivileges
  <1>2. PICK done \in BOOLEAN :
          /\ \/ done /\ req[p].host = 1 /\ Becomes(p, "c_grant", 2, req[p].pw, req[p].partial,
                                                   req[p].reply)
             \/ done /\ req[p].host = 2 /\ Jumps(p, "c_flush", req[p].reply)
             \/ Jumps(p, "rb_user", "error")
          /\ IF done THEN Grant(Id(p), req[p].host) ELSE UNCHANGED mysqlVars
          /\ UNCHANGED <<disk, locks>>
    <2>1. CASE MySQLCall(p, Grant(Id(p), req[p].host), NextHost(p, "c_flush"), Answer(p, "rb_user",
      "error"))
      BY <1>1, <2>1, JumpHost, JumpReturns
         DEF MySQLCall, Knows, Labels, Critical, CreateLabels, RotateLabels, DeleteLabels, Replies
    <2>2. CASE Refused(p, Answer(p, "rb_user", "error"))
      BY <1>1, <2>2, JumpAnswer
         DEF Refused, Silent, Knows, Labels, Critical, CreateLabels, RotateLabels, DeleteLabels,
             Replies
    <2> QED BY <2>1, <2>2 DEF GrantProjectPrivileges
  <1>3. \/ done /\ req[p].host = 1 /\ Becomes(p, "c_grant", 2, req[p].pw, req[p].partial,
                                              req[p].reply)
        \/ done /\ req[p].host = 2 /\ Jumps(p, "c_flush", req[p].reply)
        \/ Jumps(p, "rb_user", "error")
    BY <1>2
  <1>4. /\ Touches(p)
        /\ done => /\ dbs' = dbs /\ acct' = acct
                   /\ granted'[Id(p)] = granted[Id(p)] \cup {req[p].host}
    <2>1. CASE done
      BY <1>1, <1>2, <2>1, GrantIs, MySQLTouches DEF Knows, Runs, Name, Id
    <2>2. CASE ~done
      BY <1>1, <1>2, <2>2, NothingTouches DEF Knows
    <2> QED BY <2>1, <2>2
  <1>5. /\ TypeOK' /\ Frame(p) /\ LockFor(p)'
        /\ req'[p] # req[p]
    <2>1. TypeOK' /\ Frame(p) /\ LockFor(p)'
      BY <1>1, <1>3, <1>4, CriticalFrame
         DEF Jumps, Labels, Critical, CreateLabels, RotateLabels, DeleteLabels, Replies
    <2>2. req'[p] # req[p]
      BY <1>1, <1>3 DEF Knows, Runs, Becomes, Jumps
    <2> QED BY <2>1, <2>2
  <1>6. ASSUME RowFor(p) PROVE RowFor(p)'
    BY <1>1, <1>2, <1>3, <1>4, <1>6
       DEF Knows, Runs, Becomes, Jumps, At, Answered, Name, RowFor, FlowInv, RowInv, disk,
           CreateLabels, RotateLabels, DeleteLabels
  <1>7. ASSUME RowFor(p), ResourceFor(p), \A n \in Names : OrphanFor(n)
        PROVE  ResourceFor(p)' /\ OrphanFor(Name(p))'
    <2>1. OrphanFor(Name(p))'
      BY <1>1, <1>2, <1>3, <1>4, <1>7
         DEF Knows, Runs, Becomes, Jumps, At, Answered, Name, RowFor, RowInv, OrphanFor, disk,
             CreateLabels, RotateLabels, DeleteLabels
    <2>2. CreateInv(p)'
      BY <1>1, <1>2, <1>3, <1>4, <1>7, ProvisionAssumption
         DEF Knows, Runs, Becomes, Jumps, At, Answered, Name, ResourceFor, CreateInv, Id, HostHas,
             HasAccount, Hosts, disk, After, UpTo, Removed, RowFor, FlowInv
    <2>3. RotateInv(p)' /\ DeleteInv(p)'
      BY <1>1, <1>3, <1>7
         DEF Knows, Runs, Becomes, Jumps, At, Answered, Name, RowFor, FlowInv, RotateInv,
             DeleteInv, UpTo, After, Removed
    <2> QED BY <2>1, <2>2, <2>3 DEF ResourceFor
  <1> QED BY <1>5, <1>6, <1>7 DEF Preserved

(* ALTER USER, host by host (service.go:200): it stops at the first host   *)
(* that fails.                                                             *)
LEMMA SetUserPasswordStep ==
  ASSUME NEW p \in Procs, TypeOK, LockFor(p), SetUserPassword(p)
  PROVE  Preserved(p)
  <1>1. Knows(p, "r_alter")
    BY Context DEF SetUserPassword
  <1>2. PICK done \in BOOLEAN :
          /\ \/ done /\ req[p].host = 1 /\ Becomes(p, "r_alter", 2, req[p].pw, req[p].partial,
                                                   req[p].reply)
             \/ done /\ req[p].host = 2 /\ Jumps(p, "r_secret", req[p].reply)
             \/ Jumps(p, "audit", "error")
          /\ IF done THEN AlterUser(Id(p), req[p].host, req[p].pw) ELSE UNCHANGED mysqlVars
          /\ UNCHANGED <<disk, locks>>
    <2>1. CASE MySQLCall(p, AlterUser(Id(p), req[p].host, req[p].pw), NextHost(p, "r_secret"),
      Answer(p, "audit", "error"))
      BY <1>1, <2>1, JumpHost, JumpReturns
         DEF MySQLCall, Knows, Labels, Critical, CreateLabels, RotateLabels, DeleteLabels, Replies
    <2>2. CASE Refused(p, Answer(p, "audit", "error"))
      BY <1>1, <2>2, JumpAnswer
         DEF Refused, Silent, Knows, Labels, Critical, CreateLabels, RotateLabels, DeleteLabels,
             Replies
    <2> QED BY <2>1, <2>2 DEF SetUserPassword
  <1>3. \/ done /\ req[p].host = 1 /\ Becomes(p, "r_alter", 2, req[p].pw, req[p].partial,
                                              req[p].reply)
        \/ done /\ req[p].host = 2 /\ Jumps(p, "r_secret", req[p].reply)
        \/ Jumps(p, "audit", "error")
    BY <1>2
  <1>4. /\ Touches(p)
        /\ done => /\ acct'[Id(p)][req[p].host] = req[p].pw
                   /\ \A k \in Hosts \ {req[p].host} : acct'[Id(p)][k] = acct[Id(p)][k]
    <2>1. CASE done
      BY <1>1, <1>2, <2>1, AlterUserIs, MySQLTouches DEF Knows, Runs, Name, Id
    <2>2. CASE ~done
      BY <1>1, <1>2, <2>2, NothingTouches DEF Knows
    <2> QED BY <2>1, <2>2
  <1>5. /\ TypeOK' /\ Frame(p) /\ LockFor(p)'
        /\ req'[p] # req[p]
    <2>1. TypeOK' /\ Frame(p) /\ LockFor(p)'
      BY <1>1, <1>3, <1>4, CriticalFrame
         DEF Jumps, Labels, Critical, CreateLabels, RotateLabels, DeleteLabels, Replies
    <2>2. req'[p] # req[p]
      BY <1>1, <1>3 DEF Knows, Runs, Becomes, Jumps
    <2> QED BY <2>1, <2>2
  <1>6. ASSUME RowFor(p) PROVE RowFor(p)'
    BY <1>1, <1>2, <1>3, <1>4, <1>6
       DEF Knows, Runs, Becomes, Jumps, At, Answered, Name, RowFor, FlowInv, RowInv, disk,
           CreateLabels, RotateLabels, DeleteLabels
  <1>7. ASSUME RowFor(p), ResourceFor(p), \A n \in Names : OrphanFor(n)
        PROVE  ResourceFor(p)' /\ OrphanFor(Name(p))'
    <2>1. OrphanFor(Name(p))'
      BY <1>1, <1>2, <1>3, <1>4, <1>7
         DEF Knows, Runs, Becomes, Jumps, At, Answered, Name, RowFor, RowInv, OrphanFor, disk,
             CreateLabels, RotateLabels, DeleteLabels
    <2>2. RotateInv(p)'
      BY <1>1, <1>2, <1>3, <1>4, <1>7, ProvisionAssumption
         DEF Knows, Runs, Becomes, Jumps, At, Answered, Name, ResourceFor, RotateInv, Id, HostHas,
             HasAccount, Hosts, disk, After, UpTo, Removed, RowFor, FlowInv
    <2>3. CreateInv(p)' /\ DeleteInv(p)'
      BY <1>1, <1>3, <1>7
         DEF Knows, Runs, Becomes, Jumps, At, Answered, Name, RowFor, FlowInv, CreateInv,
             DeleteInv, UpTo, After, Removed
    <2> QED BY <2>1, <2>2, <2>3 DEF ResourceFor
  <1> QED BY <1>5, <1>6, <1>7 DEF Preserved

(* DROP DATABASE (service.go:244): a failure is noted and Delete goes on.  *)
LEMMA DeleteDatabaseStep ==
  ASSUME NEW p \in Procs, TypeOK, LockFor(p), DeleteDatabase(p)
  PROVE  Preserved(p)
  <1>1. Knows(p, "d_db")
    BY Context DEF DeleteDatabase
  <1>2. PICK done \in BOOLEAN :
          /\ Returns(p, "mysql", done, Goto(p, "d_user"), Partial(p, "d_user"))
          /\ IF done THEN DropDatabase(Id(p)) ELSE UNCHANGED mysqlVars
          /\ UNCHANGED <<disk, locks>>
    BY DEF DeleteDatabase, MySQLCall
  <1>3. \/ done /\ Jumps(p, "d_user", req[p].reply)
        \/ Becomes(p, "d_user", 1, req[p].pw, TRUE, req[p].reply)
    BY <1>1, <1>2, Jump, PartialReturns
       DEF Knows, Labels, Critical, CreateLabels, RotateLabels, DeleteLabels, Replies
  <1>4. /\ Touches(p)
        /\ done => Id(p) \notin dbs' /\ acct' = acct /\ granted' = granted
    <2>1. CASE done
      BY <1>1, <1>2, <2>1, DropDatabaseIs, MySQLTouches DEF Knows, Runs, Name, Id
    <2>2. CASE ~done
      BY <1>1, <1>2, <2>2, NothingTouches DEF Knows
    <2> QED BY <2>1, <2>2
  <1>5. /\ TypeOK' /\ Frame(p) /\ LockFor(p)'
        /\ req'[p] # req[p]
    <2>1. TypeOK' /\ Frame(p) /\ LockFor(p)'
      BY <1>1, <1>3, <1>4, CriticalFrame
         DEF Jumps, Labels, Critical, CreateLabels, RotateLabels, DeleteLabels, Replies
    <2>2. req'[p] # req[p]
      BY <1>1, <1>3 DEF Knows, Runs, Becomes, Jumps
    <2> QED BY <2>1, <2>2
  <1>6. ASSUME RowFor(p) PROVE RowFor(p)'
    BY <1>1, <1>2, <1>3, <1>4, <1>6
       DEF Knows, Runs, Becomes, Jumps, At, Answered, Name, RowFor, FlowInv, RowInv, disk,
           CreateLabels, RotateLabels, DeleteLabels
  <1>7. ASSUME RowFor(p), ResourceFor(p), \A n \in Names : OrphanFor(n)
        PROVE  ResourceFor(p)' /\ OrphanFor(Name(p))'
    <2>1. OrphanFor(Name(p))'
      BY <1>1, <1>2, <1>3, <1>4, <1>7
         DEF Knows, Runs, Becomes, Jumps, At, Answered, Name, RowFor, RowInv, OrphanFor, disk,
             CreateLabels, RotateLabels, DeleteLabels
    <2>2. DeleteInv(p)'
      BY <1>1, <1>2, <1>3, <1>4, <1>7, ProvisionAssumption
         DEF Knows, Runs, Becomes, Jumps, At, Answered, Name, ResourceFor, DeleteInv, Id, HostHas,
             HasAccount, Hosts, disk, After, UpTo, Removed, RowFor, FlowInv
    <2>3. CreateInv(p)' /\ RotateInv(p)'
      BY <1>1, <1>3, <1>7
         DEF Knows, Runs, Becomes, Jumps, At, Answered, Name, RowFor, FlowInv, CreateInv,
             RotateInv, UpTo, After, Removed
    <2> QED BY <2>1, <2>2, <2>3 DEF ResourceFor
  <1> QED BY <1>5, <1>6, <1>7 DEF Preserved

(* DROP USER, host by host (service.go:247): a failure skips the second    *)
(* host.                                                                   *)
LEMMA DeleteUserStep ==
  ASSUME NEW p \in Procs, TypeOK, LockFor(p), DeleteUser(p)
  PROVE  Preserved(p)
  <1>1. Knows(p, "d_user")
    BY Context DEF DeleteUser
  <1>2. PICK done \in BOOLEAN :
          /\ Returns(p, "mysql", done, NextHost(p, "d_secret"), Partial(p, "d_secret"))
          /\ IF done THEN DropUser(Id(p), req[p].host) ELSE UNCHANGED mysqlVars
          /\ UNCHANGED <<disk, locks>>
    BY DEF DeleteUser, MySQLCall
  <1>3. \/ done /\ req[p].host = 1 /\ Becomes(p, "d_user", 2, req[p].pw, req[p].partial,
                                              req[p].reply)
        \/ done /\ req[p].host = 2 /\ Jumps(p, "d_secret", req[p].reply)
        \/ Becomes(p, "d_secret", 1, req[p].pw, TRUE, req[p].reply)
    BY <1>1, <1>2, JumpHost, PartialReturns
       DEF Knows, Labels, Critical, CreateLabels, RotateLabels, DeleteLabels, Replies
  <1>4. /\ Touches(p)
        /\ done => /\ dbs' = dbs
                   /\ acct'[Id(p)][req[p].host] = NoPw
                   /\ granted'[Id(p)] = granted[Id(p)] \ {req[p].host}
                   /\ \A k \in Hosts \ {req[p].host} : acct'[Id(p)][k] = acct[Id(p)][k]
    <2>1. CASE done
      BY <1>1, <1>2, <2>1, DropUserIs, MySQLTouches DEF Knows, Runs, Name, Id
    <2>2. CASE ~done
      BY <1>1, <1>2, <2>2, NothingTouches DEF Knows
    <2> QED BY <2>1, <2>2
  <1>a. granted[Id(p)] \subseteq {1, 2}
    BY <1>1 DEF Knows, Runs, MySQLTypeOK, Id, Hosts
  <1>5. /\ TypeOK' /\ Frame(p) /\ LockFor(p)'
        /\ req'[p] # req[p]
    <2>1. TypeOK' /\ Frame(p) /\ LockFor(p)'
      BY <1>1, <1>3, <1>4, CriticalFrame
         DEF Jumps, Labels, Critical, CreateLabels, RotateLabels, DeleteLabels, Replies
    <2>2. req'[p] # req[p]
      BY <1>1, <1>3 DEF Knows, Runs, Becomes, Jumps
    <2> QED BY <2>1, <2>2
  <1>6. ASSUME RowFor(p) PROVE RowFor(p)'
    BY <1>1, <1>2, <1>3, <1>4, <1>6
       DEF Knows, Runs, Becomes, Jumps, At, Answered, Name, RowFor, FlowInv, RowInv, disk,
           CreateLabels, RotateLabels, DeleteLabels
  <1>7. ASSUME RowFor(p), ResourceFor(p), \A n \in Names : OrphanFor(n)
        PROVE  ResourceFor(p)' /\ OrphanFor(Name(p))'
    <2>1. OrphanFor(Name(p))'
      BY <1>1, <1>2, <1>3, <1>4, <1>7
         DEF Knows, Runs, Becomes, Jumps, At, Answered, Name, RowFor, RowInv, OrphanFor, disk,
             CreateLabels, RotateLabels, DeleteLabels
    <2>2. DeleteInv(p)'
      BY <1>1, <1>2, <1>3, <1>4, <1>7, <1>a, ProvisionAssumption
         DEF Knows, Runs, Becomes, Jumps, At, Answered, Name, ResourceFor, DeleteInv, Id, HostHas,
             HasAccount, Hosts, disk, After, UpTo, Removed, RowFor, FlowInv
    <2>3. CreateInv(p)' /\ RotateInv(p)'
      BY <1>1, <1>3, <1>7
         DEF Knows, Runs, Becomes, Jumps, At, Answered, Name, RowFor, FlowInv, CreateInv,
             RotateInv, UpTo, After, Removed
    <2> QED BY <2>1, <2>2, <2>3 DEF ResourceFor
  <1> QED BY <1>5, <1>6, <1>7 DEF Preserved

(* INSERT of the pending row (service.go:106), when nothing of the project *)
(* exists.                                                                 *)
LEMMA CreateInsertStep ==
  ASSUME NEW p \in Procs, TypeOK, LockFor(p), CreateInsert(p)
  PROVE  Preserved(p)
  <1>1. Knows(p, "c_insert")
    BY Context DEF CreateInsert
  <1>2. PICK w \in Passwords, done \in BOOLEAN :
          /\ Returns(p, "sqlite", done, [Goto(p, "c_db") EXCEPT !.pw = w], Answer(p, "audit",
            "error"))
          /\ IF done THEN CreateProject(Name(p)) ELSE UNCHANGED <<rows, leaked>>
          /\ UNCHANGED <<mysqlVars, secret, locks>>
    BY DEF CreateInsert, StoreCall
  <1>3. \/ done /\ Becomes(p, "c_db", 1, w, req[p].partial, req[p].reply)
        \/ Jumps(p, "audit", "error")
    BY <1>1, <1>2, JumpPassword, JumpReturns
       DEF Knows, Labels, Critical, CreateLabels, RotateLabels, DeleteLabels, Replies
  <1>4. /\ Touches(p)
        /\ done => rows'[Name(p)] = "pending" /\ leaked' = leaked
    BY <1>1, <1>2
       DEF Knows, Runs, TypeOK, MySQLTypeOK, Touches, mysqlVars, SameProject, SameIn, Statuses,
           Name, CreateProject
  <1>5. /\ TypeOK' /\ Frame(p) /\ LockFor(p)'
        /\ req'[p] # req[p]
    <2>1. TypeOK' /\ Frame(p) /\ LockFor(p)'
      BY <1>1, <1>3, <1>4, CriticalFrame
         DEF Jumps, Labels, Critical, CreateLabels, RotateLabels, DeleteLabels, Replies
    <2>2. req'[p] # req[p]
      BY <1>1, <1>3 DEF Knows, Runs, Becomes, Jumps
    <2> QED BY <2>1, <2>2
  <1>6. ASSUME RowFor(p) PROVE RowFor(p)'
    BY <1>1, <1>2, <1>3, <1>4, <1>6
       DEF Knows, Runs, Becomes, Jumps, At, Answered, Name, RowFor, FlowInv, RowInv, mysqlVars,
           CreateLabels, RotateLabels, DeleteLabels
  <1>7. ASSUME RowFor(p), ResourceFor(p), \A n \in Names : OrphanFor(n)
        PROVE  ResourceFor(p)' /\ OrphanFor(Name(p))'
    <2>1. OrphanFor(Name(p))'
      BY <1>1, <1>2, <1>3, <1>4, <1>7
         DEF Knows, Runs, Becomes, Jumps, At, Answered, Name, RowFor, RowInv, OrphanFor, Nothing,
             ResourceFor, DeleteInv, HostHas, Id, Removed, mysqlVars, CreateLabels, RotateLabels,
             DeleteLabels
    <2>2. CreateInv(p)'
      BY <1>1, <1>2, <1>3, <1>4, <1>7, ProvisionAssumption
         DEF Knows, Runs, Becomes, Jumps, At, Answered, Name, ResourceFor, CreateInv, RowInv,
             OrphanFor, Nothing, Id, HostHas, HasAccount, Hosts, mysqlVars, After, UpTo, Removed,
             RowFor, FlowInv
    <2>3. RotateInv(p)' /\ DeleteInv(p)'
      BY <1>1, <1>3, <1>7
         DEF Knows, Runs, Becomes, Jumps, At, Answered, Name, RowFor, FlowInv, RotateInv,
             DeleteInv, UpTo, After, Removed
    <2> QED BY <2>1, <2>2, <2>3 DEF ResourceFor
  <1> QED BY <1>5, <1>6, <1>7 DEF Preserved

(* The update to ready (service.go:162) when every resource exists.        *)
LEMMA CreateReadyStep ==
  ASSUME NEW p \in Procs, TypeOK, LockFor(p), CreateReady(p)
  PROVE  Preserved(p)
  <1>1. Knows(p, "c_ready")
    BY Context DEF CreateReady
  <1>2. PICK done \in BOOLEAN :
          /\ Returns(p, "sqlite", done, Goto(p, "c_final"), Answer(p, "audit", "error"))
          /\ IF done THEN UpdateProjectStatus(Name(p), "ready") ELSE UNCHANGED <<rows, leaked>>
          /\ UNCHANGED <<mysqlVars, secret, locks>>
    BY DEF CreateReady, StoreCall
  <1>3. \/ done /\ Jumps(p, "c_final", req[p].reply)
        \/ Jumps(p, "audit", "error")
    BY <1>1, <1>2, Jump, JumpReturns
       DEF Knows, Labels, Critical, CreateLabels, RotateLabels, DeleteLabels, Replies
  <1>4. /\ Touches(p)
        /\ done /\ rows[Name(p)] # "none" => rows'[Name(p)] = "ready"
        /\ leaked' = leaked
        /\ rows[Name(p)] # "none" => rows'[Name(p)] # "none"
    BY <1>1, <1>2
       DEF Knows, Runs, TypeOK, MySQLTypeOK, Touches, mysqlVars, SameProject, SameIn, Statuses,
           Name, UpdateProjectStatus
  <1>5. /\ TypeOK' /\ Frame(p) /\ LockFor(p)'
        /\ req'[p] # req[p]
    <2>1. TypeOK' /\ Frame(p) /\ LockFor(p)'
      BY <1>1, <1>3, <1>4, CriticalFrame
         DEF Jumps, Labels, Critical, CreateLabels, RotateLabels, DeleteLabels, Replies
    <2>2. req'[p] # req[p]
      BY <1>1, <1>3 DEF Knows, Runs, Becomes, Jumps
    <2> QED BY <2>1, <2>2
  <1>6. ASSUME RowFor(p) PROVE RowFor(p)'
    BY <1>1, <1>2, <1>3, <1>4, <1>6
       DEF Knows, Runs, Becomes, Jumps, At, Answered, Name, RowFor, FlowInv, RowInv, mysqlVars,
           CreateLabels, RotateLabels, DeleteLabels
  <1>7. ASSUME RowFor(p), ResourceFor(p), \A n \in Names : OrphanFor(n)
        PROVE  ResourceFor(p)' /\ OrphanFor(Name(p))'
    <2>1. OrphanFor(Name(p))'
      BY <1>1, <1>2, <1>3, <1>4, <1>7
         DEF Knows, Runs, Becomes, Jumps, At, Answered, Name, RowFor, RowInv, OrphanFor, Nothing,
             ResourceFor, DeleteInv, HostHas, Id, Removed, mysqlVars, CreateLabels, RotateLabels,
             DeleteLabels
    <2>2. CreateInv(p)'
      BY <1>1, <1>2, <1>3, <1>4, <1>7, ProvisionAssumption
         DEF Knows, Runs, Becomes, Jumps, At, Answered, Name, ResourceFor, CreateInv, Id, HostHas,
             HasAccount, Hosts, mysqlVars, After, UpTo, Removed, RowFor, FlowInv
    <2>3. RotateInv(p)' /\ DeleteInv(p)'
      BY <1>1, <1>3, <1>7
         DEF Knows, Runs, Becomes, Jumps, At, Answered, Name, RowFor, FlowInv, RotateInv,
             DeleteInv, UpTo, After, Removed
    <2> QED BY <2>1, <2>2, <2>3 DEF ResourceFor
  <1> QED BY <1>5, <1>6, <1>7 DEF Preserved

(* The last read of Create (service.go:166), before it reports the project *)
(* as created.                                                             *)
LEMMA CreateFinalStep ==
  ASSUME NEW p \in Procs, TypeOK, LockFor(p), CreateFinal(p)
  PROVE  Preserved(p)
  <1>1. Knows(p, "c_final")
    BY Context DEF CreateFinal
  <1>2. PICK done \in BOOLEAN :
          /\ Returns(p, "sqlite", done, Answer(p, "audit", "created"), Answer(p, "audit", "error"))
          /\ IF done THEN UNCHANGED <<rows, leaked>> ELSE UNCHANGED <<rows, leaked>>
          /\ UNCHANGED <<mysqlVars, secret, locks>>
    BY DEF CreateFinal, StoreCall
  <1>3. \/ done /\ Jumps(p, "audit", "created")
        \/ Jumps(p, "audit", "error")
    BY <1>1, <1>2, JumpAnswer, JumpReturns
       DEF Knows, Labels, Critical, CreateLabels, RotateLabels, DeleteLabels, Replies
  <1>4. /\ Touches(p)
        /\ rows' = rows /\ leaked' = leaked
    BY <1>1, <1>2
       DEF Knows, Runs, TypeOK, MySQLTypeOK, Touches, mysqlVars, SameProject, SameIn, Statuses, Name
  <1>5. /\ TypeOK' /\ Frame(p) /\ LockFor(p)'
        /\ req'[p] # req[p]
    <2>1. TypeOK' /\ Frame(p) /\ LockFor(p)'
      BY <1>1, <1>3, <1>4, CriticalFrame
         DEF Jumps, Labels, Critical, CreateLabels, RotateLabels, DeleteLabels, Replies
    <2>2. req'[p] # req[p]
      BY <1>1, <1>3 DEF Knows, Runs, Becomes, Jumps
    <2> QED BY <2>1, <2>2
  <1>6. ASSUME RowFor(p) PROVE RowFor(p)'
    BY <1>1, <1>2, <1>3, <1>4, <1>6
       DEF Knows, Runs, Becomes, Jumps, At, Answered, Name, RowFor, FlowInv, RowInv, mysqlVars,
           CreateLabels, RotateLabels, DeleteLabels
  <1>7. ASSUME RowFor(p), ResourceFor(p), \A n \in Names : OrphanFor(n)
        PROVE  ResourceFor(p)' /\ OrphanFor(Name(p))'
    <2>1. OrphanFor(Name(p))'
      BY <1>1, <1>2, <1>3, <1>4, <1>7
         DEF Knows, Runs, Becomes, Jumps, At, Answered, Name, RowFor, RowInv, OrphanFor, Nothing,
             ResourceFor, DeleteInv, HostHas, Id, Removed, mysqlVars, CreateLabels, RotateLabels,
             DeleteLabels
    <2>2. CreateInv(p)'
      BY <1>1, <1>2, <1>3, <1>4, <1>7, ProvisionAssumption
         DEF Knows, Runs, Becomes, Jumps, At, Answered, Name, ResourceFor, CreateInv, Id, HostHas,
             HasAccount, Hosts, mysqlVars, After, UpTo, Removed, RowFor, FlowInv
    <2>3. RotateInv(p)' /\ DeleteInv(p)'
      BY <1>1, <1>3, <1>7
         DEF Knows, Runs, Becomes, Jumps, At, Answered, Name, RowFor, FlowInv, RotateInv,
             DeleteInv, UpTo, After, Removed
    <2> QED BY <2>1, <2>2, <2>3 DEF ResourceFor
  <1> QED BY <1>5, <1>6, <1>7 DEF Preserved

(* markError (service.go:312) on a row that is pending.                    *)
LEMMA MarkErrorStep ==
  ASSUME NEW p \in Procs, TypeOK, LockFor(p), MarkError(p)
  PROVE  Preserved(p)
  <1>1. Knows(p, "c_mark")
    BY Context DEF MarkError
  <1>2. PICK done \in BOOLEAN :
          /\ Returns(p, "sqlite", done, Goto(p, "audit"), Goto(p, "audit"))
          /\ IF done THEN UpdateProjectStatus(Name(p), "error") ELSE UNCHANGED <<rows, leaked>>
          /\ UNCHANGED <<mysqlVars, secret, locks>>
    BY DEF MarkError, StoreCall
  <1>3. \/ done /\ Jumps(p, "audit", req[p].reply)
        \/ Jumps(p, "audit", req[p].reply)
    BY <1>1, <1>2, Jump, GotoReturns
       DEF Knows, Labels, Critical, CreateLabels, RotateLabels, DeleteLabels, Replies
  <1>4. /\ Touches(p)
        /\ rows[Name(p)] # "none" => rows'[Name(p)] # "none"
    BY <1>1, <1>2
       DEF Knows, Runs, TypeOK, MySQLTypeOK, Touches, mysqlVars, SameProject, SameIn, Statuses,
           Name, UpdateProjectStatus
  <1>5. /\ TypeOK' /\ Frame(p) /\ LockFor(p)'
        /\ req'[p] # req[p]
    <2>1. TypeOK' /\ Frame(p) /\ LockFor(p)'
      BY <1>1, <1>3, <1>4, CriticalFrame
         DEF Jumps, Labels, Critical, CreateLabels, RotateLabels, DeleteLabels, Replies
    <2>2. req'[p] # req[p]
      BY <1>1, <1>3 DEF Knows, Runs, Becomes, Jumps
    <2> QED BY <2>1, <2>2
  <1>6. ASSUME RowFor(p) PROVE RowFor(p)'
    BY <1>1, <1>2, <1>3, <1>4, <1>6
       DEF Knows, Runs, Becomes, Jumps, At, Answered, Name, RowFor, FlowInv, RowInv, mysqlVars,
           CreateLabels, RotateLabels, DeleteLabels
  <1>7. ASSUME RowFor(p), ResourceFor(p), \A n \in Names : OrphanFor(n)
        PROVE  ResourceFor(p)' /\ OrphanFor(Name(p))'
    <2>1. OrphanFor(Name(p))'
      BY <1>1, <1>2, <1>3, <1>4, <1>7
         DEF Knows, Runs, Becomes, Jumps, At, Answered, Name, RowFor, RowInv, OrphanFor, Nothing,
             ResourceFor, DeleteInv, HostHas, Id, Removed, mysqlVars, CreateLabels, RotateLabels,
             DeleteLabels
    <2>2. CreateInv(p)'
      BY <1>1, <1>2, <1>3, <1>4, <1>7, ProvisionAssumption
         DEF Knows, Runs, Becomes, Jumps, At, Answered, Name, ResourceFor, CreateInv, Id, HostHas,
             HasAccount, Hosts, mysqlVars, After, UpTo, Removed, RowFor, FlowInv
    <2>3. RotateInv(p)' /\ DeleteInv(p)'
      BY <1>1, <1>3, <1>7
         DEF Knows, Runs, Becomes, Jumps, At, Answered, Name, RowFor, FlowInv, RotateInv,
             DeleteInv, UpTo, After, Removed
    <2> QED BY <2>1, <2>2, <2>3 DEF ResourceFor
  <1> QED BY <1>5, <1>6, <1>7 DEF Preserved

(* The read after Rotate's audit entry (service.go:211).                   *)
LEMMA RotateFinalStep ==
  ASSUME NEW p \in Procs, TypeOK, LockFor(p), RotateFinal(p)
  PROVE  Preserved(p)
  <1>1. Knows(p, "r_final")
    BY Context DEF RotateFinal
  <1>2. PICK done \in BOOLEAN :
          /\ Returns(p, "sqlite", done, Goto(p, "fin"), Answer(p, "fin", "error"))
          /\ IF done THEN UNCHANGED <<rows, leaked>> ELSE UNCHANGED <<rows, leaked>>
          /\ UNCHANGED <<mysqlVars, secret, locks>>
    BY DEF RotateFinal, StoreCall
  <1>3. \/ done /\ Jumps(p, "fin", req[p].reply)
        \/ Jumps(p, "fin", "error")
    BY <1>1, <1>2, Jump, JumpReturns
       DEF Knows, Labels, Critical, CreateLabels, RotateLabels, DeleteLabels, Replies
  <1>4. /\ Touches(p)
        /\ rows' = rows /\ leaked' = leaked
    BY <1>1, <1>2
       DEF Knows, Runs, TypeOK, MySQLTypeOK, Touches, mysqlVars, SameProject, SameIn, Statuses, Name
  <1>5. /\ TypeOK' /\ Frame(p) /\ LockFor(p)'
        /\ req'[p] # req[p]
    <2>1. TypeOK' /\ Frame(p) /\ LockFor(p)'
      BY <1>1, <1>3, <1>4, CriticalFrame
         DEF Jumps, Labels, Critical, CreateLabels, RotateLabels, DeleteLabels, Replies
    <2>2. req'[p] # req[p]
      BY <1>1, <1>3 DEF Knows, Runs, Becomes, Jumps
    <2> QED BY <2>1, <2>2
  <1>6. ASSUME RowFor(p) PROVE RowFor(p)'
    BY <1>1, <1>2, <1>3, <1>4, <1>6
       DEF Knows, Runs, Becomes, Jumps, At, Answered, Name, RowFor, FlowInv, RowInv, mysqlVars,
           CreateLabels, RotateLabels, DeleteLabels
  <1>7. ASSUME RowFor(p), ResourceFor(p), \A n \in Names : OrphanFor(n)
        PROVE  ResourceFor(p)' /\ OrphanFor(Name(p))'
    <2>1. OrphanFor(Name(p))'
      BY <1>1, <1>2, <1>3, <1>4, <1>7
         DEF Knows, Runs, Becomes, Jumps, At, Answered, Name, RowFor, RowInv, OrphanFor, Nothing,
             ResourceFor, DeleteInv, HostHas, Id, Removed, mysqlVars, CreateLabels, RotateLabels,
             DeleteLabels
    <2>2. RotateInv(p)'
      BY <1>1, <1>2, <1>3, <1>4, <1>7, ProvisionAssumption
         DEF Knows, Runs, Becomes, Jumps, At, Answered, Name, ResourceFor, RotateInv, Id, HostHas,
             HasAccount, Hosts, mysqlVars, After, UpTo, Removed, RowFor, FlowInv
    <2>3. CreateInv(p)' /\ DeleteInv(p)'
      BY <1>1, <1>3, <1>7
         DEF Knows, Runs, Becomes, Jumps, At, Answered, Name, RowFor, FlowInv, CreateInv,
             DeleteInv, UpTo, After, Removed
    <2> QED BY <2>1, <2>2, <2>3 DEF ResourceFor
  <1> QED BY <1>5, <1>6, <1>7 DEF Preserved

(* The removal of the row (service.go:253): the project is gone, or leaked *)
(* if a step before failed.                                                *)
LEMMA DeleteRowStep ==
  ASSUME NEW p \in Procs, TypeOK, LockFor(p), DeleteRow(p)
  PROVE  Preserved(p)
  <1>1. Knows(p, "d_row")
    BY Context DEF DeleteRow
  <1>2. PICK done \in BOOLEAN :
          /\ Returns(p, "sqlite", done, Answer(p, "audit",
            IF req[p].partial THEN "partial" ELSE "deleted"), [Answer(p, "audit",
                "partial") EXCEPT !.partial = TRUE])
          /\ IF done THEN DeleteProject(Name(p), req[p].partial) ELSE UNCHANGED <<rows, leaked>>
          /\ UNCHANGED <<mysqlVars, secret, locks>>
    BY DEF DeleteRow, StoreCall
  <1>3. \/ done /\ Jumps(p, "audit", IF req[p].partial THEN "partial" ELSE "deleted")
        \/ Becomes(p, "audit", 1, req[p].pw, TRUE, "partial")
    BY <1>1, <1>2, JumpAnswer, PartialAnswerReturns
       DEF Knows, Labels, Critical, CreateLabels, RotateLabels, DeleteLabels, Replies
  <1>4. /\ Touches(p)
        /\ done => /\ rows'[Name(p)] = "none"
                   /\ Name(p) \in leaked' <=> req[p].partial
    BY <1>1, <1>2
       DEF Knows, Runs, TypeOK, MySQLTypeOK, Touches, mysqlVars, SameProject, SameIn, Statuses,
           Name, DeleteProject, RequestFields
  <1>5. /\ TypeOK' /\ Frame(p) /\ LockFor(p)'
        /\ req'[p] # req[p]
    <2>1. TypeOK' /\ Frame(p) /\ LockFor(p)'
      BY <1>1, <1>3, <1>4, CriticalFrame
         DEF Jumps, Labels, Critical, CreateLabels, RotateLabels, DeleteLabels, Replies
    <2>2. req'[p] # req[p]
      BY <1>1, <1>3 DEF Knows, Runs, Becomes, Jumps
    <2> QED BY <2>1, <2>2
  <1>6. ASSUME RowFor(p) PROVE RowFor(p)'
    BY <1>1, <1>2, <1>3, <1>4, <1>6
       DEF Knows, Runs, Becomes, Jumps, At, Answered, Name, RowFor, FlowInv, RowInv, mysqlVars,
           CreateLabels, RotateLabels, DeleteLabels
  <1>7. ASSUME RowFor(p), ResourceFor(p), \A n \in Names : OrphanFor(n)
        PROVE  ResourceFor(p)' /\ OrphanFor(Name(p))'
    <2>1. OrphanFor(Name(p))'
      BY <1>1, <1>2, <1>3, <1>4, <1>7
         DEF Knows, Runs, Becomes, Jumps, At, Answered, Name, RowFor, RowInv, OrphanFor, Nothing,
             ResourceFor, DeleteInv, HostHas, Id, Removed, mysqlVars, CreateLabels, RotateLabels,
             DeleteLabels
    <2>2. DeleteInv(p)'
      BY <1>1, <1>2, <1>3, <1>4, <1>7, ProvisionAssumption
         DEF Knows, Runs, Becomes, Jumps, At, Answered, Name, ResourceFor, DeleteInv, Id, HostHas,
             HasAccount, Hosts, mysqlVars, After, UpTo, Removed, RowFor, FlowInv
    <2>3. CreateInv(p)' /\ RotateInv(p)'
      BY <1>1, <1>3, <1>7
         DEF Knows, Runs, Becomes, Jumps, At, Answered, Name, RowFor, FlowInv, CreateInv,
             RotateInv, UpTo, After, Removed
    <2> QED BY <2>1, <2>2, <2>3 DEF ResourceFor
  <1> QED BY <1>5, <1>6, <1>7 DEF Preserved

(* Create writes the secret file (service.go:153).                         *)
LEMMA CreateSecretStep ==
  ASSUME NEW p \in Procs, TypeOK, LockFor(p), CreateSecret(p)
  PROVE  Preserved(p)
  <1>1. Knows(p, "c_secret")
    BY Context DEF CreateSecret
  <1>2. UNCHANGED <<mysqlVars, rows, leaked, locks>>
    BY DEF CreateSecret, FileCall
  <1>3. \/ SetSecret(Name(p), req[p].pw) /\ Jumps(p, "c_ready", req[p].reply)
        \/ UNCHANGED secret /\ Jumps(p, "c_mark", "error")
    BY <1>1, Jump, JumpAnswer
       DEF CreateSecret, FileCall, Knows, Labels, Critical, CreateLabels, RotateLabels,
           DeleteLabels, Replies
  <1>4. /\ Touches(p)
        /\ SetSecret(Name(p), req[p].pw) => secret'[Name(p)] = req[p].pw
    BY <1>1, <1>2, <1>3
       DEF Knows, Runs, TypeOK, MySQLTypeOK, Touches, mysqlVars, SameProject, SameIn, SetSecret,
           MaybePassword, Name
  <1>5. /\ TypeOK' /\ Frame(p) /\ LockFor(p)'
        /\ req'[p] # req[p]
    <2>1. TypeOK' /\ Frame(p) /\ LockFor(p)'
      BY <1>1, <1>3, <1>4, CriticalFrame
         DEF Jumps, Labels, Critical, CreateLabels, RotateLabels, DeleteLabels, Replies
    <2>2. req'[p] # req[p]
      BY <1>1, <1>3 DEF Knows, Runs, Becomes, Jumps
    <2> QED BY <2>1, <2>2
  <1>6. ASSUME RowFor(p) PROVE RowFor(p)'
    BY <1>1, <1>2, <1>3, <1>4, <1>6
       DEF Knows, Runs, Becomes, Jumps, At, Answered, Name, RowFor, FlowInv, RowInv, mysqlVars,
           CreateLabels, RotateLabels, DeleteLabels
  <1>7. ASSUME RowFor(p), ResourceFor(p), \A n \in Names : OrphanFor(n)
        PROVE  ResourceFor(p)' /\ OrphanFor(Name(p))'
    <2>1. OrphanFor(Name(p))'
      BY <1>1, <1>2, <1>3, <1>4, <1>7
         DEF Knows, Runs, Becomes, Jumps, At, Answered, Name, RowFor, RowInv, OrphanFor, mysqlVars,
             CreateLabels, RotateLabels, DeleteLabels
    <2>2. CreateInv(p)'
      BY <1>1, <1>2, <1>3, <1>4, <1>7, ProvisionAssumption
         DEF Knows, Runs, Becomes, Jumps, At, Answered, Name, ResourceFor, CreateInv, Id, HostHas,
             HasAccount, Hosts, mysqlVars, After, UpTo, Removed, RowFor, FlowInv
    <2>3. RotateInv(p)' /\ DeleteInv(p)'
      BY <1>1, <1>3, <1>7
         DEF Knows, Runs, Becomes, Jumps, At, Answered, Name, RowFor, FlowInv, RotateInv,
             DeleteInv, UpTo, After, Removed
    <2> QED BY <2>1, <2>2, <2>3 DEF ResourceFor
  <1> QED BY <1>5, <1>6, <1>7 DEF Preserved

(* Rotate writes the secret file (service.go:204) once both accounts are   *)
(* changed.                                                                *)
LEMMA RotateSecretStep ==
  ASSUME NEW p \in Procs, TypeOK, LockFor(p), RotateSecret(p)
  PROVE  Preserved(p)
  <1>1. Knows(p, "r_secret")
    BY Context DEF RotateSecret
  <1>2. UNCHANGED <<mysqlVars, rows, leaked, locks>>
    BY DEF RotateSecret, FileCall
  <1>3. \/ SetSecret(Name(p), req[p].pw) /\ Jumps(p, "audit", "rotated")
        \/ UNCHANGED secret /\ Jumps(p, "audit", "error")
    BY <1>1, JumpAnswer
       DEF RotateSecret, FileCall, Knows, Labels, Critical, CreateLabels, RotateLabels,
           DeleteLabels, Replies
  <1>4. /\ Touches(p)
        /\ SetSecret(Name(p), req[p].pw) => secret'[Name(p)] = req[p].pw
    BY <1>1, <1>2, <1>3
       DEF Knows, Runs, TypeOK, MySQLTypeOK, Touches, mysqlVars, SameProject, SameIn, SetSecret,
           MaybePassword, Name
  <1>5. /\ TypeOK' /\ Frame(p) /\ LockFor(p)'
        /\ req'[p] # req[p]
    <2>1. TypeOK' /\ Frame(p) /\ LockFor(p)'
      BY <1>1, <1>3, <1>4, CriticalFrame
         DEF Jumps, Labels, Critical, CreateLabels, RotateLabels, DeleteLabels, Replies
    <2>2. req'[p] # req[p]
      BY <1>1, <1>3 DEF Knows, Runs, Becomes, Jumps
    <2> QED BY <2>1, <2>2
  <1>6. ASSUME RowFor(p) PROVE RowFor(p)'
    BY <1>1, <1>2, <1>3, <1>4, <1>6
       DEF Knows, Runs, Becomes, Jumps, At, Answered, Name, RowFor, FlowInv, RowInv, mysqlVars,
           CreateLabels, RotateLabels, DeleteLabels
  <1>7. ASSUME RowFor(p), ResourceFor(p), \A n \in Names : OrphanFor(n)
        PROVE  ResourceFor(p)' /\ OrphanFor(Name(p))'
    <2>1. OrphanFor(Name(p))'
      BY <1>1, <1>2, <1>3, <1>4, <1>7
         DEF Knows, Runs, Becomes, Jumps, At, Answered, Name, RowFor, RowInv, OrphanFor, mysqlVars,
             CreateLabels, RotateLabels, DeleteLabels
    <2>2. RotateInv(p)'
      BY <1>1, <1>2, <1>3, <1>4, <1>7, ProvisionAssumption
         DEF Knows, Runs, Becomes, Jumps, At, Answered, Name, ResourceFor, RotateInv, Id, HostHas,
             HasAccount, Hosts, mysqlVars, After, UpTo, Removed, RowFor, FlowInv
    <2>3. CreateInv(p)' /\ DeleteInv(p)'
      BY <1>1, <1>3, <1>7
         DEF Knows, Runs, Becomes, Jumps, At, Answered, Name, RowFor, FlowInv, CreateInv,
             DeleteInv, UpTo, After, Removed
    <2> QED BY <2>1, <2>2, <2>3 DEF ResourceFor
  <1> QED BY <1>5, <1>6, <1>7 DEF Preserved

(* Delete removes the secret file (service.go:250).                        *)
LEMMA DeleteSecretStep ==
  ASSUME NEW p \in Procs, TypeOK, LockFor(p), DeleteSecret(p)
  PROVE  Preserved(p)
  <1>1. Knows(p, "d_secret")
    BY Context DEF DeleteSecret
  <1>2. UNCHANGED <<mysqlVars, rows, leaked, locks>>
    BY DEF DeleteSecret, FileCall
  <1>3. \/ SetSecret(Name(p), NoPw) /\ Jumps(p, "d_row", req[p].reply)
        \/ UNCHANGED secret /\ Becomes(p, "d_row", 1, req[p].pw, TRUE, req[p].reply)
    BY <1>1, Jump, JumpPartial
       DEF DeleteSecret, FileCall, Knows, Labels, Critical, CreateLabels, RotateLabels,
           DeleteLabels, Replies
  <1>4. /\ Touches(p)
        /\ SetSecret(Name(p), NoPw) => secret'[Name(p)] = NoPw
    BY <1>1, <1>2, <1>3
       DEF Knows, Runs, TypeOK, MySQLTypeOK, Touches, mysqlVars, SameProject, SameIn, SetSecret,
           MaybePassword, Name
  <1>5. /\ TypeOK' /\ Frame(p) /\ LockFor(p)'
        /\ req'[p] # req[p]
    <2>1. TypeOK' /\ Frame(p) /\ LockFor(p)'
      BY <1>1, <1>3, <1>4, CriticalFrame
         DEF Jumps, Labels, Critical, CreateLabels, RotateLabels, DeleteLabels, Replies
    <2>2. req'[p] # req[p]
      BY <1>1, <1>3 DEF Knows, Runs, Becomes, Jumps
    <2> QED BY <2>1, <2>2
  <1>6. ASSUME RowFor(p) PROVE RowFor(p)'
    BY <1>1, <1>2, <1>3, <1>4, <1>6
       DEF Knows, Runs, Becomes, Jumps, At, Answered, Name, RowFor, FlowInv, RowInv, mysqlVars,
           CreateLabels, RotateLabels, DeleteLabels
  <1>7. ASSUME RowFor(p), ResourceFor(p), \A n \in Names : OrphanFor(n)
        PROVE  ResourceFor(p)' /\ OrphanFor(Name(p))'
    <2>1. OrphanFor(Name(p))'
      BY <1>1, <1>2, <1>3, <1>4, <1>7
         DEF Knows, Runs, Becomes, Jumps, At, Answered, Name, RowFor, RowInv, OrphanFor, mysqlVars,
             CreateLabels, RotateLabels, DeleteLabels
    <2>2. DeleteInv(p)'
      BY <1>1, <1>2, <1>3, <1>4, <1>7, ProvisionAssumption
         DEF Knows, Runs, Becomes, Jumps, At, Answered, Name, ResourceFor, DeleteInv, Id, HostHas,
             HasAccount, Hosts, mysqlVars, After, UpTo, Removed, RowFor, FlowInv
    <2>3. CreateInv(p)' /\ RotateInv(p)'
      BY <1>1, <1>3, <1>7
         DEF Knows, Runs, Becomes, Jumps, At, Answered, Name, RowFor, FlowInv, CreateInv,
             RotateInv, UpTo, After, Removed
    <2> QED BY <2>1, <2>2, <2>3 DEF ResourceFor
  <1> QED BY <1>5, <1>6, <1>7 DEF Preserved

(* Create looks the project up (service.go:90) and goes on only if there   *)
(* is no row.                                                              *)
LEMMA CreateLookupStep ==
  ASSUME NEW p \in Procs, TypeOK, LockFor(p), CreateLookup(p)
  PROVE  Preserved(p)
  <1>1. Knows(p, "c_get")
    BY Context DEF CreateLookup
  <1>2. UNCHANGED <<mysqlVars, disk, locks>>
    BY <1>1, LookupFailsIs DEF CreateLookup, Silent, NotFound, Knows
  <1>3. \/ Jumps(p, "audit", "existing")
        \/ Jumps(p, "fin", "refused")
        \/ rows[Name(p)] = "none" /\ Jumps(p, "c_insert", req[p].reply)
        \/ Jumps(p, "fin", "error")
    BY <1>1, LookupFailsIs, Jump, JumpAnswer
       DEF CreateLookup, Silent, Found, NotFound, Knows, Labels, Critical, CreateLabels,
           RotateLabels, DeleteLabels, Replies
  <1>4. Touches(p)
    BY <1>1, <1>2, NothingTouches DEF Knows
  <1>5. /\ TypeOK' /\ Frame(p) /\ LockFor(p)'
        /\ req'[p] # req[p]
    <2>1. TypeOK' /\ Frame(p) /\ LockFor(p)'
      BY <1>1, <1>3, <1>4, CriticalFrame
         DEF Jumps, Labels, Critical, CreateLabels, RotateLabels, DeleteLabels, Replies
    <2>2. req'[p] # req[p]
      BY <1>1, <1>3 DEF Knows, Runs, Becomes, Jumps
    <2> QED BY <2>1, <2>2
  <1>6. ASSUME RowFor(p) PROVE RowFor(p)'
    BY <1>1, <1>2, <1>3, <1>6
       DEF Knows, Runs, Becomes, Jumps, At, Answered, Name, RowFor, FlowInv, RowInv, disk,
           CreateLabels, RotateLabels, DeleteLabels
  <1>7. ASSUME \A n \in Names : OrphanFor(n)
        PROVE  ResourceFor(p)' /\ OrphanFor(Name(p))'
    <2>1. OrphanFor(Name(p))'
      BY <1>1, <1>2, <1>3, <1>7
         DEF Knows, Runs, Becomes, Jumps, At, Answered, Name, OrphanFor, Nothing, mysqlVars, disk
    <2>2. ResourceFor(p)'
      BY <1>1, <1>3
         DEF Knows, Runs, Becomes, Jumps, At, Answered, Name, ResourceFor, CreateInv, RotateInv,
             DeleteInv, UpTo, After, Removed
    <2> QED BY <2>1, <2>2
  <1> QED BY <1>5, <1>6, <1>7 DEF Preserved

(* Rotate looks the project up (service.go:185) and draws a password.      *)
LEMMA RotateLookupStep ==
  ASSUME NEW p \in Procs, TypeOK, LockFor(p), RotateLookup(p)
  PROVE  Preserved(p)
  <1>1. Knows(p, "r_get")
    BY Context DEF RotateLookup
  <1>2. UNCHANGED <<mysqlVars, disk, locks>>
    BY <1>1, LookupFailsIs DEF RotateLookup, Silent, NotFound, Knows
  <1>3. \/ \E w \in Passwords : rows[Name(p)] # "none" /\ Becomes(p, "r_alter", 1, w,
                                                                  req[p].partial, req[p].reply)
        \/ Jumps(p, "audit", "notfound")
        \/ Jumps(p, "fin", "error")
    BY <1>1, LookupFailsIs, JumpPassword, JumpAnswer
       DEF RotateLookup, Silent, Found, NotFound, Knows, Labels, Critical, CreateLabels,
           RotateLabels, DeleteLabels, Replies
  <1>4. Touches(p)
    BY <1>1, <1>2, NothingTouches DEF Knows
  <1>5. /\ TypeOK' /\ Frame(p) /\ LockFor(p)'
        /\ req'[p] # req[p]
    <2>1. TypeOK' /\ Frame(p) /\ LockFor(p)'
      BY <1>1, <1>3, <1>4, CriticalFrame
         DEF Jumps, Labels, Critical, CreateLabels, RotateLabels, DeleteLabels, Replies
    <2>2. req'[p] # req[p]
      BY <1>1, <1>3 DEF Knows, Runs, Becomes, Jumps
    <2> QED BY <2>1, <2>2
  <1>6. ASSUME RowFor(p) PROVE RowFor(p)'
    BY <1>1, <1>2, <1>3, <1>6
       DEF Knows, Runs, Becomes, Jumps, At, Answered, Name, RowFor, FlowInv, RowInv, disk,
           CreateLabels, RotateLabels, DeleteLabels
  <1>7. ASSUME \A n \in Names : OrphanFor(n)
        PROVE  ResourceFor(p)' /\ OrphanFor(Name(p))'
    <2>1. OrphanFor(Name(p))'
      BY <1>1, <1>2, <1>3, <1>7
         DEF Knows, Runs, Becomes, Jumps, At, Answered, Name, OrphanFor, Nothing, mysqlVars, disk
    <2>2. ResourceFor(p)'
      BY <1>1, <1>3
         DEF Knows, Runs, Becomes, Jumps, At, Answered, Name, ResourceFor, CreateInv, RotateInv,
             DeleteInv, UpTo, After, Removed
    <2> QED BY <2>1, <2>2
  <1> QED BY <1>5, <1>6, <1>7 DEF Preserved

(* Delete looks the project up (service.go:232).                           *)
LEMMA DeleteLookupStep ==
  ASSUME NEW p \in Procs, TypeOK, LockFor(p), DeleteLookup(p)
  PROVE  Preserved(p)
  <1>1. Knows(p, "d_get")
    BY Context DEF DeleteLookup
  <1>2. UNCHANGED <<mysqlVars, disk, locks>>
    BY <1>1, LookupFailsIs DEF DeleteLookup, Silent, NotFound, Knows
  <1>3. \/ rows[Name(p)] # "none" /\ Jumps(p, "d_db", req[p].reply)
        \/ Jumps(p, "audit", "notfound")
        \/ Jumps(p, "fin", "error")
    BY <1>1, LookupFailsIs, Jump, JumpAnswer
       DEF DeleteLookup, Silent, Found, NotFound, Knows, Labels, Critical, CreateLabels,
           RotateLabels, DeleteLabels, Replies
  <1>4. Touches(p)
    BY <1>1, <1>2, NothingTouches DEF Knows
  <1>5. /\ TypeOK' /\ Frame(p) /\ LockFor(p)'
        /\ req'[p] # req[p]
    <2>1. TypeOK' /\ Frame(p) /\ LockFor(p)'
      BY <1>1, <1>3, <1>4, CriticalFrame
         DEF Jumps, Labels, Critical, CreateLabels, RotateLabels, DeleteLabels, Replies
    <2>2. req'[p] # req[p]
      BY <1>1, <1>3 DEF Knows, Runs, Becomes, Jumps
    <2> QED BY <2>1, <2>2
  <1>6. ASSUME RowFor(p) PROVE RowFor(p)'
    BY <1>1, <1>2, <1>3, <1>6
       DEF Knows, Runs, Becomes, Jumps, At, Answered, Name, RowFor, FlowInv, RowInv, disk,
           CreateLabels, RotateLabels, DeleteLabels
  <1>7. ASSUME \A n \in Names : OrphanFor(n)
        PROVE  ResourceFor(p)' /\ OrphanFor(Name(p))'
    <2>1. OrphanFor(Name(p))'
      BY <1>1, <1>2, <1>3, <1>7
         DEF Knows, Runs, Becomes, Jumps, At, Answered, Name, OrphanFor, Nothing, mysqlVars, disk
    <2>2. ResourceFor(p)'
      BY <1>1, <1>3
         DEF Knows, Runs, Becomes, Jumps, At, Answered, Name, ResourceFor, CreateInv, RotateInv,
             DeleteInv, UpTo, After, Removed
    <2> QED BY <2>1, <2>2
  <1> QED BY <1>5, <1>6, <1>7 DEF Preserved

----------------------------------------------------------------------------
(* The steps outside the critical section.                                 *)

(* Get reads one row and holds no mutex (service.go:266).                  *)
LEMMA GetStep ==
  ASSUME NEW p \in Procs, TypeOK, LockFor(p), Get(p)
  PROVE  Preserved(p)
  <1>1. Knows(p, "g_get") /\ ~InCritical(p)
    BY Context DEF Get, At, InCritical, Critical, CreateLabels, RotateLabels, DeleteLabels
  <1>2. UNCHANGED <<mysqlVars, disk, locks>>
    BY <1>1, LookupFailsIs DEF Get, Silent, NotFound, Knows
  <1>3. \/ Jumps(p, "fin", "shown")
        \/ Jumps(p, "audit", "notfound")
        \/ Jumps(p, "fin", "error")
    BY <1>1, LookupFailsIs, JumpAnswer DEF Get, Silent, NotFound, Knows, Labels, Critical, Replies
  <1>4. TypeOK' /\ Frame(p)
    BY <1>1, <1>2, <1>3, QuietFrame DEF Knows, Runs, Jumps, Becomes, TypeOK, locks
  <1>5. LockFor(p)' /\ RowFor(p)' /\ ResourceFor(p)'
    BY <1>1, <1>3
       DEF Knows, Runs, Jumps, Becomes, LockFor, Holding, InCritical, Critical, CreateLabels,
         RotateLabels, DeleteLabels, RowFor, ResourceFor, FlowInv, RowInv, CreateInv, RotateInv,
           DeleteInv,
         At, Answered, UpTo, After, Removed
  <1> QED BY <1>1, <1>4, <1>5 DEF Preserved

(* The audit entry changes no resource, stored or not                      *)
(* (service.go:284-309).                                                   *)
LEMMA AuditIs ==
  ASSUME NEW p \in Procs, Runs(p, "audit"), Audit(p)
  PROVE  /\ UNCHANGED <<mysqlVars, disk, locks>>
         /\ Jumps(p, IF req[p].reply = "rotated" THEN "r_final" ELSE "fin", req[p].reply)
  <1> DEFINE l == IF req[p].reply = "rotated" THEN "r_final" ELSE "fin"
  <1>1. Is(AfterAudit(p), l, req[p].name, 1, req[p].pw, req[p].partial, req[p].reply)
    BY GotoIs DEF AfterAudit, Runs, Labels, Critical, RotateLabels
  <1>2. CASE Silent(p, [AfterAudit(p) EXCEPT !.logged = TRUE])
    <2>1. Is([AfterAudit(p) EXCEPT !.logged = TRUE], l, req[p].name, 1, req[p].pw, req[p].partial,
      req[p].reply)
      BY <1>1, LoggedIs, Zenon
    <2> QED BY <1>2, <2>1, MoveIs DEF Silent, Runs, Jumps
  <1>3. ASSUME NEW r \in Failing(p, "sqlite", AfterAudit(p)), NEW stored \in BOOLEAN,
               Silent(p, [r EXCEPT !.logged = stored])
        PROVE  UNCHANGED <<mysqlVars, disk, locks>> /\ Jumps(p, l, req[p].reply)
    <2>1. Is(r, l, req[p].name, 1, req[p].pw, req[p].partial, req[p].reply)
      BY <1>1, FailingIs
    <2>2. Is([r EXCEPT !.logged = stored], l, req[p].name, 1, req[p].pw, req[p].partial,
      req[p].reply)
      BY <2>1, LoggedIs, Zenon
    <2> QED BY <1>3, <2>2, MoveIs DEF Silent, Runs, Jumps
  <1>4. \/ Silent(p, [AfterAudit(p) EXCEPT !.logged = TRUE])
        \/ \E r \in Failing(p, "sqlite", AfterAudit(p)), stored \in BOOLEAN :
              Silent(p, [r EXCEPT !.logged = stored])
    BY Zenon DEF Audit
  <1>5. UNCHANGED <<mysqlVars, disk, locks>> /\ Jumps(p, l, req[p].reply)
    <2>1. CASE Silent(p, [AfterAudit(p) EXCEPT !.logged = TRUE])
      BY <1>2, <2>1 DEF Silent
    <2>2. CASE \E r \in Failing(p, "sqlite", AfterAudit(p)), stored \in BOOLEAN :
                  Silent(p, [r EXCEPT !.logged = stored])
      BY <1>3, <2>2, Zenon
    <2> QED BY <1>4, <2>1, <2>2
  <1> QED BY <1>5

(* The audit entry keeps what the answer has promised.                     *)
LEMMA AuditStep ==
  ASSUME NEW p \in Procs, TypeOK, LockFor(p), Audit(p)
  PROVE  Preserved(p)
  <1>1. Knows(p, "audit") /\ ~InCritical(p)
    BY Context DEF Audit, At, InCritical, Critical, CreateLabels, RotateLabels, DeleteLabels
  <1>2. /\ UNCHANGED <<mysqlVars, disk, locks>>
        /\ Jumps(p, IF req[p].reply = "rotated" THEN "r_final" ELSE "fin", req[p].reply)
    BY <1>1, AuditIs DEF Knows
  <1>3. TypeOK' /\ Frame(p)
    BY <1>1, <1>2, QuietFrame DEF Knows, Runs, Jumps, Becomes, TypeOK, locks
  <1>4. LockFor(p)'
    BY <1>1, <1>2
       DEF Knows, Runs, Jumps, Becomes, LockFor, Holding, InCritical, Critical, CreateLabels,
         RotateLabels, DeleteLabels, Answered, Name, locks
  <1>5. ASSUME RowFor(p) PROVE RowFor(p)'
    BY <1>1, <1>2, <1>5 DEF Knows, Runs, Jumps, Becomes, RowFor, FlowInv, RowInv, CreateLabels,
         RotateLabels, DeleteLabels, At, Answered, Name, disk
  <1>6. ASSUME ResourceFor(p) PROVE ResourceFor(p)'
    <2>1. CreateInv(p)'
      BY <1>1, <1>2, <1>6
         DEF Knows, Runs, Jumps, Becomes, ResourceFor, CreateInv, At, Answered, After,
           Name, Id, HostHas, HasAccount, mysqlVars, disk
    <2>2. RotateInv(p)' /\ DeleteInv(p)'
      BY <1>1, <1>2, <1>6
         DEF Knows, Runs, Jumps, Becomes, ResourceFor, RotateInv, DeleteInv, At, Answered,
           After, UpTo, Removed, Name, Id, HostHas, mysqlVars, disk
    <2> QED BY <2>1, <2>2 DEF ResourceFor
  <1> QED BY <1>1, <1>3, <1>4, <1>5, <1>6 DEF Preserved

\* A request that is idle, waits for a mutex or has been refused claims nothing.
Claimless(p) ==
    /\ req[p].at \in {"idle", "c_store", "c_io", "r_io", "d_io", "g_get", "audit", "c_unlock"}
    /\ req[p].reply \in {"none", "unconfirmed"}

(* Such a request satisfies the invariant after a step, whatever the step  *)
(* was.                                                                    *)
LEMMA ClaimlessHolds ==
  ASSUME NEW p, Claimless(p)'
  PROVE  LockFor(p)' /\ RowFor(p)' /\ ResourceFor(p)'
  BY
     DEF Claimless, LockFor, Holding, InCritical, Critical, CreateLabels, RotateLabels,
         DeleteLabels,
       RowFor, ResourceFor, FlowInv, RowInv, CreateInv, RotateInv, DeleteInv, At, Answered, UpTo,
         After, Removed

(* A request arrives.                                                      *)
LEMMA StartStep ==
  ASSUME NEW p \in Procs, TypeOK, LockFor(p), Start(p)
  PROVE  Preserved(p)
  <1>1. PICK l \in {"c_store", "r_io", "d_io", "g_get", "audit"}, a \in {"none", "unconfirmed"},
    n \in Names :
           At(p, "idle") /\ Silent(p, [Idle EXCEPT !.at = l, !.name = n, !.reply = a])
    BY Zenon DEF Start, BeginCreate, BeginRotate, BeginDelete, BeginGet, BeginUnconfirmed, Begin
  <1> DEFINE r == [Idle EXCEPT !.at = l, !.name = n, !.reply = a]
  <1>2. l \in Labels /\ a \in Replies /\ 1 \in Hosts /\ NoPw \in MaybePassword /\ "none" \in Replies
    BY DEF Labels, Replies, Hosts, MaybePassword
  <1>3. r \in Request /\ r.at = l /\ r.name = n /\ r.reply = a
    BY <1>2, Zenon DEF Idle, Request
  <1>4. /\ req' \in [Procs -> Request] /\ \A q \in Procs \ {p} : req'[q] = req[q]
        /\ req'[p] = r
    BY <1>1, <1>3 DEF Silent, Move, TypeOK
  <1>5. Claimless(p)'
    BY <1>1, <1>3, <1>4 DEF Claimless
  <1>6. ~InCritical(p)
    BY <1>1 DEF At, InCritical, Critical, CreateLabels, RotateLabels, DeleteLabels
  <1>7. TypeOK' /\ Frame(p)
    BY <1>1, <1>3, <1>4, <1>6, QuietFrame DEF Silent, TypeOK, locks
  <1>8. LockFor(p)' /\ RowFor(p)' /\ ResourceFor(p)'
    BY <1>5, ClaimlessHolds
  <1> QED BY <1>6, <1>7, <1>8 DEF Preserved

(* Create takes its first mutex (store.go:117).                            *)
LEMMA LockCreateStep ==
  ASSUME NEW p \in Procs, TypeOK, LockFor(p), LockCreate(p)
  PROVE  Preserved(p)
  <1>1. Knows(p, "c_store") /\ ~InCritical(p)
    BY Context DEF LockCreate, At, InCritical, Critical, CreateLabels, RotateLabels, DeleteLabels
  <1>2. Jumps(p, "c_io", req[p].reply) /\ UNCHANGED <<mysqlVars, disk, ioLock>>
    BY <1>1, Jump DEF LockCreate, Knows, Labels
  <1>3. TypeOK' /\ Frame(p)
    <2>1. storeLock' \in [Names -> Procs \cup {NoProc}]
      BY DEF LockCreate, TypeOK
    <2> QED BY <1>1, <1>2, <2>1, QuietFrame DEF Knows, Runs, Jumps, Becomes, TypeOK
  <1>4. LockFor(p)' /\ RowFor(p)' /\ ResourceFor(p)'
    BY <1>1, <1>2
       DEF Knows, Runs, Jumps, Becomes, LockFor, Holding, InCritical, Critical, CreateLabels,
         RotateLabels, DeleteLabels, RowFor, ResourceFor, FlowInv, RowInv, CreateInv, RotateInv,
           DeleteInv,
         At, Answered, UpTo, After, Removed
  <1> QED BY <1>1, <1>3, <1>4 DEF Preserved

(* Create, Rotate or Delete takes the mutex of the name (service.go:59).   *)
LEMMA LockNameStep ==
  ASSUME NEW p \in Procs, TypeOK, LockFor(p), LockName(p)
  PROVE  Preserved(p)
  <1>1. PICK k \in {"c_io", "r_io", "d_io"} : At(p, k)
    BY DEF LockName, AfterLock, At
  <1>2. Knows(p, k) /\ ~InCritical(p)
    BY <1>1, Context DEF At, InCritical, Critical, CreateLabels, RotateLabels, DeleteLabels
  <1>3. /\ \/ Jumps(p, "c_get", req[p].reply)
           \/ Jumps(p, "r_get", req[p].reply)
           \/ Jumps(p, "d_get", req[p].reply)
        /\ UNCHANGED <<mysqlVars, disk, storeLock>>
    <2>1. AfterLock[req[p].at] \in {"c_get", "r_get", "d_get"}
      BY <1>1 DEF AfterLock, At
    <2>2. Move(p, Goto(p, AfterLock[req[p].at])) /\ UNCHANGED <<mysqlVars, disk, storeLock>>
      BY DEF LockName
    <2> HIDE DEF AfterLock
    <2> QED BY <1>2, <2>1, <2>2, Jump
       DEF Knows, Labels, Critical, CreateLabels, RotateLabels, DeleteLabels
  <1>4. /\ ioLock' \in [Names -> Procs \cup {NoProc}] /\ ioLock'[Name(p)] = p
        /\ \A n \in Names : ioLock[n] \in Procs \ {p} => ioLock'[n] = ioLock[n]
    BY <1>2, ProvisionAssumption DEF LockName, Knows, Runs, Name, TypeOK
  <1>5. TypeOK' /\ Frame(p)
    BY <1>2, <1>3, <1>4, QuietFrame DEF Knows, Runs, Jumps, Becomes, TypeOK
  <1>6. LockFor(p)'
    BY <1>3, <1>4 DEF LockFor, Jumps, Becomes, Name
  <1>7. RowFor(p)' /\ ResourceFor(p)'
    BY <1>2, <1>3
       DEF Knows, Runs, Jumps, Becomes, RowFor, ResourceFor, FlowInv, RowInv, CreateInv, RotateInv,
         DeleteInv, At, Answered, UpTo, After, Removed, CreateLabels, RotateLabels, DeleteLabels
  <1> QED BY <1>2, <1>5, <1>6, <1>7 DEF Preserved

(* The handler returns and frees the mutex of the name.                    *)
LEMMA ReturnStep ==
  ASSUME NEW p \in Procs, TypeOK, LockFor(p), Return(p)
  PROVE  Preserved(p)
  <1>1. Knows(p, "fin") /\ ~InCritical(p)
    BY Context DEF Return, At, InCritical, Critical, CreateLabels, RotateLabels, DeleteLabels
  <1> DEFINE r == [Idle EXCEPT !.at = "c_unlock", !.name = req[p].name]
  <1>2. 1 \in Hosts /\ NoPw \in MaybePassword /\ "none" \in Replies /\ "c_unlock" \in Labels /\ "idle" \in Labels
    BY DEF Labels, Replies, Hosts, MaybePassword
  <1>3. r \in Request /\ r.at = "c_unlock" /\ r.name = req[p].name /\ r.reply = "none"
    <2>1. req[p].name \in Names
      BY <1>1 DEF Knows, Runs
    <2> QED BY <1>2, <2>1, Zenon DEF Idle, Request
  <1>4. Idle \in Request /\ Idle.at = "idle" /\ Idle.reply = "none"
    BY <1>2 DEF Idle, Request
  <1>5. \/ Move(p, r)
        \/ Move(p, Idle)
    BY Zenon DEF Return, Name
  <1>6. /\ req' \in [Procs -> Request] /\ \A q \in Procs \ {p} : req'[q] = req[q]
        /\ req'[p] = r \/ req'[p] = Idle
    <2> HIDE DEF r
    <2> QED BY <1>1, <1>3, <1>4, <1>5 DEF Move, Knows, Runs
  <1>7. Claimless(p)'
    <2> HIDE DEF r
    <2> QED BY <1>3, <1>4, <1>6 DEF Claimless
  <1>8. UNCHANGED <<mysqlVars, disk, storeLock>>
    BY DEF Return
  <1>9. /\ ioLock' \in [Names -> Procs \cup {NoProc}]
        /\ \A n \in Names : ioLock[n] \in Procs \ {p} => ioLock'[n] = ioLock[n]
    BY <1>1 DEF Return, Knows, TypeOK
  <1>10. req'[p].at # "idle" => req'[p].name \in Names
    <2> HIDE DEF r
    <2> QED BY <1>1, <1>3, <1>4, <1>6 DEF Knows, Runs
  <1>11. TypeOK' /\ Frame(p)
    BY <1>1, <1>6, <1>8, <1>9, <1>10, QuietFrame DEF Knows, TypeOK
  <1>12. LockFor(p)' /\ RowFor(p)' /\ ResourceFor(p)'
    BY <1>7, ClaimlessHolds
  <1> QED BY <1>1, <1>11, <1>12 DEF Preserved

(* Create frees its first mutex last.                                      *)
LEMMA ReleaseCreateStep ==
  ASSUME NEW p \in Procs, TypeOK, LockFor(p), ReleaseCreate(p)
  PROVE  Preserved(p)
  <1>1. Knows(p, "c_unlock") /\ ~InCritical(p)
    BY Context DEF ReleaseCreate, At, InCritical, Critical, CreateLabels, RotateLabels, DeleteLabels
  <1>2. Idle \in Request /\ Idle.at = "idle" /\ Idle.reply = "none"
    BY DEF Idle, Request, Labels, Replies, Hosts, MaybePassword
  <1>3. /\ req' \in [Procs -> Request] /\ \A q \in Procs \ {p} : req'[q] = req[q]
        /\ req'[p] = Idle
    BY <1>1, <1>2 DEF ReleaseCreate, Move, Knows, Runs
  <1>4. storeLock' \in [Names -> Procs \cup {NoProc}] /\ UNCHANGED <<mysqlVars, disk, ioLock>>
    BY <1>1 DEF ReleaseCreate, Knows, TypeOK
  <1>5. TypeOK' /\ Frame(p)
    BY <1>1, <1>2, <1>3, <1>4, QuietFrame DEF Knows, TypeOK
  <1>6. Claimless(p)'
    BY <1>2, <1>3 DEF Claimless
  <1>7. LockFor(p)' /\ RowFor(p)' /\ ResourceFor(p)'
    BY <1>6, ClaimlessHolds
  <1> QED BY <1>1, <1>5, <1>7 DEF Preserved

============================================================================
