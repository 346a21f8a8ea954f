-------------------------- MODULE ProvisionTheorems --------------------------
(***************************************************************************)
(* The theorems about Provision: ControlInv is inductive for any           *)
(* identifiers, IInv when no two names share one, and the safety           *)
(* properties follow for every set of names, requests and passwords and    *)
(* every combination of faults.                                            *)
(***************************************************************************)
EXTENDS ProvisionProofs

(* Every action of a request p keeps what p relies on and is seen by the    *)
(* other requests as Frame says.                                           *)
LEMMA StepPreserves ==
  ASSUME NEW p \in Procs, TypeOK, LockFor(p), Start(p) \/ Lock(p) \/ Run(p)
  PROVE  Preserved(p)
  <1>1. CASE Start(p)
    BY <1>1, StartStep
  <1>2. CASE Lock(p)
    BY <1>2, LockCreateStep, LockNameStep DEF Lock
  <1>3. CASE CreateStep(p)
    BY <1>3, CreateLookupStep, CreateInsertStep, EnsureDatabaseStep, EnsureUserStep,
       GrantProjectPrivilegesStep, FlushPrivilegesStep, CreateSecretStep, CreateReadyStep,
       CreateFinalStep, RollbackUserStep, RollbackDatabaseStep, MarkErrorStep
       DEF CreateStep
  <1>4. CASE RotateStep(p)
    BY <1>4, RotateLookupStep, SetUserPasswordStep, RotateSecretStep, RotateFinalStep
       DEF RotateStep
  <1>5. CASE DeleteStep(p)
    BY <1>5, DeleteLookupStep, DeleteDatabaseStep, DeleteUserStep, DeleteSecretStep, DeleteRowStep
       DEF DeleteStep
  <1>6. CASE Get(p)
    BY <1>6, GetStep
  <1>7. CASE Finish(p)
    BY <1>7, AuditStep, ReturnStep, ReleaseCreateStep DEF Finish
  <1> QED BY <1>1, <1>2, <1>3, <1>4, <1>5, <1>6, <1>7 DEF Run

(* A request that does not own its project has nothing to rely on.          *)
LEMMA NotHolding ==
  ASSUME NEW q, ~Holding(q), FlowInv(q)
  PROVE  RowFor(q) /\ ResourceFor(q)
  BY DEF Holding, InCritical, Critical, CreateLabels, RotateLabels, DeleteLabels, Answered, At,
     RowFor, RowInv, ResourceFor, CreateInv, RotateInv, DeleteInv, UpTo, After, Removed

(* The same after a step.                                                  *)
LEMMA NotHoldingNext ==
  ASSUME NEW q, ~Holding(q)', FlowInv(q)'
  PROVE  RowFor(q)' /\ ResourceFor(q)'
  BY DEF Holding, InCritical, Critical, CreateLabels, RotateLabels, DeleteLabels, Answered, At,
     RowFor, RowInv, ResourceFor, CreateInv, RotateInv, DeleteInv, UpTo, After, Removed

(* A request that owns a project does so on a name, and no other request    *)
(* is between the mutexes of that name.                                    *)
LEMMA Owner ==
  ASSUME NEW p \in Procs, NEW q \in Procs, TypeOK, LockFor(p), LockFor(q), Holding(q), q # p
  PROVE  Name(q) \in Names /\ (InCritical(p) => Name(p) \in Names /\ Name(p) # Name(q))
  <1>1. ASSUME NEW r \in Procs, Holding(r) PROVE Name(r) \in Names
    BY <1>1 DEF Holding, InCritical, Critical, CreateLabels, RotateLabels, DeleteLabels, Answered,
       TypeOK, Name
  <1> QED BY <1>1 DEF LockFor, Holding

(* What q relies on about the mutex and its row survives a step of p.       *)
LEMMA OtherControl ==
  ASSUME NEW p \in Procs, NEW q \in Procs, q # p, TypeOK, Frame(p),
         LockFor(p), LockFor(q), RowFor(q)
  PROVE  LockFor(q)' /\ RowFor(q)'
  <1>1. req'[q] = req[q]
    BY DEF Frame
  <1>2. FlowInv(q)' /\ (Holding(q)' <=> Holding(q)) /\ Name(q)' = Name(q)
    BY <1>1 DEF RowFor, FlowInv, Holding, InCritical, Answered, At, Name
  <1>3. CASE ~Holding(q)
    BY <1>2, <1>3, NotHoldingNext DEF LockFor
  <1>4. CASE Holding(q)
    <2>1. SameProject(Name(q))
      BY <1>4, Owner DEF Frame
    <2>2. LockFor(q)'
      BY <1>2, <1>4, Owner DEF LockFor, Frame
    <2>3. RowInv(q)'
      BY <1>1, <1>2, <2>1 DEF RowFor, RowInv, SameProject, At, Answered
    <2> QED BY <1>2, <2>2, <2>3 DEF RowFor
  <1> QED BY <1>3, <1>4

(* What q relies on about databases, accounts and secrets survives a step   *)
(* of p: p writes to the resources of its own identifier only.              *)
LEMMA OtherResources ==
  ASSUME Injective, NEW p \in Procs, NEW q \in Procs, q # p, TypeOK, Frame(p),
         LockFor(p), LockFor(q), RowFor(q), ResourceFor(q)
  PROVE  ResourceFor(q)'
  <1>1. req'[q] = req[q]
    BY DEF Frame
  <1>2. FlowInv(q)' /\ (Holding(q)' <=> Holding(q)) /\ Name(q)' = Name(q) /\ Id(q)' = Id(q)
    BY <1>1 DEF RowFor, FlowInv, Holding, InCritical, Answered, At, Name, Id
  <1>3. CASE ~Holding(q)
    BY <1>2, <1>3, NotHoldingNext
  <1>4. CASE Holding(q)
    <2>1. SameProject(Name(q))
      BY <1>4, Owner DEF Frame
    <2>2. SameIn(Id(q))
      BY <1>4, Owner, ProvisionAssumption DEF Frame, Injective, Id, Name
    <2>3. CreateInv(q)'
      BY <1>1, <1>2, <2>1, <2>2 DEF ResourceFor, CreateInv, SameProject, SameIn, At, Answered, After,
         HostHas, HasAccount
    <2>4. RotateInv(q)' /\ DeleteInv(q)'
      BY <1>1, <1>2, <2>1, <2>2 DEF ResourceFor, RotateInv, DeleteInv, SameProject, SameIn, At, Answered,
         After, UpTo, Removed, HostHas
    <2> QED BY <2>3, <2>4 DEF ResourceFor
  <1> QED BY <1>3, <1>4

(* A crash leaves idle requests and free mutexes, and every project as it   *)
(* was.                                                                    *)
LEMMA CrashStep ==
  ASSUME TypeOK, Crash
  PROVE  /\ TypeOK' /\ \A p \in Procs : LockFor(p)' /\ RowFor(p)' /\ ResourceFor(p)'
         /\ UNCHANGED <<mysqlVars, disk>>
  <1>1. Idle \in Request /\ Idle.at = "idle" /\ Idle.reply = "none"
    BY DEF Idle, Request, Labels, Replies, Hosts, MaybePassword
  <1>2. \A p \in Procs : Claimless(p)'
    BY <1>1 DEF Crash, Claimless
  <1>3. TypeOK'
    BY <1>1 DEF Crash, TypeOK, MySQLTypeOK, mysqlVars, disk
  <1> QED BY <1>2, <1>3, ClaimlessHolds DEF Crash

----------------------------------------------------------------------------
(* Control: mutexes and rows, for any identifiers.                         *)

(* The program starts with no project, no request and free mutexes.        *)
LEMMA ControlInit == Init => ControlInv
  <1> SUFFICES ASSUME Init PROVE ControlInv
    OBVIOUS
  <1>1. Idle \in Request /\ Idle.at = "idle" /\ Idle.reply = "none"
    BY DEF Idle, Request, Labels, Replies, Hosts, MaybePassword
  <1>2. TypeOK
    BY <1>1 DEF Init, MySQLInit, TypeOK, MySQLTypeOK, Statuses, MaybePassword
  <1>3. \A p \in Procs : At(p, "idle") /\ req[p].reply = "none"
    BY <1>1 DEF Init, At
  <1>4. \A p \in Procs : LockFor(p) /\ RowFor(p)
    BY <1>3 DEF LockFor, Holding, InCritical, Critical, CreateLabels, RotateLabels, DeleteLabels, Answered,
       At, RowFor, FlowInv, RowInv
  <1> QED BY <1>2, <1>4 DEF ControlInv

(* Every step preserves ControlInv.                                        *)
LEMMA ControlNext == ControlInv /\ [Next]_vars => ControlInv'
  <1> SUFFICES ASSUME ControlInv, [Next]_vars PROVE ControlInv'
    OBVIOUS
  <1>1. CASE UNCHANGED vars
    BY <1>1 DEF vars, mysqlVars, disk, locks, ControlInv, TypeOK, MySQLTypeOK, LockFor, Holding, InCritical,
       Answered, At, Name, RowFor, FlowInv, RowInv
  <1>2. CASE Crash
    BY <1>2, CrashStep DEF ControlInv
  <1>3. ASSUME NEW p \in Procs, Start(p) \/ Lock(p) \/ Run(p) PROVE ControlInv'
    <2>1. Preserved(p)
      BY <1>3, StepPreserves DEF ControlInv
    <2>2. \A q \in Procs \ {p} : LockFor(q)' /\ RowFor(q)'
      BY <2>1, OtherControl DEF ControlInv, Preserved
    <2> QED BY <2>1, <2>2 DEF ControlInv, Preserved
  <1> QED BY <1>1, <1>2, <1>3 DEF Next

(* The variables keep their types, and the mutexes and rows are what the    *)
(* program points of Create, Rotate and Delete rely on (service.go:80-263). *)
THEOREM ControlIsInvariant == Spec => []ControlInv
  BY ControlInit, ControlNext, PTL DEF Spec

(* Type correctness of the whole service.                                  *)
THEOREM TypeCorrect == Spec => []TypeOK
  <1>1. ControlInv => TypeOK
    BY DEF ControlInv
  <1> QED BY <1>1, ControlIsInvariant, PTL

(* Two requests are never between the mutexes of one name (service.go:59).  *)
THEOREM Exclusion == Spec => []MutualExclusion
  <1>1. ControlInv => MutualExclusion
    BY DEF ControlInv, MutualExclusion, LockFor, Holding
  <1> QED BY <1>1, ControlIsInvariant, PTL

(* ErrConflict never comes up in Create (service.go:114), whatever happens  *)
(* between its lookup and its insert.                                      *)
THEOREM InsertFresh == Spec => []InsertIsFresh
  <1>1. ControlInv => InsertIsFresh
    BY DEF ControlInv, InsertIsFresh, RowFor, RowInv
  <1> QED BY <1>1, ControlIsInvariant, PTL
----------------------------------------------------------------------------
(* Resources: databases, accounts, grants and secrets, when no two names    *)
(* share an identifier.                                                    *)

(* Nothing has been created when the program starts.                       *)
LEMMA ResourceInit == Init => IInv
  <1> SUFFICES ASSUME Init PROVE IInv
    OBVIOUS
  <1>1. ControlInv
    BY ControlInit
  <1>2. \A p \in Procs : ~Holding(p)
    BY DEF Init, Idle, Holding, InCritical, Critical, CreateLabels, RotateLabels, DeleteLabels, Answered
  <1>3. \A p \in Procs : ResourceFor(p)
    BY <1>1, <1>2, NotHolding DEF ControlInv, RowFor
  <1>4. OrphanInv
    BY ProvisionAssumption DEF Init, MySQLInit, OrphanInv, OrphanFor, Nothing, Hosts
  <1> QED BY <1>1, <1>3, <1>4 DEF IInv

(* What a step of p leaves behind of other projects is what was there.      *)
LEMMA OrphanNext ==
  ASSUME Injective, NEW p \in Procs, TypeOK, Frame(p), OrphanInv,
         InCritical(p) => OrphanFor(Name(p))'
  PROVE  OrphanInv'
  <1>1. InCritical(p) => Name(p) \in Names
    BY DEF TypeOK, InCritical, Critical, CreateLabels, RotateLabels, DeleteLabels, Name
  <1>2. ASSUME NEW n \in Names PROVE OrphanFor(n)'
    <2>1. CASE InCritical(p) /\ n = Name(p)
      BY <2>1 DEF Frame, Name
    <2>2. CASE ~(InCritical(p) /\ n = Name(p))
      <3>1. SameProject(n) /\ SameIn(SafeOf[n])
        BY <1>1, <2>2, ProvisionAssumption DEF Frame, Injective, Id, Name
      <3> QED BY <3>1 DEF OrphanInv, OrphanFor, Nothing, SameProject, SameIn
    <2> QED BY <2>1, <2>2
  <1>3. ASSUME NEW i \in Ids, \A n \in Names : SafeOf[n] # i PROVE Nothing(i)'
    <2>1. SameIn(i)
      BY <1>1, <1>3 DEF Frame, Id, Name
    <2> QED BY <1>3, <2>1 DEF OrphanInv, Nothing, SameIn
  <1> QED BY <1>2, <1>3 DEF OrphanInv

(* Every step preserves IInv.                                              *)
LEMMA ResourceNext == Injective /\ IInv /\ [Next]_vars => IInv'
  <1> SUFFICES ASSUME Injective, IInv, [Next]_vars PROVE IInv'
    OBVIOUS
  <1>1. ControlInv'
    BY ControlNext DEF IInv
  <1>2. CASE UNCHANGED <<mysqlVars, disk>> /\ \A p \in Procs : ResourceFor(p)'
    <2>1. OrphanInv'
      BY <1>2 DEF IInv, OrphanInv, OrphanFor, Nothing, mysqlVars, disk
    <2> QED BY <1>1, <1>2, <2>1 DEF IInv
  <1>3. CASE UNCHANGED vars
    <2>1. ASSUME NEW p \in Procs PROVE ResourceFor(p)'
      <3>1. CreateInv(p)'
        BY <1>3 DEF vars, mysqlVars, disk, IInv, ResourceFor, CreateInv,
           At, Answered, After, HostHas, HasAccount, Name, Id
      <3>2. RotateInv(p)' /\ DeleteInv(p)'
        BY <1>3 DEF vars, mysqlVars, disk, IInv, ResourceFor, RotateInv, DeleteInv,
           At, Answered, After, UpTo, Removed, HostHas, Name, Id
      <3> QED BY <3>1, <3>2 DEF ResourceFor
    <2> QED BY <1>2, <1>3, <2>1 DEF vars
  <1>4. CASE Crash
    BY <1>2, <1>4, CrashStep DEF IInv, ControlInv
  <1>5. ASSUME NEW p \in Procs, Start(p) \/ Lock(p) \/ Run(p) PROVE IInv'
    <2>1. Preserved(p)
      BY <1>5, StepPreserves DEF IInv, ControlInv
    <2>2. \A q \in Procs \ {p} : ResourceFor(q)'
      BY <2>1, OtherResources DEF IInv, ControlInv, Preserved
    <2>3. ResourceFor(p)' /\ (InCritical(p) => OrphanFor(Name(p))')
      BY <2>1 DEF IInv, ControlInv, Preserved, OrphanInv
    <2>4. OrphanInv'
      BY <2>1, <2>3, OrphanNext DEF IInv, ControlInv, Preserved
    <2> QED BY <1>1, <2>2, <2>3, <2>4 DEF IInv
  <1> QED BY <1>3, <1>4, <1>5 DEF Next

(* What is known at every program point of the databases, accounts, grants  *)
(* and secrets of service.go:80-263, when no two names share an identifier. *)
THEOREM ResourcesAreInvariant == ASSUME Injective PROVE Spec => []IInv
  <1>1. IInv /\ [Next]_vars => IInv'
    BY ResourceNext
  <1> QED BY <1>1, ResourceInit, PTL DEF Spec

(* No database, account, grant or secret outlives the record of its         *)
(* project, unless a Delete has removed the row after a step had failed     *)
(* (service.go:253), whether or not that was told to anyone.                *)
THEOREM NothingIsOrphaned == ASSUME Injective PROVE Spec => []NoOrphans
  <1>1. IInv => NoOrphans
    <2> SUFFICES ASSUME IInv PROVE NoOrphans
      OBVIOUS
    <2>1. ASSUME NEW i \in Ids, i \in dbs \/ granted[i] # {} \/ (\E h \in Hosts : HasAccount(i, h))
          PROVE  ~Nothing(i)
      BY <2>1 DEF Nothing, HasAccount, Hosts
    <2>2. ASSUME NEW i \in Ids, ~Nothing(i)
          PROVE  \E n \in Names : SafeOf[n] = i /\ (rows[n] # "none" \/ n \in leaked)
      <3>1. PICK n \in Names : SafeOf[n] = i
        BY <2>2 DEF IInv, OrphanInv
      <3> QED BY <2>2, <3>1 DEF IInv, OrphanInv, OrphanFor
    <2>3. \A n \in Names : secret[n] # NoPw => rows[n] # "none" \/ n \in leaked
      BY DEF IInv, OrphanInv, OrphanFor
    <2> QED BY <2>1, <2>2, <2>3 DEF NoOrphans
  <1> QED BY <1>1, ResourcesAreInvariant, PTL

(* A project reported as created is usable (service.go:171).               *)
THEOREM CreatedUsable == ASSUME Injective PROVE Spec => []CreatedIsUsable
  <1>1. ASSUME IInv, NEW p \in Procs, Answered(p, "created")
        PROVE  /\ Usable(Name(p)) /\ rows[Name(p)] = "ready"
               /\ Name(p) \notin leaked => InSync(Name(p), req[p].pw)
    <2>1. Name(p) \in Names
      BY <1>1 DEF IInv, ControlInv, TypeOK, Answered, Name
    <2>2. granted[Id(p)] \subseteq Hosts
      BY <1>1, <2>1, ProvisionAssumption DEF IInv, ControlInv, TypeOK, MySQLTypeOK, Id, Name
    <2>3. CreateInv(p) /\ rows[Name(p)] = "ready" /\ Id(p) = SafeOf[Name(p)]
      BY <1>1 DEF IInv, ControlInv, ResourceFor, RowFor, RowInv, Id, Name
    <2>4. /\ SafeOf[Name(p)] \in dbs /\ 1 \in granted[Id(p)] /\ 2 \in granted[Id(p)]
          /\ HasAccount(Id(p), 1) /\ HasAccount(Id(p), 2) /\ secret[Name(p)] = req[p].pw
          /\ Name(p) \notin leaked => HostHas(p, 1, req[p].pw) /\ HostHas(p, 2, req[p].pw)
      BY <1>1, <2>3 DEF CreateInv, After
    <2>5. \A h \in Hosts : h = 1 \/ h = 2
      BY DEF Hosts
    <2>6. granted[SafeOf[Name(p)]] = Hosts
      BY <2>2, <2>3, <2>4, <2>5
    <2> QED BY <2>3, <2>4, <2>5, <2>6 DEF Usable, InSync, HostHas
  <1>2. IInv => CreatedIsUsable
    BY <1>1 DEF CreatedIsUsable
  <1> QED BY <1>2, ResourcesAreInvariant, PTL

(* A password reported as rotated is in both accounts and in the secret     *)
(* file (service.go:210).                                                  *)
THEOREM RotatedInSync == ASSUME Injective PROVE Spec => []RotatedIsInSync
  <1>1. IInv => RotatedIsInSync
    BY DEF IInv, ResourceFor, RotateInv, RotatedIsInSync, InSync, After, HostHas, Id, Name, Hosts
  <1> QED BY <1>1, ResourcesAreInvariant, PTL

(* A project reported as deleted has left nothing behind (service.go:261).  *)
THEOREM DeletedGone == ASSUME Injective PROVE Spec => []DeletedIsGone
  <1>1. ASSUME IInv, NEW p \in Procs, Answered(p, "deleted")
        PROVE  Gone(Name(p)) /\ rows[Name(p)] = "none" /\ Name(p) \notin leaked
    <2>1. Name(p) \in Names
      BY <1>1 DEF IInv, ControlInv, TypeOK, Answered, Name
    <2>2. rows[Name(p)] = "none" /\ Name(p) \notin leaked
      BY <1>1 DEF IInv, ControlInv, RowFor, RowInv
    <2>3. Nothing(SafeOf[Name(p)]) /\ secret[Name(p)] = NoPw
      BY <1>1, <2>1, <2>2 DEF IInv, OrphanInv, OrphanFor
    <2> QED BY <2>2, <2>3 DEF Gone, Nothing, HasAccount, Hosts
  <1>2. IInv => DeletedIsGone
    BY <1>1 DEF DeletedIsGone
  <1> QED BY <1>2, ResourcesAreInvariant, PTL
----------------------------------------------------------------------------
(* What requests see of each other.                                        *)

(* Two states of the types of TypeOK in which the identifier i and the name *)
(* n are the same have the same resources for n.                           *)
LEMMA SameResources ==
  ASSUME NEW n \in Names, TypeOK, TypeOK', SameProject(n), SameIn(SafeOf[n])
  PROVE  Resources(n)' = Resources(n)
  <1> DEFINE i == SafeOf[n]
  <1>1. i \in Ids
    BY ProvisionAssumption
  <1>2. acct[i] \in [Hosts -> MaybePassword] /\ acct'[i] \in [Hosts -> MaybePassword]
    BY <1>1 DEF TypeOK, MySQLTypeOK
  <1>3. \A h \in Hosts : acct'[i][h] = acct[i][h]
    BY DEF SameIn, Hosts
  <1>4. acct'[i] = acct[i]
    BY <1>2, <1>3
  <1>5. (i \in dbs') = (i \in dbs) /\ granted'[i] = granted[i]
    BY DEF SameIn
  <1>6. rows'[n] = rows[n] /\ secret'[n] = secret[n]
    BY DEF SameProject
  <1> QED BY <1>4, <1>5, <1>6 DEF Resources

(* While a request is between the mutexes of a project, no step of another  *)
(* one touches the row, secret, database, accounts or grants of that        *)
(* project (service.go:85-107).                                            *)
THEOREM RequestsKeptApart == ASSUME Injective PROVE Spec => Undisturbed
  <1>1. ASSUME ControlInv, ControlInv', [Next]_vars, NEW q \in Procs, InCritical(q), req'[q] = req[q]
        PROVE  Resources(Name(q))' = Resources(Name(q))
    <2>1. Name(q)' = Name(q) /\ Name(q) \in Names /\ Holding(q)
      BY <1>1 DEF ControlInv, TypeOK, InCritical, Critical, CreateLabels, RotateLabels, DeleteLabels,
         Name, Holding
    <2>2. CASE UNCHANGED <<mysqlVars, disk>>
      BY <2>1, <2>2 DEF Resources, mysqlVars, disk
    <2>3. CASE \E p \in Procs : Start(p) \/ Lock(p) \/ Run(p)
      <3>1. PICK p \in Procs : Preserved(p)
        BY <1>1, <2>3, StepPreserves DEF ControlInv
      <3>2. p # q
        BY <1>1, <3>1 DEF Preserved
      <3>3. SameProject(Name(q)) /\ SameIn(SafeOf[Name(q)])
        BY <1>1, <2>1, <3>1, <3>2, Owner, ProvisionAssumption
           DEF Preserved, Frame, ControlInv, Injective, Id, Name
      <3>4. Resources(Name(q))' = Resources(Name(q))
        BY <1>1, <2>1, <3>3, SameResources DEF ControlInv, Resources, Name
      <3> QED BY <3>4
    <2> QED BY <1>1, <2>2, <2>3 DEF Next, Crash, vars
  <1>2. ControlInv /\ ControlInv' /\ [Next]_vars => [OthersKeepOut]_vars
    BY <1>1 DEF OthersKeepOut
  <1> QED BY <1>2, ControlIsInvariant, PTL DEF Spec, Undisturbed

----------------------------------------------------------------------------
(* The status of a project moves as ProjectLifecycle says.                 *)

(* A call to the store that takes its effect or none.                      *)
LEMMA Stored ==
  ASSUME NEW p, NEW write, NEW ok, NEW err, StoreCall(p, write, ok, err)
  PROVE  write \/ UNCHANGED rows
  BY DEF StoreCall

(* Each of the four statements that write a row makes a step of the         *)
(* lifecycle, from the status its program point relies on.                 *)
LEMMA LifecycleStep ==
  ASSUME ControlInv, NEW p \in Procs, Start(p) \/ Lock(p) \/ Run(p)
  PROVE  [Lifecycle!Next]_rows
  <1>1. TypeOK /\ RowFor(p)
    BY DEF ControlInv
  <1> DEFINE n == Name(p)
             Moves(s) == rows' = [rows EXCEPT ![n] = s]
  <1>2. ASSUME req[p].at # "idle" PROVE n \in Names /\ rows[n] \in Statuses /\ rows \in [Names -> Statuses]
    BY <1>1, <1>2 DEF TypeOK, Name
  <1>3. CASE CreateInsert(p)
    <2>1. rows[n] = "none" /\ n \in Names
      BY <1>1, <1>2, <1>3 DEF CreateInsert, RowFor, RowInv, At
    <2>2. Moves("pending") \/ UNCHANGED rows
      BY <1>3, Stored DEF CreateInsert, CreateProject
    <2> QED BY <2>1, <2>2 DEF Lifecycle!Next, Lifecycle!Register, Lifecycle!Becomes
  <1>4. CASE CreateReady(p)
    <2>1. rows[n] = "pending" /\ n \in Names
      BY <1>1, <1>2, <1>4 DEF CreateReady, RowFor, RowInv, At, CreateLabels
    <2>2. Moves("ready") \/ UNCHANGED rows
      BY <1>4, <2>1, Stored DEF CreateReady, UpdateProjectStatus
    <2> QED BY <2>1, <2>2 DEF Lifecycle!Next, Lifecycle!Complete, Lifecycle!Becomes
  <1>5. CASE MarkError(p)
    <2>1. rows[n] = "pending" /\ n \in Names
      BY <1>1, <1>2, <1>5 DEF MarkError, RowFor, RowInv, At, CreateLabels
    <2>2. Moves("error") \/ UNCHANGED rows
      BY <1>5, <2>1, Stored DEF MarkError, UpdateProjectStatus
    <2> QED BY <2>1, <2>2 DEF Lifecycle!Next, Lifecycle!Fail, Lifecycle!Becomes
  <1>6. CASE DeleteRow(p)
    <2>1. rows[n] # "none" /\ n \in Names
      BY <1>1, <1>2, <1>6 DEF DeleteRow, RowFor, RowInv, At, RotateLabels, DeleteLabels
    <2>2. Moves("none") \/ UNCHANGED rows
      BY <1>6, Stored DEF DeleteRow, DeleteProject
    <2> QED BY <2>1, <2>2 DEF Lifecycle!Next, Lifecycle!Remove, Lifecycle!Becomes
  <1>7. CASE Start(p) \/ Lock(p) \/ Get(p) \/ Finish(p)
    <2>1. UNCHANGED rows
      BY <1>7 DEF Start, BeginCreate, BeginRotate, BeginDelete, BeginGet, BeginUnconfirmed, Begin, Lock,
         LockCreate, LockName, Get, NotFound, LookupFails, Finish, Audit, Return, ReleaseCreate, Silent, disk
    <2> QED BY <2>1
  <1>8. CASE CreateStep(p) /\ ~CreateInsert(p) /\ ~CreateReady(p) /\ ~MarkError(p)
    <2>1. UNCHANGED rows
      BY <1>8, Stored DEF CreateStep, CreateLookup, EnsureDatabase, EnsureUser, GrantProjectPrivileges, Refused,
         FlushPrivileges, CreateSecret, CreateFinal, RollbackUser, RollbackDatabase, MySQLCall, FileCall,
         LookupFails, Silent, disk
    <2> QED BY <2>1
  <1>9. CASE RotateStep(p) \/ (DeleteStep(p) /\ ~DeleteRow(p))
    <2>1. UNCHANGED rows
      BY <1>9, Stored DEF RotateStep, RotateLookup, SetUserPassword, Refused, RotateSecret, RotateFinal,
         DeleteStep, DeleteLookup, DeleteDatabase, DeleteUser, DeleteSecret, MySQLCall, FileCall,
         NotFound, LookupFails, Silent, disk
    <2> QED BY <2>1
  <1> QED BY <1>3, <1>4, <1>5, <1>6, <1>7, <1>8, <1>9 DEF Run

(* The service implements ProjectLifecycle under every fault: markError     *)
(* (service.go:312) and the final update (service.go:162) find the row      *)
(* pending, however the requests before them ended.                        *)
THEOREM LifecycleImplemented == Spec => ImplementsLifecycle
  <1>1. Init => Lifecycle!Init
    BY DEF Init, Lifecycle!Init
  <1>2. ControlInv /\ [Next]_vars => [Lifecycle!Next]_rows
    <2>1. Crash \/ UNCHANGED vars => UNCHANGED rows
      BY DEF Crash, vars, disk
    <2> QED BY <2>1, LifecycleStep DEF Next
  <1> QED BY <1>1, <1>2, ControlIsInvariant, PTL DEF Spec, ImplementsLifecycle, Lifecycle!Spec
----------------------------------------------------------------------------
(* While no client gives up and the metadata can be read and written.      *)

\* Record r is a request of p at label l with the same password and history.
Keeps(p, r, l) ==
    /\ r \in Request
    /\ r.at = l /\ r.pw = req[p].pw /\ r.live = req[p].live /\ r.logged = req[p].logged

(* Goto, Answer, Partial and NextHost keep the password and the history.    *)
LEMMA KeepsIs ==
  ASSUME NEW p, NEW l \in Labels, req[p] \in Request
  PROVE  /\ Keeps(p, Goto(p, l), l) /\ Goto(p, l).reply = req[p].reply
         /\ \A a \in Replies : Keeps(p, Answer(p, l, a), l) /\ Answer(p, l, a).reply = a
         /\ Keeps(p, Partial(p, l), l)
         /\ Keeps(p, NextHost(p, l), l) \/ Keeps(p, NextHost(p, l), req[p].at)
         /\ NextHost(p, l).reply = req[p].reply
  <1>1. 1 \in Hosts /\ 2 \in Hosts
    BY DEF Hosts
  <1>2. Keeps(p, Goto(p, l), l) /\ Goto(p, l).reply = req[p].reply
    BY <1>1, Zenon DEF Keeps, Goto, Request
  <1>3. ASSUME NEW a \in Replies PROVE Keeps(p, Answer(p, l, a), l) /\ Answer(p, l, a).reply = a
    BY <1>1, Zenon DEF Keeps, Answer, Goto, Request
  <1>4. Keeps(p, Partial(p, l), l)
    BY <1>1, Zenon DEF Keeps, Partial, Goto, Request
  <1>5. /\ Keeps(p, [req[p] EXCEPT !.host = 2], req[p].at)
        /\ [req[p] EXCEPT !.host = 2].reply = req[p].reply
    BY <1>1, Zenon DEF Keeps, Request
  <1>6. CASE req[p].host = 1
    <2>1. NextHost(p, l) = [req[p] EXCEPT !.host = 2]
      BY <1>1, <1>6, RequestFields DEF NextHost
    <2> QED BY <1>2, <1>3, <1>4, <1>5, <2>1
  <1>7. CASE req[p].host # 1
    <2>1. NextHost(p, l) = Goto(p, l)
      BY <1>7 DEF NextHost
    <2> QED BY <1>2, <1>3, <1>4, <2>1
  <1> QED BY <1>6, <1>7

(* A call of a request whose client stays fails for one reason only: the    *)
(* server errs.                                                            *)
LEMMA AttendedReturns ==
  ASSUME Attended, NEW p \in Procs, Reliable(req[p]), NEW kind, NEW done, NEW ok, NEW err \in Request,
         Returns(p, kind, done, ok, err)
  PROVE  (done /\ Move(p, ok)) \/ (kind \in Faults /\ Move(p, err))
  <1>1. ASSUME NEW r \in Failing(p, kind, err) PROVE r = err /\ kind \in Faults
    <2>1. [err EXCEPT !.live = FALSE].live = FALSE
      BY DEF Request
    <2> QED BY <2>1 DEF Failing, Reliable, Attended
  <1> QED BY <1>1 DEF Returns

\* Labels at which nothing need be known of the request.
Open == Labels \ {"c_store", "c_io", "c_get", "g_get", "r_alter", "r_secret", "fin", "r_final"}

(* A record that keeps the history of p is as reliable as p.               *)
LEMMA KeepsReliable ==
  ASSUME NEW p, Reliable(req[p]), NEW r, NEW l, Keeps(p, r, l),
         l \in Open \/ (l \in {"r_alter", "r_secret"} /\ req[p].at \in {"r_alter", "r_secret"})
  PROVE  Reliable(r)
  BY DEF Keeps, Reliable, Open

(* The step that moves p on as record r.                                   *)
LEMMA MoveReliable ==
  ASSUME NEW p \in Procs, req \in [Procs -> Request], NEW r, Reliable(r), Move(p, r)
  PROVE  Reliable(req'[p])
  BY DEF Move

(* A call to MySQL is reliable if both of its outcomes are.                *)
LEMMA MySQLReliable ==
  ASSUME Attended, NEW p \in Procs, req \in [Procs -> Request], Reliable(req[p]),
         NEW stmt, NEW ok, NEW err \in Request, MySQLCall(p, stmt, ok, err), Reliable(ok), Reliable(err)
  PROVE  Reliable(req'[p])
  BY AttendedReturns, MoveReliable DEF MySQLCall

(* A call to the store has the outcome of its success.                     *)
LEMMA StoreSucceeds ==
  ASSUME Attended, NEW p \in Procs, Reliable(req[p]),
         NEW write, NEW ok, NEW err \in Request, StoreCall(p, write, ok, err)
  PROVE  write /\ Move(p, ok)
  BY AttendedReturns DEF StoreCall, Attended

(* GetProject does not fail.                                               *)
LEMMA LookupSucceeds ==
  ASSUME Attended, NEW p \in Procs, req[p] \in Request, Reliable(req[p])
  PROVE  ~LookupFails(p)
  <1>1. Answer(p, "fin", "error") \in Request
    BY KeepsIs DEF Keeps, Labels, Replies
  <1>2. [Answer(p, "fin", "error") EXCEPT !.live = FALSE].live = FALSE
    BY <1>1 DEF Request
  <1> QED BY <1>2 DEF LookupFails, Failing, Attended, Reliable

(* The steps that begin a request, take a mutex or end it.                 *)
LEMMA OuterReliable ==
  ASSUME Attended, NEW p \in Procs, TypeOK, Reliable(req[p]), Start(p) \/ Lock(p) \/ Get(p) \/ Finish(p)
  PROVE  Reliable(req'[p])
  <1>1. req \in [Procs -> Request] /\ req[p] \in Request
    BY DEF TypeOK
  <1> USE DEF Silent, At
  <1>2. Idle.live /\ Idle.pw = NoPw /\ Idle.reply = "none" /\ Idle.at = "idle"
    BY DEF Idle
  <1>3. CASE Start(p)
    <2>1. PICK l \in {"c_store", "r_io", "d_io", "g_get", "audit"}, n \in Names, reply \in Replies :
             Move(p, [Idle EXCEPT !.at = l, !.name = n, !.reply = reply])
      BY <1>3 DEF Start, BeginCreate, BeginRotate, BeginDelete, BeginGet, BeginUnconfirmed, Begin, Replies
    <2>2. Reliable([Idle EXCEPT !.at = l, !.name = n, !.reply = reply])
      BY <1>2 DEF Idle, Reliable
    <2> QED BY <1>1, <2>1, <2>2, MoveReliable
  <1>4. CASE LockCreate(p)
    <2>1. Keeps(p, Goto(p, "c_io"), "c_io")
      BY <1>1, KeepsIs DEF Labels
    <2>2. Reliable(Goto(p, "c_io"))
      BY <1>4, <2>1 DEF LockCreate, Keeps, Reliable
    <2> QED BY <1>1, <1>4, <2>2, MoveReliable DEF LockCreate
  <1>5. CASE LockName(p)
    <2>1. PICK l \in {"c_get", "r_get", "d_get"} :
             Move(p, Goto(p, l)) /\ (l = "c_get" => req[p].at = "c_io")
      BY <1>5 DEF LockName, AfterLock
    <2>2. Keeps(p, Goto(p, l), l)
      BY <1>1, KeepsIs DEF Labels, Critical, CreateLabels, RotateLabels, DeleteLabels
    <2>3. Reliable(Goto(p, l))
      BY <2>1, <2>2 DEF Keeps, Reliable
    <2> QED BY <1>1, <2>1, <2>3, MoveReliable
  <1>6. CASE Get(p)
    <2>1. ~LookupFails(p)
      BY <1>1, LookupSucceeds
    <2>2. PICK r : /\ Move(p, r)
                   /\ r = Answer(p, "fin", "shown") \/ r = Answer(p, "audit", "notfound")
      BY <1>6, <2>1 DEF Get, NotFound
    <2>3. /\ Keeps(p, Answer(p, "fin", "shown"), "fin") /\ Answer(p, "fin", "shown").reply = "shown"
          /\ Keeps(p, Answer(p, "audit", "notfound"), "audit")
      BY <1>1, KeepsIs DEF Labels, Replies
    <2>4. Reliable(r)
      BY <1>6, <2>2, <2>3 DEF Get, Keeps, Reliable
    <2> QED BY <1>1, <2>2, <2>4, MoveReliable
  <1>7. CASE Audit(p)
    <2>1. Keeps(p, AfterAudit(p), AfterAudit(p).at) /\ AfterAudit(p).at \in {"fin", "r_final"}
      <3>1. PICK l \in {"fin", "r_final"} : AfterAudit(p) = Goto(p, l)
        BY DEF AfterAudit
      <3>2. l \in Labels
        BY DEF Labels, Critical, RotateLabels
      <3> QED BY <1>1, <3>1, <3>2, KeepsIs DEF Keeps
    <2>2. Move(p, [AfterAudit(p) EXCEPT !.logged = TRUE])
      <3>1. \A r \in Failing(p, "sqlite", AfterAudit(p)) : FALSE
        <4>1. [AfterAudit(p) EXCEPT !.live = FALSE].live = FALSE
          BY <2>1 DEF Keeps, Request
        <4> QED BY <4>1 DEF Failing, Attended, Reliable
      <3> QED BY <1>7, <3>1 DEF Audit
    <2>3. Reliable([AfterAudit(p) EXCEPT !.logged = TRUE])
      <3>1. /\ [AfterAudit(p) EXCEPT !.logged = TRUE].logged
            /\ [AfterAudit(p) EXCEPT !.logged = TRUE].live = AfterAudit(p).live
            /\ [AfterAudit(p) EXCEPT !.logged = TRUE].at = AfterAudit(p).at
        BY <2>1 DEF Keeps, Request
      <3> QED BY <2>1, <3>1 DEF Keeps, Reliable
    <2> QED BY <1>1, <2>2, <2>3, MoveReliable
  <1>8. CASE Return(p) \/ ReleaseCreate(p)
    <2>1. PICK r : Move(p, r) /\ (r = Idle \/ r = [Idle EXCEPT !.at = "c_unlock", !.name = Name(p)])
      BY <1>8 DEF Return, ReleaseCreate
    <2>2. Reliable(r)
      BY <1>2, <2>1 DEF Idle, Reliable
    <2> QED BY <1>1, <2>1, <2>2, MoveReliable
  <1> QED BY <1>3, <1>4, <1>5, <1>6, <1>7, <1>8 DEF Lock, Finish

(* The steps of Create.                                                    *)
LEMMA CreateReliable ==
  ASSUME Attended, NEW p \in Procs, TypeOK, Reliable(req[p]), CreateStep(p)
  PROVE  Reliable(req'[p])
  <1>1. req \in [Procs -> Request] /\ req[p] \in Request
    BY DEF TypeOK
  <1> USE DEF Silent, At
  <1> DEFINE Mine == {"c_insert", "c_db", "c_user", "c_grant", "c_flush", "c_secret", "c_ready", "c_final",
                      "rb_user", "rb_db", "c_mark", "audit"}
  <1>2. \A l \in Mine : l \in Labels /\ l \in Open
    BY DEF Open, Labels, Critical, CreateLabels, RotateLabels, DeleteLabels
  <1>3. \A l \in Mine : /\ Goto(p, l) \in Request /\ Reliable(Goto(p, l))
                        /\ Reliable(NextHost(p, l)) \/ req[p].at \notin Mine
                        /\ \A a \in Replies : Answer(p, l, a) \in Request /\ Reliable(Answer(p, l, a))
    <2> SUFFICES ASSUME NEW l \in Mine
                 PROVE  /\ Goto(p, l) \in Request /\ Reliable(Goto(p, l))
                        /\ Reliable(NextHost(p, l)) \/ req[p].at \notin Mine
                        /\ \A a \in Replies : Answer(p, l, a) \in Request /\ Reliable(Answer(p, l, a))
      OBVIOUS
    <2> HIDE DEF Mine
    <2>1. /\ Keeps(p, Goto(p, l), l) /\ \A a \in Replies : Keeps(p, Answer(p, l, a), l)
          /\ Keeps(p, NextHost(p, l), l) \/ Keeps(p, NextHost(p, l), req[p].at)
      BY <1>1, <1>2, KeepsIs
    <2> QED BY <1>2, <2>1, KeepsReliable DEF Keeps
  <1>4. {"created", "existing", "error"} \subseteq Replies
    BY DEF Replies
  <1>5. CASE CreateLookup(p)
    <2>1. ~LookupFails(p)
      BY <1>1, LookupSucceeds
    <2>2. PICK r : /\ Move(p, r)
                   /\ \/ r = Answer(p, "audit", "existing") \/ r = Goto(p, "c_insert")
                      \/ r = Answer(p, "fin", "refused")
      BY <1>5, <2>1 DEF CreateLookup
    <2>3. Reliable(Answer(p, "fin", "refused"))
      <3>1. Keeps(p, Answer(p, "fin", "refused"), "fin") /\ Answer(p, "fin", "refused").reply = "refused"
        BY <1>1, KeepsIs DEF Labels, Replies
      <3> QED BY <1>5, <3>1 DEF CreateLookup, Keeps, Reliable
    <2> QED BY <1>1, <1>3, <1>4, <2>2, <2>3, MoveReliable
  <1>6. CASE CreateInsert(p)
    <2>1. PICK w \in Passwords : Move(p, [Goto(p, "c_db") EXCEPT !.pw = w])
      BY <1>3, <1>4, <1>6, StoreSucceeds DEF CreateInsert
    <2>2. Reliable([Goto(p, "c_db") EXCEPT !.pw = w])
      <3>1. Keeps(p, Goto(p, "c_db"), "c_db")
        BY <1>1, <1>2, KeepsIs
      <3>2. /\ [Goto(p, "c_db") EXCEPT !.pw = w].at = "c_db"
            /\ [Goto(p, "c_db") EXCEPT !.pw = w].live = Goto(p, "c_db").live
        BY <3>1 DEF Keeps, Request
      <3> QED BY <3>1, <3>2 DEF Keeps, Reliable
    <2> QED BY <1>1, <2>1, <2>2, MoveReliable
  <1> HIDE DEF Mine
  <1>7. CASE EnsureDatabase(p) \/ EnsureUser(p) \/ GrantProjectPrivileges(p) \/ FlushPrivileges(p)
             \/ RollbackUser(p) \/ RollbackDatabase(p)
    <2>1. req[p].at \in Mine
      BY <1>7 DEF EnsureDatabase, EnsureUser, GrantProjectPrivileges, FlushPrivileges, RollbackUser,
            RollbackDatabase, Mine
    <2>2. {"c_user", "c_grant", "c_flush", "c_secret", "rb_user", "rb_db", "c_mark"} \subseteq Mine
      BY DEF Mine
    <2>3. CASE GrantProjectPrivileges(p)
      <3>1. Reliable(NextHost(p, "c_flush")) /\ Reliable(Answer(p, "rb_user", "error"))
            /\ Answer(p, "rb_user", "error") \in Request
        BY <1>3, <1>4, <2>1, <2>2
      <3> QED BY <1>1, <2>3, <3>1, MySQLReliable, MoveReliable DEF GrantProjectPrivileges, Refused
    <2>4. CASE EnsureDatabase(p)
      BY <1>1, <1>3, <1>4, <2>2, <2>4, MySQLReliable DEF EnsureDatabase
    <2>5. CASE EnsureUser(p)
      BY <1>1, <1>3, <1>4, <2>1, <2>2, <2>5, MySQLReliable DEF EnsureUser
    <2>6. CASE FlushPrivileges(p)
      BY <1>1, <1>3, <1>4, <2>2, <2>6, MySQLReliable DEF FlushPrivileges
    <2>7. CASE RollbackUser(p)
      BY <1>1, <1>3, <2>1, <2>2, <2>7, MySQLReliable DEF RollbackUser
    <2>8. CASE RollbackDatabase(p)
      BY <1>1, <1>3, <2>2, <2>8, MySQLReliable DEF RollbackDatabase
    <2> QED BY <1>7, <2>3, <2>4, <2>5, <2>6, <2>7, <2>8
  <1>8. CASE CreateSecret(p)
    BY <1>1, <1>3, <1>4, <1>8, MoveReliable DEF CreateSecret, FileCall, Mine
  <1>9. CASE CreateReady(p) \/ CreateFinal(p) \/ MarkError(p)
    <2>1. Move(p, Goto(p, "c_final")) \/ Move(p, Answer(p, "audit", "created")) \/ Move(p, Goto(p, "audit"))
      BY <1>3, <1>4, <1>9, StoreSucceeds DEF CreateReady, CreateFinal, MarkError, Mine
    <2> QED BY <1>1, <1>3, <1>4, <2>1, MoveReliable DEF Mine
  <1> QED BY <1>5, <1>6, <1>7, <1>8, <1>9 DEF CreateStep

(* The steps of Rotate and Delete.                                         *)
LEMMA ChangeReliable ==
  ASSUME Attended, NEW p \in Procs, TypeOK, Reliable(req[p]), RotateStep(p) \/ DeleteStep(p)
  PROVE  Reliable(req'[p])
  <1>1. req \in [Procs -> Request] /\ req[p] \in Request
    BY DEF TypeOK
  <1> USE DEF Silent, At
  <1> DEFINE Mine == {"d_db", "d_user", "d_secret", "d_row", "audit"}
  <1>2. \A l \in Mine : l \in Labels /\ l \in Open
    BY DEF Open, Labels, Critical, CreateLabels, RotateLabels, DeleteLabels
  <1>3. \A l \in Mine : /\ Goto(p, l) \in Request /\ Reliable(Goto(p, l))
                        /\ Partial(p, l) \in Request /\ Reliable(Partial(p, l))
                        /\ Reliable(NextHost(p, l)) \/ req[p].at \notin Mine
                        /\ \A a \in Replies : Answer(p, l, a) \in Request /\ Reliable(Answer(p, l, a))
    <2> SUFFICES ASSUME NEW l \in Mine
                 PROVE  /\ Goto(p, l) \in Request /\ Reliable(Goto(p, l))
                        /\ Partial(p, l) \in Request /\ Reliable(Partial(p, l))
                        /\ Reliable(NextHost(p, l)) \/ req[p].at \notin Mine
                        /\ \A a \in Replies : Answer(p, l, a) \in Request /\ Reliable(Answer(p, l, a))
      OBVIOUS
    <2> HIDE DEF Mine
    <2>1. /\ Keeps(p, Goto(p, l), l) /\ \A a \in Replies : Keeps(p, Answer(p, l, a), l)
          /\ Keeps(p, Partial(p, l), l)
          /\ Keeps(p, NextHost(p, l), l) \/ Keeps(p, NextHost(p, l), req[p].at)
      BY <1>1, <1>2, KeepsIs
    <2> QED BY <1>2, <2>1, KeepsReliable DEF Keeps
  <1>4. {"notfound", "rotated", "error", "deleted", "partial"} \subseteq Replies
    BY DEF Replies
  <1>5. CASE RotateLookup(p)
    <2>1. ~LookupFails(p)
      BY <1>1, LookupSucceeds
    <2>2. ASSUME NEW w \in Passwords PROVE Reliable([Goto(p, "r_alter") EXCEPT !.pw = w])
      <3>1. Keeps(p, Goto(p, "r_alter"), "r_alter")
        BY <1>1, KeepsIs DEF Labels, Critical, RotateLabels
      <3>2. /\ [Goto(p, "r_alter") EXCEPT !.pw = w].at = "r_alter"
            /\ [Goto(p, "r_alter") EXCEPT !.pw = w].live = Goto(p, "r_alter").live
            /\ [Goto(p, "r_alter") EXCEPT !.pw = w].pw = w
        BY <3>1 DEF Keeps, Request
      <3> QED BY <3>1, <3>2, ProvisionAssumption DEF Keeps, Reliable
    <2>3. CASE Found(p)
      BY <1>1, <1>3, <1>4, <1>5, <2>1, <2>2, <2>3, MoveReliable DEF RotateLookup, NotFound, Mine
    <2>4. CASE ~Found(p)
      BY <1>1, <1>3, <1>4, <1>5, <2>1, <2>4, MoveReliable DEF RotateLookup, NotFound, Mine
    <2> QED BY <2>3, <2>4
  <1>6. CASE SetUserPassword(p)
    <2>1. Reliable(Answer(p, "audit", "error")) /\ Answer(p, "audit", "error") \in Request
      BY <1>3, <1>4 DEF Mine
    <2>2. Reliable(NextHost(p, "r_secret"))
      <3>1. Keeps(p, NextHost(p, "r_secret"), "r_secret") \/ Keeps(p, NextHost(p, "r_secret"), "r_alter")
        BY <1>1, <1>6, KeepsIs DEF SetUserPassword, Labels, Critical, RotateLabels
      <3> QED BY <1>6, <3>1, KeepsReliable DEF SetUserPassword
    <2> QED BY <1>1, <1>6, <2>1, <2>2, MySQLReliable, MoveReliable DEF SetUserPassword, Refused
  <1>7. CASE RotateSecret(p)
    BY <1>1, <1>3, <1>4, <1>7, MoveReliable DEF RotateSecret, FileCall, Mine
  <1>8. CASE RotateFinal(p)
    <2>1. /\ Keeps(p, Goto(p, "fin"), "fin") /\ Answer(p, "fin", "error") \in Request
      BY <1>1, KeepsIs DEF Keeps, Labels, Replies
    <2>2. Move(p, Goto(p, "fin"))
      BY <1>8, <2>1, StoreSucceeds DEF RotateFinal
    <2>3. Reliable(Goto(p, "fin"))
      BY <1>8, <2>1 DEF RotateFinal, Keeps, Reliable
    <2> QED BY <1>1, <2>2, <2>3, MoveReliable
  <1>9. CASE DeleteLookup(p)
    <2>1. ~LookupFails(p)
      BY <1>1, LookupSucceeds
    <2> QED BY <1>1, <1>3, <1>4, <1>9, <2>1, MoveReliable DEF DeleteLookup, NotFound, Mine
  <1>10. CASE DeleteDatabase(p) \/ DeleteUser(p)
    <2>1. {"d_user", "d_secret"} \subseteq Mine /\ (DeleteUser(p) => req[p].at \in Mine)
      BY DEF Mine, DeleteUser
    <2> HIDE DEF Mine
    <2>2. CASE DeleteDatabase(p)
      BY <1>1, <1>3, <2>1, <2>2, MySQLReliable DEF DeleteDatabase
    <2>3. CASE DeleteUser(p)
      BY <1>1, <1>3, <2>1, <2>3, MySQLReliable DEF DeleteUser
    <2> QED BY <1>10, <2>2, <2>3
  <1>11. CASE DeleteSecret(p)
    BY <1>1, <1>3, <1>11, MoveReliable DEF DeleteSecret, FileCall, Mine
  <1>12. CASE DeleteRow(p)
    <2>1. /\ Answer(p, "audit", "partial") \in Request
          /\ \A a \in {"partial", "deleted"} : Reliable(Answer(p, "audit", a))
      BY <1>3, <1>4 DEF Mine
    <2>2. [Answer(p, "audit", "partial") EXCEPT !.partial = TRUE] \in Request
      BY <2>1 DEF Request
    <2>3. Move(p, Answer(p, "audit", IF req[p].partial THEN "partial" ELSE "deleted"))
      BY <1>12, <2>2, StoreSucceeds DEF DeleteRow
    <2> QED BY <1>1, <2>1, <2>3, MoveReliable
  <1> QED BY <1>5, <1>6, <1>7, <1>8, <1>9, <1>10, <1>11, <1>12 DEF RotateStep, DeleteStep

(* Every step leaves every request reliable.                               *)
LEMMA ReliableNext == Attended /\ ControlInv /\ ReliableInv /\ [Next]_vars => ReliableInv'
  <1> SUFFICES ASSUME Attended, ControlInv, ReliableInv, [Next]_vars PROVE ReliableInv'
    OBVIOUS
  <1>1. CASE UNCHANGED vars
    BY <1>1 DEF vars, ReliableInv
  <1>2. CASE Crash
    BY <1>2 DEF Crash, ReliableInv, Reliable, Idle
  <1>3. ASSUME NEW p \in Procs, Start(p) \/ Lock(p) \/ Run(p) PROVE ReliableInv'
    <2>1. Reliable(req'[p])
      BY <1>3, OuterReliable, CreateReliable, ChangeReliable DEF ControlInv, ReliableInv, Run
    <2>2. \A q \in Procs \ {p} : req'[q] = req[q]
      BY <1>3, StepPreserves DEF ControlInv, Preserved, Frame
    <2> QED BY <2>1, <2>2 DEF ReliableInv
  <1> QED BY <1>1, <1>2, <1>3 DEF Next

(* While no client gives up and the metadata can be read and written.      *)
LEMMA ReliableIsInvariant == ASSUME Attended PROVE Spec => []ReliableInv
  <1>1. Init => ReliableInv
    BY DEF Init, ReliableInv, Reliable, Idle
  <1>2. ControlInv /\ ReliableInv /\ [Next]_vars => ReliableInv'
    BY ReliableNext
  <1> QED BY <1>1, <1>2, ControlIsInvariant, PTL DEF Spec

(* Every request that may have changed a project has its audit entry when   *)
(* it returns, on the error paths too (service.go:80-263), whatever fails   *)
(* in MySQL and in the secret directory and whenever the process is killed. *)
THEOREM ChangesAudited == ASSUME Attended PROVE Spec => []ChangesAreAudited
  <1>1. ReliableInv => ChangesAreAudited
    BY DEF ReliableInv, Reliable, ChangesAreAudited, At
  <1> QED BY <1>1, ReliableIsInvariant, PTL

(* A project whose resources stay serves as before.                        *)
LEMMA ServesAsBefore ==
  ASSUME NEW n \in Names, SameProject(n), SameIn(SafeOf[n]), Serves(n)
  PROVE  Serves(n)'
  BY DEF Serves, Usable, HasAccount, Hosts, SameProject, SameIn

(* Only the request between the mutexes of a project may be deleting it.    *)
LEMMA Deleter ==
  ASSUME ControlInv, NEW p \in Procs, InCritical(p), BeingDeleted(Name(p))
  PROVE  req[p].at \in {"d_user", "d_secret", "d_row"}
  <1>1. PICK q \in Procs : Name(q) = Name(p) /\ req[q].at \in {"d_user", "d_secret", "d_row"}
    BY DEF BeingDeleted
  <1>2. Holding(p) /\ Holding(q)
    BY <1>1 DEF Holding, InCritical, Critical, DeleteLabels
  <1> QED BY <1>1, <1>2 DEF ControlInv, LockFor

(* Create reports a project as ready once it has all of its resources, and  *)
(* writes to one that is not ready before.                                 *)
LEMMA CreateKeepsReady ==
  ASSUME Attended, IInv, ReliableInv, NEW p \in Procs, CreateStep(p), ReadyFor(Name(p))
  PROVE  ReadyFor(Name(p))'
  <1> DEFINE n == Name(p)
  <1>1. /\ TypeOK /\ RowInv(p) /\ CreateInv(p) /\ Reliable(req[p])
        /\ req \in [Procs -> Request] /\ req[p] \in Request
    BY DEF IInv, ControlInv, TypeOK, RowFor, ResourceFor, ReliableInv
  <1>2. InCritical(p)
    BY DEF CreateStep, CreateLookup, CreateInsert, EnsureDatabase, EnsureUser, GrantProjectPrivileges,
       FlushPrivileges, CreateSecret, CreateReady, CreateFinal, RollbackUser, RollbackDatabase, MarkError, At,
       InCritical, Critical, CreateLabels
  <1>3. n \in Names /\ n' = n /\ SafeOf[n] \in Ids
    <2>1. n \in Names
      BY <1>1, <1>2 DEF TypeOK, InCritical, Critical, CreateLabels, RotateLabels, DeleteLabels, Name
    <2>2. Preserved(p)
      BY StepPreserves DEF IInv, ControlInv, Run
    <2> QED BY <1>2, <2>1, <2>2, ProvisionAssumption DEF Preserved, Frame, Name
  <1>4. rows \in [Names -> Statuses]
    BY <1>1 DEF TypeOK
  <1>5. CASE CreateLookup(p) \/ CreateFinal(p)
    <2>1. UNCHANGED <<mysqlVars, secret>> /\ UNCHANGED rows
      BY <1>5, Stored DEF CreateLookup, CreateFinal, LookupFails, Silent, disk, StoreCall
    <2>2. req[p].at \notin {"d_user", "d_secret", "d_row"}
      BY <1>5 DEF CreateLookup, CreateFinal, At
    <2>3. rows[n] = "ready" => Serves(n)
      BY <1>2, <2>2, Deleter DEF ReadyFor, IInv
    <2>4. Serves(n)' <=> Serves(n)
      BY <1>3, <2>1 DEF Serves, Usable, HasAccount, mysqlVars
    <2> QED BY <1>3, <2>1, <2>3, <2>4 DEF ReadyFor
  <1>6. CASE CreateReady(p)
    <2>1. UNCHANGED <<mysqlVars, secret>>
      BY <1>6 DEF CreateReady, StoreCall
    <2>2. /\ Id(p) \in dbs /\ HasAccount(Id(p), 1) /\ HasAccount(Id(p), 2)
          /\ 1 \in granted[Id(p)] /\ 2 \in granted[Id(p)]
          /\ secret[n] = req[p].pw /\ req[p].pw # NoPw
      BY <1>1, <1>6 DEF CreateReady, CreateInv, After, At
    <2>3. granted[Id(p)] = Hosts
      <3>1. granted[Id(p)] \subseteq Hosts
        BY <1>1, <1>3 DEF TypeOK, MySQLTypeOK, Id, Name
      <3>2. \A h \in Hosts : h = 1 \/ h = 2
        BY DEF Hosts
      <3> QED BY <2>2, <3>1, <3>2
    <2>4. Serves(n)
      BY <2>2, <2>3 DEF Serves, Usable, Hosts, Id, Name
    <2>5. Serves(n)'
      BY <1>3, <2>1, <2>4 DEF Serves, Usable, HasAccount, mysqlVars
    <2> QED BY <1>3, <2>5 DEF ReadyFor
  <1>7. CASE CreateInsert(p)
    <2>1. rows[n] = "none"
      BY <1>1, <1>7 DEF CreateInsert, RowInv
    <2>2. rows' = [rows EXCEPT ![n] = "pending"] \/ UNCHANGED rows
      BY <1>7, Stored DEF CreateInsert, CreateProject
    <2> QED BY <1>3, <1>4, <2>1, <2>2 DEF ReadyFor
  <1>8. CASE MarkError(p)
    <2>1. rows[n] = "pending"
      BY <1>1, <1>8 DEF MarkError, RowInv, At, CreateLabels
    <2>2. rows' = [rows EXCEPT ![n] = IF @ = "none" THEN @ ELSE "error"] \/ UNCHANGED rows
      BY <1>8, Stored DEF MarkError, UpdateProjectStatus
    <2> QED BY <1>3, <1>4, <2>1, <2>2 DEF ReadyFor
  <1>9. CASE EnsureDatabase(p) \/ EnsureUser(p) \/ GrantProjectPrivileges(p) \/ FlushPrivileges(p)
             \/ CreateSecret(p) \/ RollbackUser(p) \/ RollbackDatabase(p)
    <2>1. rows[n] = "pending"
      BY <1>1, <1>9 DEF EnsureDatabase, EnsureUser, GrantProjectPrivileges, FlushPrivileges, CreateSecret,
         RollbackUser, RollbackDatabase, RowInv, At, CreateLabels
    <2>2. UNCHANGED rows
      BY <1>9 DEF EnsureDatabase, EnsureUser, GrantProjectPrivileges, Refused, FlushPrivileges, CreateSecret,
         RollbackUser, RollbackDatabase, MySQLCall, FileCall, Silent, disk
    <2> QED BY <1>3, <2>1, <2>2 DEF ReadyFor
  <1> QED BY <1>5, <1>6, <1>7, <1>8, <1>9 DEF CreateStep

(* Rotate gives the accounts and the secret other passwords and takes none. *)
LEMMA RotateKeepsReady ==
  ASSUME Attended, IInv, ReliableInv, NEW p \in Procs, RotateStep(p), ReadyFor(Name(p))
  PROVE  ReadyFor(Name(p))'
  <1> DEFINE n == Name(p)
  <1>1. /\ TypeOK /\ MySQLTypeOK /\ Reliable(req[p])
        /\ req \in [Procs -> Request] /\ req[p] \in Request
    BY DEF IInv, ControlInv, TypeOK, ReliableInv
  <1>2. InCritical(p) /\ req[p].at \notin {"d_user", "d_secret", "d_row"}
    BY DEF RotateStep, RotateLookup, SetUserPassword, RotateSecret, RotateFinal, At, InCritical, Critical,
       RotateLabels
  <1>3. n \in Names /\ n' = n /\ SafeOf[n] \in Ids
    <2>1. n \in Names
      BY <1>1, <1>2 DEF TypeOK, InCritical, Critical, CreateLabels, RotateLabels, DeleteLabels, Name
    <2>2. Preserved(p)
      BY StepPreserves DEF IInv, ControlInv, Run
    <2> QED BY <1>2, <2>1, <2>2, ProvisionAssumption DEF Preserved, Frame, Name
  <1>4. rows[n] = "ready" => Serves(n)
    BY <1>2, Deleter DEF ReadyFor, IInv
  <1>5. UNCHANGED rows
    BY Stored DEF RotateStep, RotateLookup, SetUserPassword, Refused, RotateSecret, RotateFinal, MySQLCall,
       FileCall, NotFound, LookupFails, Silent, disk
  <1>6. ASSUME Serves(n) PROVE Serves(n)'
    <2>1. CASE UNCHANGED <<mysqlVars, secret>>
      BY <1>3, <1>6, <2>1 DEF Serves, Usable, HasAccount, mysqlVars
    <2>2. CASE SetUserPassword(p)
      <3>1. UNCHANGED secret /\ (AlterUser(Id(p), req[p].host, req[p].pw) \/ UNCHANGED mysqlVars)
        BY <2>2 DEF SetUserPassword, MySQLCall, Refused, Silent, disk
      <3>2. CASE AlterUser(Id(p), req[p].host, req[p].pw)
        <4>1. req[p].pw # NoPw /\ req[p].pw \in MaybePassword /\ req[p].host \in Hosts /\ Id(p) = SafeOf[n]
          BY <1>1, <2>2, RequestFields DEF SetUserPassword, Reliable, At, Id, Name
        <4>2. /\ dbs' = dbs /\ granted' = granted
              /\ acct'[SafeOf[n]][req[p].host] = req[p].pw
              /\ \A k \in Hosts \ {req[p].host} : acct'[SafeOf[n]][k] = acct[SafeOf[n]][k]
          BY <1>1, <1>3, <3>2, <4>1, AlterUserIs
        <4> QED BY <1>3, <1>6, <3>1, <4>1, <4>2 DEF Serves, Usable, HasAccount
      <3> QED BY <2>1, <3>1, <3>2
    <2>3. CASE RotateSecret(p)
      <3>1. UNCHANGED mysqlVars /\ (secret' = [secret EXCEPT ![n] = req[p].pw] \/ UNCHANGED secret)
        BY <2>3 DEF RotateSecret, FileCall, SetSecret
      <3>2. req[p].pw # NoPw /\ secret \in [Names -> MaybePassword]
        BY <1>1, <2>3 DEF RotateSecret, Reliable, At, TypeOK
      <3> QED BY <1>3, <1>6, <3>1, <3>2 DEF Serves, Usable, HasAccount, mysqlVars
    <2>4. CASE RotateLookup(p) \/ RotateFinal(p)
      BY <2>1, <2>4 DEF RotateLookup, RotateFinal, NotFound, LookupFails, Silent, disk, StoreCall
    <2> QED BY <2>2, <2>3, <2>4 DEF RotateStep
  <1> QED BY <1>3, <1>4, <1>5, <1>6 DEF ReadyFor

(* Delete takes resources only from a project whose row it removes in the   *)
(* end, whatever has failed before.                                        *)
LEMMA DeleteKeepsReady ==
  ASSUME Attended, IInv, ReliableInv, NEW p \in Procs, DeleteStep(p), ReadyFor(Name(p))
  PROVE  ReadyFor(Name(p))'
  <1> DEFINE n == Name(p)
  <1>1. /\ TypeOK /\ MySQLTypeOK /\ LockFor(p) /\ Reliable(req[p])
        /\ req \in [Procs -> Request] /\ req[p] \in Request
    BY DEF IInv, ControlInv, TypeOK, ReliableInv
  <1>2. InCritical(p)
    BY DEF DeleteStep, DeleteLookup, DeleteDatabase, DeleteUser, DeleteSecret, DeleteRow, At, InCritical,
       Critical, DeleteLabels
  <1>3. n \in Names /\ n' = n /\ SafeOf[n] \in Ids
    <2>1. n \in Names
      BY <1>1, <1>2 DEF TypeOK, InCritical, Critical, CreateLabels, RotateLabels, DeleteLabels, Name
    <2>2. Preserved(p)
      BY StepPreserves DEF IInv, ControlInv, Run
    <2> QED BY <1>2, <2>1, <2>2, ProvisionAssumption DEF Preserved, Frame, Name
  <1>4. CASE DeleteLookup(p)
    <2>1. UNCHANGED <<mysqlVars, secret>> /\ UNCHANGED rows
      BY <1>4 DEF DeleteLookup, NotFound, LookupFails, Silent, disk
    <2>2. rows[n] = "ready" => Serves(n)
      BY <1>2, <1>4, Deleter DEF ReadyFor, IInv, DeleteLookup, At
    <2>3. Serves(n)' <=> Serves(n)
      BY <1>3, <2>1 DEF Serves, Usable, HasAccount, mysqlVars
    <2> QED BY <1>3, <2>1, <2>2, <2>3 DEF ReadyFor
  <1>5. CASE DeleteDatabase(p) \/ DeleteUser(p) \/ DeleteSecret(p)
    <2>1. req'[p].at \in {"d_user", "d_secret", "d_row"}
      <3>1. CASE DeleteDatabase(p)
        <4>1. Knows(p, "d_db")
          BY <1>1, <3>1, Context DEF DeleteDatabase
        <4> QED BY <3>1, <4>1, Jump, PartialReturns
                DEF DeleteDatabase, MySQLCall, Knows, Jumps, Becomes, Labels, Critical, DeleteLabels
      <3>2. CASE DeleteUser(p)
        <4>1. Knows(p, "d_user")
          BY <1>1, <3>2, Context DEF DeleteUser
        <4>2. PICK done \in BOOLEAN :
                Returns(p, "mysql", done, NextHost(p, "d_secret"), Partial(p, "d_secret"))
          BY <3>2 DEF DeleteUser, MySQLCall
        <4>3. \/ Becomes(p, "d_user", 2, req[p].pw, req[p].partial, req[p].reply)
              \/ Jumps(p, "d_secret", req[p].reply)
              \/ Becomes(p, "d_secret", 1, req[p].pw, TRUE, req[p].reply)
          BY <4>1, <4>2, JumpHost, PartialReturns DEF Knows, Labels, Critical, DeleteLabels
        <4> QED BY <4>3 DEF Jumps, Becomes
      <3>3. CASE DeleteSecret(p)
        <4>1. Knows(p, "d_secret")
          BY <1>1, <3>3, Context DEF DeleteSecret
        <4> QED BY <3>3, <4>1, Jump, JumpPartial
                DEF DeleteSecret, FileCall, Knows, Jumps, Becomes, Labels, Critical, DeleteLabels
      <3> QED BY <1>5, <3>1, <3>2, <3>3
    <2>2. BeingDeleted(n)'
      BY <1>3, <2>1 DEF BeingDeleted, Name
    <2> QED BY <1>3, <2>2 DEF ReadyFor
  <1>6. CASE DeleteRow(p)
    <2>1. [Answer(p, "audit", "partial") EXCEPT !.partial = TRUE] \in Request
      <3>1. Answer(p, "audit", "partial") \in Request
        BY <1>1, KeepsIs DEF Keeps, Labels, Replies
      <3> QED BY <3>1 DEF Request
    <2>2. rows' = [rows EXCEPT ![n] = "none"]
      BY <1>1, <1>6, <2>1, StoreSucceeds DEF DeleteRow, DeleteProject
    <2> QED BY <1>1, <1>3, <2>2 DEF ReadyFor, TypeOK
  <1> QED BY <1>4, <1>5, <1>6 DEF DeleteStep

(* Every step keeps the projects that are ready usable, or on their way out.*)
LEMMA ReadyNext ==
  ASSUME Injective, Attended, "crash" \notin Faults
  PROVE  IInv /\ ReliableInv /\ ReadyInv /\ [Next]_vars => ReadyInv'
  <1> SUFFICES ASSUME IInv, ReliableInv, ReadyInv, [Next]_vars PROVE ReadyInv'
    OBVIOUS
  <1>1. TypeOK
    BY DEF IInv, ControlInv
  <1>2. CASE UNCHANGED vars
    BY <1>2 DEF vars, mysqlVars, disk, ReadyInv, ReadyFor, Serves, Usable, HasAccount, BeingDeleted, Name
  <1>3. ASSUME NEW p \in Procs, Start(p) \/ Lock(p) \/ Run(p), NEW n \in Names PROVE ReadyFor(n)'
    <2>1. Frame(p)
      BY <1>3, StepPreserves DEF IInv, ControlInv, Preserved
    <2>2. CASE InCritical(p) /\ n = Name(p)
      <3>1. CreateStep(p) \/ RotateStep(p) \/ DeleteStep(p)
        BY <1>3, <2>2 DEF Start, BeginCreate, BeginRotate, BeginDelete, BeginGet, BeginUnconfirmed, Begin, Lock,
           LockCreate, LockName, AfterLock, Run, Get, Finish, Audit, Return, ReleaseCreate, At, InCritical,
           Critical, CreateLabels, RotateLabels, DeleteLabels
      <3>2. ReadyFor(Name(p))
        BY <2>2 DEF ReadyInv
      <3>3. ReadyFor(Name(p))'
        BY <3>1, <3>2, CreateKeepsReady, RotateKeepsReady, DeleteKeepsReady
      <3>4. Name(p)' = n
        BY <2>1, <2>2 DEF Frame, Name
      <3> QED BY <3>3, <3>4
    <2>3. CASE ~(InCritical(p) /\ n = Name(p))
      <3>1. InCritical(p) => Name(p) \in Names
        BY <1>1 DEF TypeOK, InCritical, Critical, CreateLabels, RotateLabels, DeleteLabels, Name
      <3>2. SameProject(n) /\ SameIn(SafeOf[n])
        BY <2>1, <2>3, <3>1, ProvisionAssumption DEF Frame, Injective, Id, Name
      <3>3. ASSUME BeingDeleted(n) PROVE BeingDeleted(n)'
        <4>1. PICK q \in Procs : Name(q) = n /\ req[q].at \in {"d_user", "d_secret", "d_row"}
          BY <3>3 DEF BeingDeleted
        <4>2. q # p
          BY <2>3, <4>1 DEF InCritical, Critical, DeleteLabels
        <4> QED BY <2>1, <4>1, <4>2 DEF Frame, BeingDeleted, Name
      <3> QED BY <3>2, <3>3, ServesAsBefore DEF ReadyInv, ReadyFor, SameProject
    <2> QED BY <2>2, <2>3
  <1> QED BY <1>2, <1>3 DEF Next, Crash, ReadyInv

(* A project that is listed as ready and that no request works on is        *)
(* usable (service.go:162, 223-263), however many calls have failed, as     *)
(* long as the process, its metadata and the clients stay up.              *)
THEOREM ReadyUsable ==
  ASSUME Injective, Faults \subseteq {"mysql", "file"} PROVE Spec => []ReadyIsUsable
  <1>1. Attended /\ "crash" \notin Faults
    BY DEF Attended
  <1>2. Init => ReadyInv
    BY DEF Init, ReadyInv, ReadyFor
  <1>3. IInv /\ ReliableInv /\ ReadyInv /\ [Next]_vars => ReadyInv'
    BY <1>1, ReadyNext
  <1>4. IInv /\ ReadyInv => ReadyIsUsable
    <2> SUFFICES ASSUME IInv, ReadyInv, NEW n \in Names, rows[n] = "ready", ioLock[n] = NoProc
                 PROVE  Usable(n) /\ secret[n] # NoPw
      BY DEF ReadyIsUsable
    <2>1. ~BeingDeleted(n)
      <3> SUFFICES ASSUME NEW p \in Procs, Name(p) = n, req[p].at \in {"d_user", "d_secret", "d_row"}
                   PROVE  FALSE
        BY DEF BeingDeleted
      <3>1. Holding(p)
        BY DEF Holding, InCritical, Critical, DeleteLabels
      <3> QED BY <3>1, ProvisionAssumption DEF IInv, ControlInv, LockFor
    <2> QED BY <2>1 DEF ReadyInv, ReadyFor, Serves
  <1>5. Spec => []IInv
    BY ResourcesAreInvariant
  <1>6. Spec => []ReliableInv
    BY <1>1, ReliableIsInvariant
  <1> QED BY <1>2, <1>3, <1>4, <1>5, <1>6, PTL DEF Spec
=============================================================================
