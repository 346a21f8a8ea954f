--------------------------- MODULE HandlersProofs ---------------------------
(***************************************************************************)
(* Proofs about Handlers, for any names and any words in the path of the   *)
(* secret directory, and about the lists of Listing.                       *)
(***************************************************************************)
EXTENDS Handlers, Listing, TLAPS

\* What each stage of a request has established.
Received == call.op \in Ops /\ call.name \in Names

Returned ==
    /\ Received
    /\ call.op = "list" \/ ValidateProjectName(call.name)
    /\ call.outcome \in Possible(call.op)
    /\ call.text \in Texts(call.op, call.name, call.outcome)

HIInv ==
    /\ call.at \in {"idle", "received", "returned", "answered"}
    /\ call.at = "received" => Received
    /\ call.at = "returned" => Returned
    /\ call.at = "answered" => (call.code \in ClientCodes <=> call.outcome \in CallerFaults)

(* Faults of the caller that the service reports have a text without words. *)
LEMMA CallerText ==
  ASSUME NEW op \in Ops, NEW n, NEW outcome \in CallerFaults, NEW text \in Texts(op, n, outcome)
  PROVE  text = {}
  BY DEF CallerFaults, Texts

(* The code blames the client for the client's faults and no others.       *)
LEMMA RightCode ==
  ASSUME NEW op \in Ops, NEW n, NEW outcome \in Possible(op), NEW text \in Texts(op, n, outcome)
  PROVE  CodeOf(op, outcome, text) \in ClientCodes <=> outcome \in CallerFaults
<1> outcome \in Outcomes
  BY DEF Possible, Outcomes, Ops, CallerFaults, ServerFaults, MySQLFaults
<1>1. CASE outcome \in CallerFaults
  <2>1. text = {}
    BY <1>1, CallerText
  <2>2. outcome \in {"notfound", "unconfirmed", "mismatch"}
    BY <1>1 DEF CallerFaults, Possible, Ops
  <2> QED
    BY <1>1, <2>1, <2>2 DEF CodeOf, MapProvisionError, ClientCodes, MySQLWords
<1>2. CASE outcome \notin CallerFaults
  <2>1. CodeOf(op, outcome, text) \in {"OK", "SECRET_WRITE_ERROR", "MYSQL_ERROR", "INTERNAL_ERROR"}
    BY <1>2 DEF CodeOf, MapProvisionError, CallerFaults
  <2> QED
    BY <1>2, <2>1 DEF ClientCodes
<1> QED
  BY <1>1, <1>2

(* Every step keeps the invariant.                                         *)
LEMMA HandlerStep == HIInv /\ [Next]_call => HIInv'
<1> SUFFICES ASSUME HIInv, [Next]_call PROVE HIInv'
  OBVIOUS
<1> USE DEF HIInv
<1>1. CASE Receive
  BY <1>1 DEF Receive, Received
<1>2. CASE BadRequest
  BY <1>2 DEF BadRequest, Answer, ClientCodes, CallerFaults
<1>3. CASE InvalidName
  BY <1>3 DEF InvalidName, Answer, ClientCodes, CallerFaults
<1>4. CASE Serve
  <2>1. PICK outcome \in Attainable(call.op, call.name) :
        \E text \in Texts(call.op, call.name, outcome) :
            call' = [at |-> "returned", op |-> call.op, name |-> call.name,
                     outcome |-> outcome, text |-> text]
    BY <1>4 DEF Serve
  <2>2. outcome \in Possible(call.op)
    BY DEF Attainable
  <2> QED
    BY <1>4, <2>1, <2>2 DEF Serve, Received, Returned
<1>5. CASE Respond
  <2>1. CodeOf(call.op, call.outcome, call.text) \in ClientCodes <=> call.outcome \in CallerFaults
    BY <1>5, RightCode DEF Respond, Returned, Received
  <2> QED
    BY <1>5, <2>1 DEF Respond, Answer
<1>6. CASE End
  BY <1>6 DEF End, NoCall
<1>7. CASE UNCHANGED call
  BY <1>7 DEF Received, Returned
<1> QED
  BY <1>1, <1>2, <1>3, <1>4, <1>5, <1>6, <1>7 DEF Next

LEMMA HandlerInvariant == Spec => []HIInv
<1>1. Init => HIInv
  BY DEF Init, NoCall, HIInv
<1> QED
  BY <1>1, HandlerStep, PTL DEF Spec

(* A client is told that the fault is its own if and only if it is: error   *)
(* codes by words in the text (handlers.go:157-183) never shift the blame. *)
THEOREM BlameRight == Spec => []BlameIsRight
<1>1. HIInv => BlameIsRight
  BY DEF HIInv, BlameIsRight
<1> QED
  BY <1>1, HandlerInvariant, PTL

(* "a validated project name always produces a safe identifier here"       *)
(* (provisioner.go:205-207), for MySQL and for the name of the file.       *)
THEOREM SafeNames == Spec => []NamesAreSafe
<1>1. HIInv => NamesAreSafe
  <2> SUFFICES ASSUME HIInv, call.at = "returned", call.op \in {"create", "rotate", "delete"}
               PROVE  /\ Safe(Database(call.name)) /\ Safe(User(call.name))
                      /\ call.name.first = "alnum" /\ "other" \notin call.name.chars
                      /\ FitsMySQL(call.name) => FitsSecrets(call.name)
    BY DEF NamesAreSafe
  <2> DEFINE n == call.name
  <2>1. n \in Name /\ ValidateProjectName(n)
    BY HandlersAssumption DEF HIInv, Returned, Received
  <2>2. n.len \in 1 .. 63 /\ n.first = "alnum" /\ "other" \notin n.chars
        /\ n.chars \subseteq {"alnum", "hyphen", "underscore", "other"}
    BY <2>1 DEF ValidateProjectName, MaxProjectNameLen, Name
  <2>3. ASSUME NEW suffix \in {3, 5}
        PROVE  /\ Identifier(n, suffix).len = n.len + suffix
               /\ Identifier(n, suffix).chars \subseteq {"alnum", "underscore"}
    BY <2>2 DEF Identifier
  <2>4. Safe(Database(n)) /\ Safe(User(n))
    BY <2>2, <2>3 DEF Safe, Database, User
  <2>5. FitsMySQL(n) => FitsSecrets(n)
    BY <2>2, <2>3 DEF FitsMySQL, FitsSecrets, Database, User
  <2> QED
    BY <2>2, <2>4, <2>5
<1> QED
  BY <1>1, HandlerInvariant, PTL
----------------------------------------------------------------------------
(* The lists of Listing, for any names of projects, any number of writers   *)
(* and any times of the clock.                                             *)

\* An entry is stored after the ones that were there when its time was taken.
SinceInv ==
    /\ \A k \in DOMAIN entries : entries[k].since < k
    /\ \A w \in Writers : write[w].into = "audit_logs" => write[w].row.since <= Len(entries)

(* A waiting statement has the row of its table.                           *)
LEMMA WaitingRow ==
  ASSUME ListingTypeOK, NEW w \in Writers
  PROVE  /\ write[w].into = "projects" => write[w].row \in Project
         /\ write[w].into = "audit_logs" => write[w].row \in Entry
  BY DEF ListingTypeOK, Waiting, Idle

(* Every statement, stored or failed, and every tick of the clock keeps     *)
(* the types and the order of the entries.                                 *)
LEMMA ListingStep ==
  ListingTypeOK /\ SinceInv /\ [ListingNext]_listingVars => ListingTypeOK' /\ SinceInv'
  <1> SUFFICES ASSUME ListingTypeOK, SinceInv, [ListingNext]_listingVars
               PROVE  ListingTypeOK' /\ SinceInv'
    OBVIOUS
  <1> USE DEF ListingTypeOK, SinceInv
  <1>1. CASE Tick
    BY <1>1, ListingAssumption DEF Tick
  <1>2. Times[now] \in Range(Times)
    BY DEF Range
  <1>3. ASSUME NEW w \in Writers, NEW name \in ProjectNames, Create(w, name)
        PROVE  ListingTypeOK' /\ SinceInv'
    BY <1>2, <1>3 DEF Create, Wait, Waiting, Project, Idle
  <1>4. ASSUME NEW w \in Writers, WriteAudit(w)
        PROVE  ListingTypeOK' /\ SinceInv'
    BY <1>2, <1>4 DEF WriteAudit, Wait, Waiting, Entry, Idle
  <1>5. ASSUME NEW w \in Writers, Done(w)
        PROVE  /\ write' \in [Writers -> Waiting \cup {Idle}] /\ now' = now
               /\ \A v \in Writers : write'[v].into = "audit_logs" => write'[v] = write[v]
    BY <1>5 DEF Done, Idle
  <1>6. ASSUME NEW w \in Writers, InsertProject(w)
        PROVE  ListingTypeOK' /\ SinceInv'
    BY <1>5, <1>6, WaitingRow DEF InsertProject
  <1>7. ASSUME NEW w \in Writers, InsertEntry(w)
        PROVE  ListingTypeOK' /\ SinceInv'
    <2>1. write[w].row \in Entry /\ write[w].row.since <= Len(entries)
      BY <1>7, WaitingRow DEF InsertEntry
    <2>2. /\ entries' = Append(entries, write[w].row) /\ entries' \in Seq(Entry)
          /\ Len(entries') = Len(entries) + 1
      BY <1>7, <2>1 DEF InsertEntry
    <2>3. \A k \in DOMAIN entries' : entries'[k].since < k
      BY <2>1, <2>2 DEF Entry
    <2>4. \A v \in Writers : write'[v].into = "audit_logs" => write'[v].row.since <= Len(entries')
      BY <1>5, <1>7, <2>2, WaitingRow DEF InsertEntry, Entry
    <2> QED BY <1>5, <1>7, <2>2, <2>3, <2>4 DEF InsertEntry
  <1>8. ASSUME NEW w \in Writers, InsertFails(w)
        PROVE  ListingTypeOK' /\ SinceInv'
    BY <1>5, <1>8 DEF InsertFails
  <1>9. ASSUME NEW name \in ProjectNames, DeleteProject(name)
        PROVE  ListingTypeOK' /\ SinceInv'
    BY <1>9 DEF DeleteProject
  <1>10. CASE UNCHANGED listingVars
    BY <1>10 DEF listingVars
  <1> QED BY <1>1, <1>3, <1>4, <1>6, <1>7, <1>8, <1>9, <1>10 DEF ListingNext

(* The clock's times and the numbers of the entries are as the lists need.  *)
LEMMA ListingInvariant == ListingSpec => [](ListingTypeOK /\ SinceInv)
  <1>1. ListingInit => ListingTypeOK /\ SinceInv
    BY ListingAssumption DEF ListingInit, ListingTypeOK, SinceInv, Idle
  <1> QED BY <1>1, ListingStep, PTL DEF ListingSpec

(* The list of projects is ordered by the created_at it shows: the texts    *)
(* by which SQLite orders them differ from the times within a second only  *)
(* (store.go:188-194).                                                     *)
THEOREM ProjectsInOrder == ListingSpec => []ListedInOrder
  <1>1. ListingTypeOK => ListedInOrder
    <2> SUFFICES ASSUME ListingTypeOK, NEW list \in ListProjects(projects),
                        NEW i \in DOMAIN list, NEW j \in DOMAIN list, i < j
                 PROVE  View(list[i]).created <= View(list[j]).created
      BY DEF ListedInOrder
    <2>1. list[i] \in Project /\ list[j] \in Project
      BY DEF ListProjects, SetToSeqs, ListingTypeOK
    <2>2. ASSUME NEW t \in Range(Times)
          PROVE  t.second \in Nat /\ 1 \in DOMAIN Text(t) /\ Text(t)[1] = t.second
      <3> DEFINE S == [second : Nat, digits : Seq(0 .. 9)]
      <3>0. PICK k \in DOMAIN Times : t = Times[k]
        BY DEF Range
      <3>1. t \in S
        <4> HIDE DEF S
        <4>1. Times \in Seq(S)
          BY ListingAssumption DEF S
        <4> QED BY <3>0, <4>1
      <3>2. t.second \in Nat /\ t.digits \in Seq(Nat) /\ Z \in Nat
        <4>1. t.second \in Nat /\ t.digits \in Seq(0 .. 9)
          BY <3>1
        <4>2. Len(t.digits) \in Nat /\ t.digits \in [1 .. Len(t.digits) -> Nat]
          BY <4>1
        <4> QED BY <4>1, <4>2 DEF Z
      <3>3. <<t.second>> \o t.digits \in Seq(Nat) /\ Len(<<t.second>> \o t.digits) >= 1
            /\ (<<t.second>> \o t.digits)[1] = t.second
        BY <3>2
      <3> QED BY <3>2, <3>3 DEF Text
    <2>3. list[j].created.second < list[i].created.second
            => Before(Text(list[j].created), Text(list[i].created))
      BY <2>1, <2>2 DEF Project, Before
    <2>4. ~Before(Text(list[j].created), Text(list[i].created))
      BY DEF ListProjects, SetToSeqs
    <2> QED BY <2>1, <2>2, <2>3, <2>4 DEF Project, View
  <1> QED BY <1>1, ListingInvariant, PTL

(* The list of audit entries shows the latest first and leaves out none but *)
(* the oldest, in whatever order the writers get the database              *)
(* (store.go:325-332).                                                     *)
THEOREM AuditNewestFirst == ListingSpec => []AuditIsNewestFirst
  <1>1. ListingTypeOK /\ SinceInv => AuditIsNewestFirst
    <2> SUFFICES ASSUME ListingTypeOK, SinceInv, NEW limit \in -1 .. MaxEntries,
                        NEW i \in DOMAIN ListAudit(limit), NEW later \in DOMAIN entries,
                        entries[later].since >= ListAudit(limit)[i]
                 PROVE  \E j \in 1 .. i - 1 : ListAudit(limit)[j] = later
      BY DEF AuditIsNewestFirst
    <2> DEFINE n == Len(entries)
               m == n + 1 - later
    <2>1. n \in Nat /\ later \in 1 .. n /\ entries[later].since \in Nat /\ entries[later].since < later
      <3>1. entries \in Seq(Entry) /\ later \in 1 .. Len(entries) /\ Len(entries) \in Nat
        BY DEF ListingTypeOK
      <3>2. entries[later] \in Entry
        BY <3>1
      <3> QED BY <3>1, <3>2 DEF SinceInv, Entry
    <2>2. AtMost(limit) \in Int
      BY ListingAssumption DEF AtMost
    <2>3. /\ i \in Nat /\ i >= 1 /\ ListAudit(limit)[i] = n + 1 - i
          /\ \A k \in 1 .. i : ListAudit(limit)[k] = n + 1 - k
      BY <2>1, <2>2 DEF ListAudit
    <2>4. m \in 1 .. i - 1
      BY <2>1, <2>3
    <2>5. ListAudit(limit)[m] = later
      <3>1. m \in 1 .. i /\ n + 1 - m = later
        BY <2>1, <2>3, <2>4
      <3> QED BY <2>3, <3>1
    <2> QED BY <2>4, <2>5
  <1> QED BY <1>1, ListingInvariant, PTL
=============================================================================
