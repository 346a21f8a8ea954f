------------------------------ MODULE Listing -------------------------------
(***************************************************************************)
(* The times of internal/store and the lists that are ordered by them:     *)
(* projects by created_at, a text, and audit entries by their ids. The     *)
(* writers are requests of the server, and commands in other processes.    *)
(* Each takes the time first and then waits for the database.              *)
(***************************************************************************)
EXTENDS Integers, SequencesExt

CONSTANTS
    ProjectNames,
    Writers,
    Times,          \* the clock shows one after the other
    DefaultLimit,   \* of ListAudit
    MaxEntries      \* bound: writers begin no more audit entries than this

VARIABLES
    now,        \* index of the time in Times
    projects,   \* the rows of the table
    entries,    \* the table audit_logs, an entry's index is its id
    write       \* write[w]: the statement of writer w that waits

listingVars == <<now, projects, entries, write>>

(* A time has a second and the digits of its fraction; the last one is not  *)
(* 0. since is history: the ids there were when the time was taken.        *)
Project == [name : ProjectNames, created : Range(Times)]
Entry   == [created : Range(Times), since : Nat]
Waiting == [into : {"projects"}, row : Project] \cup [into : {"audit_logs"}, row : Entry]
Idle    == [into |-> "nothing"]

ASSUME ListingAssumption ==
    /\ Times \in Seq([second : Nat, digits : Seq(0 .. 9)]) /\ Times # << >>
    /\ DefaultLimit \in Nat /\ MaxEntries \in Nat

ListingTypeOK ==
    /\ now \in DOMAIN Times
    /\ projects \subseteq Project
    /\ entries \in Seq(Entry)
    /\ write \in [Writers -> Waiting \cup {Idle}]

ListingInit ==
    /\ now = 1
    /\ projects = {} /\ entries = << >>
    /\ write = [w \in Writers |-> Idle]

----------------------------------------------------------------------------
(* Texts and lists                                                         *)

\* RFC3339Nano: 5Z, 5.1Z, 5.15Z; "." is before the digits, and Z after them.
Z == 10
Text(time) == <<time.second>> \o time.digits \o <<Z>>

Before(s, t) ==
    \E i \in DOMAIN s \cap DOMAIN t : s[i] < t[i] /\ \A j \in 1 .. i - 1 : s[j] = t[j]

\* Variant: no ORDER BY.
ListUnordered(rows) == SetToSeqs(rows)

\* ORDER BY created_at ASC: any order that the texts allow.
ListProjects(rows) ==
    {list \in SetToSeqs(rows) :
        \A i, j \in DOMAIN list :
            Before(Text(list[i].created), Text(list[j].created)) => i < j}

\* toView: created_at is shown in whole seconds.
View(project) == [name |-> project.name, created |-> project.created.second]

AtMost(limit) == IF limit <= 0 THEN DefaultLimit ELSE limit

\* Variant: ORDER BY created_at DESC.
ListAuditByTime(limit) ==
    LET ids == SortSeq([i \in DOMAIN entries |-> i],
                       LAMBDA i, j : Before(Text(entries[j].created), Text(entries[i].created)))
    IN  SubSeq(ids, 1, IF AtMost(limit) < Len(ids) THEN AtMost(limit) ELSE Len(ids))

\* ORDER BY id DESC LIMIT: the ids of the entries.
ListAudit(limit) ==
    LET n == Len(entries)
    IN  [i \in 1 .. (IF AtMost(limit) < n THEN AtMost(limit) ELSE n) |-> n + 1 - i]

----------------------------------------------------------------------------
(* Operations                                                              *)

Tick ==
    /\ now < Len(Times)
    /\ now' = now + 1
    /\ UNCHANGED <<projects, entries, write>>

Wait(w, into, row) ==
    /\ write[w] = Idle
    /\ write' = [write EXCEPT ![w] = [into |-> into, row |-> row]]
    /\ UNCHANGED <<now, projects, entries>>

\* CreateProject takes the time.
Create(w, name) == Wait(w, "projects", [name |-> name, created |-> Times[now]])

\* audit.Write takes the time.
WriteAudit(w) ==
    /\ Len(entries) + Cardinality({v \in Writers : write[v].into = "audit_logs"}) < MaxEntries
    /\ Wait(w, "audit_logs", [created |-> Times[now], since |-> Len(entries)])

Done(w) == write' = [write EXCEPT ![w] = Idle] /\ UNCHANGED now

\* The name is unique.
InsertProject(w) ==
    /\ write[w].into = "projects"
    /\ projects' = IF \E p \in projects : p.name = write[w].row.name THEN projects
                   ELSE projects \cup {write[w].row}
    /\ Done(w) /\ UNCHANGED entries

InsertEntry(w) ==
    /\ write[w].into = "audit_logs"
    /\ entries' = Append(entries, write[w].row)
    /\ Done(w) /\ UNCHANGED projects

\* The statement fails: a full disk, a database that stays locked.
InsertFails(w) == write[w] # Idle /\ Done(w) /\ UNCHANGED <<projects, entries>>

DeleteProject(name) ==
    /\ projects' = {p \in projects : p.name # name}
    /\ UNCHANGED <<now, entries, write>>

ListingNext ==
    \/ Tick
    \/ \E w \in Writers : \/ \E name \in ProjectNames : Create(w, name)
                          \/ WriteAudit(w)
                          \/ InsertProject(w) \/ InsertEntry(w) \/ InsertFails(w)
    \/ \E name \in ProjectNames : DeleteProject(name)

ListingSpec == ListingInit /\ [][ListingNext]_listingVars

----------------------------------------------------------------------------
(* Properties                                                              *)

(* GET /v1/databases is ordered by the created_at it shows, whoever waited *)
(* for the database (store.go:188-194, handlers.go:102-120). Within a      *)
(* second the order of the texts is not the order of the times.            *)
ListedInOrder ==
    \A list \in ListProjects(projects) : \A i, j \in DOMAIN list :
        i < j => View(list[i]).created <= View(list[j]).created

(* "audit list" shows no entry, unless it shows every later one above it:   *)
(* an entry is later if its time was taken after the other was stored      *)
(* (store.go:325-332, audit.go:79). The times it shows may be out of order.*)
AuditIsNewestFirst ==
    \A limit \in -1 .. MaxEntries :
        LET list == ListAudit(limit)
        IN  \A i \in DOMAIN list, later \in DOMAIN entries :
                entries[later].since >= list[i] => \E j \in 1 .. i - 1 : list[j] = later
=============================================================================
