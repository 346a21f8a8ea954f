------------------------------- MODULE Serving -------------------------------
(***************************************************************************)
(* runServer in cmd/server/main.go: the parts a server opens before it     *)
(* listens, the requests its handlers work on, and its end by Shutdown, by *)
(* an error or by a signal. A handler changes MySQL, records the change,   *)
(* writes its audit entry and the copy of it, and answers; the details of  *)
(* the first two are in Provision. Here a call fails for one reason only:  *)
(* the part it needs has been closed.                                      *)
(***************************************************************************)

CONSTANTS
    Handlers    \* requests that may be in progress at a time

VARIABLES
    srv,    \* the process
    job     \* job[h]: the request of handler h

servingVars == <<srv, job>>

Parts == {"store", "audit", "mysql"}

(* exit is the code of the process, or "killed"; lost is history: a request *)
(* was not answered, or what it has changed was not recorded.              *)
Server == [at   : {"down", "opening", "serving", "draining", "closing"},
           open : SUBSET Parts,
           exit : {"none", "0", "1", "killed"},
           lost : BOOLEAN]

Job == [at      : {"none", "change", "changing", "record", "audit", "copy"},
        changed : BOOLEAN]

Idle == [at |-> "none", changed |-> FALSE]

ServingTypeOK == srv \in Server /\ job \in [Handlers -> Job]

ServingInit ==
    /\ srv = [at |-> "down", open |-> {}, exit |-> "none", lost |-> FALSE]
    /\ job = [h \in Handlers |-> Idle]

----------------------------------------------------------------------------
(* The process                                                             *)

\* The process ends, by os.Exit or a signal, whatever its handlers do.
Die(code) ==
    /\ srv' = [at |-> "down", open |-> {}, exit |-> code,
               lost |-> srv.lost \/ \E h \in Handlers : job[h] # Idle]
    /\ job' = [h \in Handlers |-> Idle]

Start ==
    /\ srv.at = "down"
    /\ srv' = [at |-> "opening", open |-> {}, exit |-> "none", lost |-> FALSE]
    /\ UNCHANGED job

\* Variant: the store is closed as soon as it can be.
StoreFirst(open) ==
    CHOOSE part \in open : "store" \in open => part = "store"

\* The deferred calls: the part that was opened last is closed first.
LastOpened(open) ==
    IF "mysql" \in open THEN "mysql" ELSE IF "audit" \in open THEN "audit" ELSE "store"

NextPart == IF "store" \notin srv.open THEN "store"
            ELSE IF "audit" \notin srv.open THEN "audit" ELSE "mysql"

\* store.Open, audit.New, mysqlx.New
Open ==
    /\ srv.at = "opening" /\ srv.open # Parts
    /\ srv' = [srv EXCEPT !.open = @ \cup {NextPart}]
    /\ UNCHANGED job

\* "return code": from here the deferred calls run.
Return(code) == srv' = [srv EXCEPT !.at = "closing", !.exit = code] /\ UNCHANGED job

\* One of the three, the settings, the secret directory or the address.
OpenFails == srv.at = "opening" /\ Return("1")

Listen ==
    /\ srv.at = "opening" /\ srv.open = Parts
    /\ srv' = [srv EXCEPT !.at = "serving"]
    /\ UNCHANGED job

\* ListenAndServe returns an error.
ListenerFails == srv.at = "serving" /\ Return("1")

(* SIGINT or SIGTERM. The process is killed by it before NotifyContext and  *)
(* after the deferred cancel; a second one is ignored while it drains.     *)
Signal ==
    \/ /\ srv.at = "serving"
       /\ srv' = [srv EXCEPT !.at = "draining"]
       /\ UNCHANGED job
    \/ srv.at \in {"opening", "closing"} /\ Die("killed")

\* Variant: Close instead of Shutdown.
DrainedAtOnce == srv.at = "draining" /\ Return("0")

\* Shutdown returns nil: no connection is active.
Drained ==
    /\ srv.at = "draining"
    /\ \A h \in Handlers : job[h] = Idle
    /\ Return("0")

\* Variant: Shutdown without a deadline.
NoTimeOut == FALSE /\ UNCHANGED servingVars

\* The shutdown timeout. Handlers that are still at work are not told.
TimeOut == srv.at = "draining" /\ Return("1")

Close ==
    /\ srv.at = "closing" /\ srv.open # {}
    /\ srv' = [srv EXCEPT !.open = @ \ {LastOpened(@)}]
    /\ UNCHANGED job

ExitProcess == srv.at = "closing" /\ srv.open = {} /\ Die(srv.exit)

\* SIGKILL, an unrecovered panic, the machine.
Kill == srv.at # "down" /\ Die("killed")

----------------------------------------------------------------------------
(* The handlers                                                            *)

Step(h, at) == job' = [job EXCEPT ![h].at = at]

\* A call on a part: it is open, or what the request has done is lost.
Use(h, part) ==
    srv' = [srv EXCEPT !.lost = @ \/ (part \notin srv.open /\ job[h].changed)]

\* Connections that are open already may bring requests until they are closed.
Accept(h) ==
    /\ srv.at \in {"serving", "draining"} /\ job[h] = Idle
    /\ Step(h, "change")
    /\ UNCHANGED srv

\* The call is sent unless MySQL has been closed; closing it does not stop it.
SendChange(h) ==
    /\ job[h].at = "change"
    /\ Step(h, IF "mysql" \in srv.open THEN "changing" ELSE "record")
    /\ UNCHANGED srv

\* It takes effect, or it fails.
Change(h) ==
    /\ job[h].at = "changing"
    /\ \E changed \in BOOLEAN : job' = [job EXCEPT ![h] = [at |-> "record", changed |-> changed]]
    /\ UNCHANGED srv

Record(h) == job[h].at = "record" /\ Use(h, "store") /\ Step(h, "audit")

\* audit.Write returns before the copy if the row cannot be stored.
AuditRow(h) ==
    /\ job[h].at = "audit"
    /\ Use(h, "store")
    /\ IF "store" \in srv.open THEN Step(h, "copy") ELSE job' = [job EXCEPT ![h] = Idle]

\* The copy, and the answer.
AuditCopy(h) ==
    /\ job[h].at = "copy"
    /\ Use(h, "audit")
    /\ job' = [job EXCEPT ![h] = Idle]

Handle(h) ==
    \/ Accept(h) \/ SendChange(h) \/ Change(h)
    \/ Record(h) \/ AuditRow(h) \/ AuditCopy(h)

\* What the process does by itself once it runs: no handler need end, a
\* statement may hang in MySQL, but opening a part returns and timers fire.
Progress == Open \/ Listen \/ TimeOut \/ Close \/ ExitProcess

ServingNext ==
    \/ Start \/ OpenFails \/ ListenerFails \/ Signal \/ Drained \/ Kill \/ Progress
    \/ \E h \in Handlers : Handle(h)

ServingSpec == ServingInit /\ [][ServingNext]_servingVars

----------------------------------------------------------------------------
(* Properties                                                              *)

(* Exit code 0 means that every request was answered and every change has  *)
(* its record, its audit entry and the copy of it: Shutdown waits for the  *)
(* handlers, and the deferred calls come after it (main.go:168-183).       *)
CleanExitLosesNothing == srv.at = "down" /\ srv.exit = "0" => ~srv.lost

(* No request asks MySQL for a change after the store or the audit log,     *)
(* where the change has to be recorded, was closed under it: handlers that *)
(* outlive the shutdown timeout lose MySQL first (main.go:117-140).        *)
ChangesFindTheStoreOpen ==
    [][\A h \in Handlers :
          job[h].at = "change" /\ job'[h].at = "changing"
             => {"store", "audit"} \subseteq srv.open]_servingVars
=============================================================================
