----------------------------- MODULE HostProofs -----------------------------
(***************************************************************************)
(* Proofs about Serving and Host, for any number of handlers and of        *)
(* deployments. The server on its host is a server: every step of Host     *)
(* that moves it is one of ServingNext, so that what holds of ServingSpec  *)
(* holds under pm2 and while deployments stop and start it.                *)
(***************************************************************************)
EXTENDS Host, TLAPS

----------------------------------------------------------------------------
(* The server                                                              *)

\* MySQL is opened after, and closed before, the parts that record a change.
Ordered == "mysql" \in srv.open => {"store", "audit"} \subseteq srv.open

\* What each stage of the process knows of its parts and handlers.
Stages ==
    /\ srv.at = "down" => \A h \in Handlers : job[h] = Idle
    /\ srv.at = "opening" => ~srv.lost /\ \A h \in Handlers : job[h] = Idle
    /\ srv.at \in {"serving", "draining"} => ~srv.lost /\ srv.open = Parts
    /\ srv.at = "closing" /\ srv.exit = "0" => ~srv.lost /\ \A h \in Handlers : job[h] = Idle

ServingIInv == ServingTypeOK /\ Ordered /\ Stages /\ CleanExitLosesNothing

(* At the start nothing runs and nothing was lost.                         *)
LEMMA ServingStart == ServingInit => ServingIInv
  BY DEF ServingInit, ServingIInv, ServingTypeOK, Server, Job, Idle, Parts, Ordered, Stages,
         CleanExitLosesNothing

(* A process that is killed or exits keeps the invariant if exit code 0 is  *)
(* only given when no handler is at work.                                  *)
LEMMA DieKeeps ==
  ASSUME ServingIInv, NEW code \in {"0", "1", "killed"}, Die(code),
         code = "0" => ~srv.lost /\ \A h \in Handlers : job[h] = Idle
  PROVE  ServingIInv'
  BY DEF Die, ServingIInv, ServingTypeOK, Server, Job, Idle, Parts, Ordered, Stages,
         CleanExitLosesNothing

(* The steps of the process keep the invariant.                            *)
LEMMA ProcessKeeps ==
  ASSUME ServingIInv,
         Start \/ OpenFails \/ ListenerFails \/ Signal \/ Drained \/ Kill \/ Progress
  PROVE  ServingIInv'
<1> USE DEF ServingIInv, ServingTypeOK
<1>1. CASE Start
  BY <1>1 DEF Start, Server, Parts, Ordered, Stages, CleanExitLosesNothing
<1>2. CASE OpenFails \/ ListenerFails \/ TimeOut
  BY <1>2 DEF OpenFails, ListenerFails, TimeOut, Return, Server, Parts, Ordered, Stages,
              CleanExitLosesNothing
<1>3. CASE Drained
  BY <1>3 DEF Drained, Return, Server, Parts, Ordered, Stages, CleanExitLosesNothing
<1>4. CASE Signal
  <2>1. CASE srv.at = "serving" /\ srv' = [srv EXCEPT !.at = "draining"] /\ UNCHANGED job
    BY <2>1 DEF Server, Parts, Ordered, Stages, CleanExitLosesNothing
  <2>2. CASE Die("killed")
    BY <2>2, DieKeeps
  <2> QED
    BY <1>4, <2>1, <2>2 DEF Signal
<1>5. CASE Kill
  BY <1>5, DieKeeps DEF Kill
<1>6. CASE Open
  <2>1. NextPart \in Parts
    BY DEF NextPart, Parts
  <2>2. srv'.open = srv.open \cup {NextPart} /\ srv' \in Server
    BY <1>6, <2>1 DEF Open, Server
  <2>3. Ordered'
    BY <2>2 DEF Ordered, NextPart
  <2> QED
    BY <1>6, <2>2, <2>3 DEF Open, Server, Stages, CleanExitLosesNothing
<1>7. CASE Listen
  BY <1>7 DEF Listen, Server, Parts, Ordered, Stages, CleanExitLosesNothing
<1>8. CASE Close
  <2>1. srv'.open = srv.open \ {LastOpened(srv.open)} /\ srv' \in Server
    BY <1>8 DEF Close, Server
  <2>2. Ordered'
    BY <2>1 DEF Ordered, LastOpened
  <2> QED
    BY <1>8, <2>1, <2>2 DEF Close, Server, Stages, CleanExitLosesNothing
<1>9. CASE ExitProcess
  <2>1. srv.at = "closing" /\ Die(srv.exit)
    BY <1>9 DEF ExitProcess
  <2>2. CASE srv.exit = "none"
    BY <2>1, <2>2 DEF Die, Server, Job, Idle, Parts, Ordered, Stages, CleanExitLosesNothing
  <2>3. CASE srv.exit # "none"
    BY <2>1, <2>3, DieKeeps DEF Stages, Server
  <2> QED
    BY <2>2, <2>3
<1> QED
  BY <1>1, <1>2, <1>3, <1>4, <1>5, <1>6, <1>7, <1>8, <1>9 DEF Progress

(* The steps of a handler keep the invariant: a part it needs is missing    *)
(* only while the process ends with an error.                              *)
LEMMA HandlerKeeps ==
  ASSUME ServingIInv, NEW h \in Handlers, Handle(h)
  PROVE  ServingIInv'
<1> USE DEF ServingIInv, ServingTypeOK
<1>1. CASE Accept(h)
  BY <1>1 DEF Accept, Step, Server, Job, Idle, Ordered, Stages, CleanExitLosesNothing
<1>2. CASE SendChange(h)
  BY <1>2 DEF SendChange, Step, Server, Job, Idle, Ordered, Stages, CleanExitLosesNothing
<1>3. CASE Change(h)
  BY <1>3 DEF Change, Server, Job, Idle, Ordered, Stages, CleanExitLosesNothing
<1>4. ASSUME NEW part \in {"store", "audit"}, Use(h, part), job[h] # Idle,
             job' \in [Handlers -> Job],
             \A k \in Handlers : job[k] = Idle => job'[k] = Idle
      PROVE  ServingIInv'
  <2>1. srv.at \in {"serving", "draining", "closing"}
    BY <1>4 DEF Stages, Server
  <2>2. srv' \in Server /\ srv'.at = srv.at /\ srv'.open = srv.open /\ srv'.exit = srv.exit
    BY <1>4 DEF Use, Server
  <2>3. srv.at \in {"serving", "draining"} => ~srv'.lost
    BY <1>4 DEF Use, Stages, Parts, Server
  <2> QED
    BY <1>4, <2>1, <2>2, <2>3 DEF Ordered, Stages, CleanExitLosesNothing
<1>5. CASE Record(h)
  <2>1. job[h] # Idle /\ job' \in [Handlers -> Job]
    BY <1>5 DEF Record, Step, Job, Idle
  <2>2. \A k \in Handlers : job[k] = Idle => job'[k] = Idle
    BY <1>5, <2>1 DEF Record, Step
  <2> QED
    BY <1>4, <1>5, <2>1, <2>2 DEF Record
<1>6. CASE AuditRow(h)
  <2>0. Idle \in Job /\ job[h] \in Job /\ [job[h] EXCEPT !.at = "copy"] \in Job
    BY DEF Idle, Job
  <2>1. job[h] # Idle /\ job' \in [Handlers -> Job]
    <3>1. job[h] # Idle
      BY <1>6 DEF AuditRow, Idle
    <3>2. job' \in {[job EXCEPT ![h].at = "copy"], [job EXCEPT ![h] = Idle]}
      BY <1>6 DEF AuditRow, Step
    <3> QED
      BY <2>0, <3>1, <3>2
  <2>2. \A k \in Handlers : job[k] = Idle => job'[k] = Idle
    BY <1>6, <2>1 DEF AuditRow, Step
  <2> QED
    BY <1>4, <1>6, <2>1, <2>2 DEF AuditRow
<1>7. CASE AuditCopy(h)
  <2>1. job[h] # Idle /\ job' \in [Handlers -> Job]
    BY <1>7 DEF AuditCopy, Job, Idle
  <2>2. \A k \in Handlers : job[k] = Idle => job'[k] = Idle
    BY <1>7 DEF AuditCopy
  <2> QED
    BY <1>4, <1>7, <2>1, <2>2 DEF AuditCopy
<1> QED
  BY <1>1, <1>2, <1>3, <1>5, <1>6, <1>7 DEF Handle

(* The invariant of the server is inductive.                               *)
LEMMA ServingStep == ServingIInv /\ [ServingNext]_servingVars => ServingIInv'
<1> SUFFICES ASSUME ServingIInv, [ServingNext]_servingVars PROVE ServingIInv'
  OBVIOUS
<1>1. CASE UNCHANGED servingVars
  BY <1>1 DEF servingVars, ServingIInv, ServingTypeOK, Ordered, Stages, CleanExitLosesNothing
<1>2. CASE ServingNext
  BY <1>2, ProcessKeeps, HandlerKeeps DEF ServingNext
<1> QED
  BY <1>1, <1>2

(* A handler asks MySQL for a change only while MySQL is open.             *)
LEMMA SentWhileOpen ==
  ASSUME ServingIInv, [ServingNext]_servingVars, NEW h \in Handlers,
         job[h].at = "change", job'[h].at = "changing"
  PROVE  {"store", "audit"} \subseteq srv.open
<1>1. CASE ServingNext
  <2>1. job' # job
    OBVIOUS
  <2>2. CASE \E k \in Handlers : Handle(k)
    <3>1. PICK k \in Handlers : Handle(k)
      BY <2>2
    <3>2. k = h
      BY <3>1 DEF Handle, Accept, SendChange, Change, Record, AuditRow, AuditCopy, Step,
                  ServingIInv, ServingTypeOK
    <3>3. SendChange(h)
      BY <3>1, <3>2 DEF Handle, Accept, Change, Record, AuditRow, AuditCopy, Idle
    <3>4. "mysql" \in srv.open
      BY <3>3 DEF SendChange, Step, ServingIInv, ServingTypeOK
    <3> QED
      BY <3>4 DEF ServingIInv, Ordered
  <2>3. ASSUME NEW code, Die(code) PROVE FALSE
    BY <2>3 DEF Die, Idle
  <2>4. CASE \/ Start \/ OpenFails \/ ListenerFails \/ Signal \/ Drained \/ Kill \/ Progress
    BY <2>1, <2>3, <2>4 DEF Start, OpenFails, ListenerFails, Signal, Drained, Kill, Progress,
                            Open, Listen, TimeOut, Close, ExitProcess, Return
  <2> QED
    BY <1>1, <2>2, <2>4 DEF ServingNext
<1> QED
  BY <1>1 DEF servingVars

(* The server that runs on its host is a server.                           *)
LEMMA HostStepServes == [Next]_vars => [ServingNext]_servingVars
<1> SUFFICES ASSUME Next, ~UNCHANGED servingVars PROVE ServingNext
  BY DEF vars, servingVars
<1> USE DEF ServingNext, servingVars
<1>1. CASE Runs
  BY <1>1 DEF Runs
<1>2. CASE Crash
  BY <1>2 DEF Crash
<1>3. ASSUME NEW next, Ask(next) PROVE ServingNext
  BY <1>3 DEF Ask
<1>4. CASE Pm2Next
  BY <1>3, <1>4 DEF Pm2Next, Spawn, NoticeExit, MemoryRestart, KillTimeout, NoticeStop
<1>5. ASSUME NEW d \in Deployments, Begin(d) \/ Deploy(d) \/ Pm2StopFails(d) PROVE ServingNext
  <2>1. CASE Pm2Stop(d) \/ Pm2Start(d)
    BY <1>3, <2>1 DEF Pm2Stop, Pm2Start
  <2> QED
    BY <1>5, <2>1 DEF Begin, Deploy, Pm2StopFails, server, Upload, Verify, Backup, InstallOpen,
                      InstallCopy, RemoveStaged, Health
<1> QED
  BY <1>1, <1>2, <1>4, <1>5 DEF Next

(* The host implements the server's own specification.                     *)
THEOREM HostImplementsServing == Spec => ServingSpec
<1>1. Init => ServingInit
  BY DEF Init
<1> QED
  BY <1>1, HostStepServes, PTL DEF Spec, ServingSpec

(* The server's invariant holds on the host.                               *)
LEMMA ServingInvariant == Spec => []ServingIInv
  BY HostImplementsServing, ServingStart, ServingStep, PTL DEF ServingSpec

(* Exit code 0 means that every request was answered and every change has  *)
(* its record and its audit entry (main.go:168-183), whatever pm2 and the  *)
(* deployments do.                                                         *)
THEOREM CleanExit == Spec => []CleanExitLosesNothing
<1>1. ServingIInv => CleanExitLosesNothing
  BY DEF ServingIInv
<1> QED
  BY <1>1, ServingInvariant, PTL

(* No request asks MySQL for a change that cannot be recorded any more     *)
(* because the store or the audit log was closed (main.go:117-140).        *)
THEOREM StoreOpen == Spec => ChangesFindTheStoreOpen
<1>1. ServingIInv /\ [ServingNext]_servingVars
        => [\A h \in Handlers :
               job[h].at = "change" /\ job'[h].at = "changing"
                  => {"store", "audit"} \subseteq srv.open]_servingVars
  BY SentWhileOpen
<1> QED
  BY <1>1, ServingInvariant, HostImplementsServing, PTL DEF ServingSpec, ChangesFindTheStoreOpen

----------------------------------------------------------------------------
(* The host                                                                *)

\* What pm2 knows of the process that it has told to stop.
Stopping == pm2.is = "stopping" => srv.at \in {"down", "draining", "closing"}

\* No other deployment is under way.
Alone == last.alone => \A e \in Deployments : e # last.dep => ~Active(e)

\* What each program point of an undisturbed deployment knows of the files,
\* and the last one of the process.
Steady(d) ==
    /\ dep[d].at \in {"backup", "open", "copy"} => staged = d
    /\ dep[d].at = "copy" => dep[d].src = d
    /\ dep[d].at \in {"remove", "stop", "start", "health", "ok"} => bin = d
    /\ dep[d].at \in {"upload", "verify", "backup"} => bin = last.bin
    /\ dep[d].at \in {"open", "copy", "remove", "stop", "start", "health", "ok"}
          => last.bin \in backups
    /\ dep[d].at = "health" /\ srv.at \in {"opening", "serving"} => build = d

Files == last.alone => /\ last.bin \in {bin} \cup backups
                       /\ last.dep # None => dep[last.dep].at # "idle" /\ Steady(last.dep)

HostIInv == TypeOK /\ Stopping /\ Alone /\ Files

(* At the start no deployment is under way.                                *)
LEMMA HostStart == Init => HostIInv
  BY HostAssumption
  DEF Init, ServingInit, HostIInv, TypeOK, ServingTypeOK, Server, Job, Idle, Pm2, Deployment,
      Latest, Contents, Builds, Stopping, Alone, Active, Files

(* The steps of the server and of pm2, as far as the host is concerned: no  *)
(* file and no deployment is touched, and a process begins as the          *)
(* installed build or does not begin.                                      *)
LEMMA ServerStepKeeps ==
  ASSUME HostIInv, HostIInv => ServingTypeOK', UNCHANGED depVars,
         pm2' \in Pm2, build' \in Builds \cup {None},
         srv'.at # "down" => pm2'.is \in {"online", "stopping"} /\ build' \in Builds,
         Stopping',
         srv'.at \in {"opening", "serving"} =>
             build' = bin \/ (build' = build /\ srv.at \in {"opening", "serving"})
  PROVE  HostIInv'
  BY DEF HostIInv, TypeOK, depVars, Alone, Active, Files, Steady

(* The server keeps its own type, whoever moves it.                        *)
LEMMA ServerKeepsType == ServingIInv /\ [Next]_vars => ServingTypeOK'
  BY HostStepServes, ServingStep DEF ServingIInv

(* What the server does by itself, and what ends it.                       *)
LEMMA ServerAlone ==
  ASSUME srv \in Server, Runs \/ Crash \/ KillTimeout
  PROVE  /\ UNCHANGED hostVars
         /\ srv'.at # "down" => srv.at # "down"
         /\ srv'.at \in {"opening", "serving"} => srv.at \in {"opening", "serving"}
<1>1. CASE Crash \/ KillTimeout
  BY <1>1 DEF Crash, KillTimeout, Kill, Die, Server
<1>2. CASE Runs
  <2>1. CASE OpenFails \/ ListenerFails \/ Drained
    BY <1>2, <2>1 DEF Runs, OpenFails, ListenerFails, Drained, Return, Server
  <2>2. CASE Progress
    <3>1. UNCHANGED hostVars
      BY <1>2 DEF Runs
    <3>2. CASE Open \/ Listen \/ TimeOut
      BY <3>1, <3>2 DEF Open, Listen, TimeOut, Return, Server
    <3>3. CASE Close
      BY <3>1, <3>3 DEF Close, Server
    <3>4. CASE ExitProcess
      BY <3>1, <3>4 DEF ExitProcess, Die
    <3> QED
      BY <2>2, <3>2, <3>3, <3>4 DEF Progress
  <2>3. CASE \E h \in Handlers : Handle(h)
    BY <1>2, <2>3 DEF Runs, Handle, Accept, SendChange, Change, Record, AuditRow, AuditCopy, Use, Server
  <2> QED
    BY <1>2, <2>1, <2>2, <2>3 DEF Runs
<1> QED
  BY <1>1, <1>2

(* After pm2 has asked it to stop, the process is going down.               *)
LEMMA Asked ==
  ASSUME srv \in Server, pm2 \in Pm2, NEW next \in {"stopped", "waiting"}, Ask(next)
  PROVE  /\ pm2' \in Pm2 /\ pm2'.is = "stopping"
         /\ srv'.at \in {"down", "draining"}
         /\ srv'.at # "down" => srv.at # "down"
<1>1. pm2' \in Pm2 /\ pm2'.is = "stopping"
  BY DEF Ask, Pm2
<1>2. CASE Die("killed") /\ srv.at \in {"opening", "closing"}
  BY <1>1, <1>2 DEF Die
<1>3. CASE srv.at = "serving" /\ srv' = [srv EXCEPT !.at = "draining"]
  BY <1>1, <1>3 DEF Server
<1>4. CASE srv.at \in {"down", "draining"} /\ UNCHANGED srv
  BY <1>1, <1>4
<1> QED
  BY <1>2, <1>3, <1>4 DEF Ask, Signal, servingVars

(* pm2 and the server keep the invariant.                                  *)
LEMMA ServerKeeps ==
  ASSUME HostIInv, ServingTypeOK', Runs \/ Crash \/ Pm2Next
  PROVE  HostIInv'
<1>0. srv \in Server /\ pm2 \in Pm2 /\ build \in Builds \cup {None}
      /\ (srv.at # "down" => pm2.is \in {"online", "stopping"} /\ build \in Builds)
  BY DEF HostIInv, TypeOK, ServingTypeOK
<1>1. CASE Runs \/ Crash \/ KillTimeout
  <2>1. Stopping'
    BY <1>0, <1>1, ServerAlone DEF hostVars, HostIInv, Stopping, ServingTypeOK, Server
  <2>2. UNCHANGED <<build, pm2, depVars>>
    BY <1>0, <1>1, ServerAlone DEF hostVars, depVars
  <2> QED
    BY <1>0, <1>1, <2>1, <2>2, ServerAlone, ServerStepKeeps
<1>2. CASE Spawn
  <2>1. CASE bin \in Builds
    BY <1>0, <1>2, <2>1, ServerStepKeeps DEF Spawn, Start, Pm2, Stopping
  <2>2. CASE bin \notin Builds
    BY <1>0, <1>2, <2>2, ServerStepKeeps DEF Spawn, AgainOrNot, Pm2, Stopping
  <2> QED
    BY <2>1, <2>2
<1>3. CASE NoticeExit
  BY <1>0, <1>3, ServerStepKeeps DEF NoticeExit, AgainOrNot, Pm2, Stopping
<1>4. CASE MemoryRestart
  BY <1>0, <1>4, Asked, ServerStepKeeps DEF MemoryRestart, Stopping
<1>5. CASE NoticeStop
  BY <1>0, <1>5, ServerStepKeeps DEF NoticeStop, Pm2, Stopping
<1> QED
  BY <1>1, <1>2, <1>3, <1>4, <1>5 DEF Pm2Next

(* A new deployment is undisturbed if no other one is under way.           *)
LEMMA BeginKeeps ==
  ASSUME HostIInv, NEW d \in Deployments, Begin(d)
  PROVE  HostIInv'
<1> d # None
  BY HostAssumption DEF Builds
<1>1. dep[d] \in Deployment /\ dep' = [dep EXCEPT ![d].at = "upload"]
      /\ last' = [dep |-> d, bin |-> bin, alone |-> \A e \in Deployments : ~Active(e)]
      /\ UNCHANGED <<srv, job, build, pm2, bin, backups>> /\ staged' = Torn
  BY DEF Begin, Go, HostIInv, TypeOK
<1>2. dep' \in [Deployments -> Deployment] /\ dep'[d].at = "upload"
  BY <1>1 DEF HostIInv, TypeOK, Deployment
<1>3. TypeOK' /\ Stopping'
  BY <1>1, <1>2 DEF HostIInv, TypeOK, ServingTypeOK, Latest, Contents, Stopping
<1>4. Alone'
  BY <1>1 DEF Alone, Active, HostIInv, TypeOK
<1>5. Files'
  BY <1>1, <1>2 DEF Files, Steady
<1> QED
  BY <1>3, <1>4, <1>5 DEF HostIInv

(* A step of a deployment changes no other one, and while the last one is   *)
(* undisturbed no other one takes a step.                                  *)
LEMMA OtherDeployments ==
  ASSUME HostIInv, NEW d \in Deployments, Active(d), UNCHANGED last,
         NEW r \in Deployment, dep' = [dep EXCEPT ![d] = r]
  PROVE  /\ dep' \in [Deployments -> Deployment] /\ dep'[d] = r
         /\ last.alone => last.dep = d
         /\ Alone'
  BY DEF HostIInv, TypeOK, Alone, Active

(* The steps that copy files.                                              *)
LEMMA CopyingKeeps ==
  ASSUME HostIInv, NEW d \in Deployments,
         Upload(d) \/ Verify(d) \/ Backup(d) \/ InstallOpen(d) \/ InstallCopy(d) \/ RemoveStaged(d)
  PROVE  HostIInv'
<1>0. /\ dep[d] \in Deployment /\ UNCHANGED <<srv, job, build, pm2, last>>
      /\ bin \in Contents /\ staged \in Contents /\ d \in Contents
      /\ Torn \in Contents /\ None \in Contents /\ d # None /\ d # Torn
  BY HostAssumption DEF HostIInv, TypeOK, Upload, Verify, Backup, InstallOpen, InstallCopy,
                        RemoveStaged, server, Contents, Builds
<1>1. ASSUME NEW r \in Deployment, dep' = [dep EXCEPT ![d] = r], Active(d), r.at # "idle",
             bin' \in Contents, staged' \in Contents, backups' \in SUBSET Contents,
             last.alone /\ last.dep = d /\ Steady(d) =>
                /\ last.bin \in {bin'} \cup backups'
                /\ Steady(d)'
      PROVE  HostIInv'
  <2>1. /\ dep' \in [Deployments -> Deployment] /\ dep'[d] = r
        /\ last.alone => last.dep = d
        /\ Alone'
    BY <1>0, <1>1, OtherDeployments
  <2>2. TypeOK' /\ Stopping'
    BY <1>0, <1>1, <2>1 DEF HostIInv, TypeOK, ServingTypeOK, Stopping
  <2>3. Files'
    BY <1>0, <1>1, <2>1 DEF HostIInv, Files
  <2> QED
    BY <2>1, <2>2, <2>3 DEF HostIInv
<1> DEFINE To(at) == [dep[d] EXCEPT !.at = at]
<1>2. \A at \in {"verify", "backup", "open", "stop", "failed"} :
         To(at) \in Deployment /\ To(at).at = at /\ To(at).src = dep[d].src
  BY <1>0 DEF Deployment
<1> USE DEF Active, Steady
<1>3. CASE Upload(d)
  BY <1>0, <1>1, <1>2, <1>3 DEF Upload, Go, Fail, HostIInv, TypeOK
<1>4. CASE Verify(d)
  BY <1>0, <1>1, <1>2, <1>4 DEF Verify, Go, Fail, HostIInv, TypeOK
<1>5. CASE Backup(d)
  BY <1>0, <1>1, <1>2, <1>5 DEF Backup, Go, Fail, HostIInv, TypeOK
<1>6. CASE InstallOpen(d)
  <2>1. [at |-> "copy", src |-> staged] \in Deployment
    BY <1>0 DEF Deployment
  <2>2. CASE dep' = [dep EXCEPT ![d] = [at |-> "copy", src |-> staged]] /\ bin' = Torn
    BY <1>0, <1>1, <1>6, <2>1, <2>2 DEF InstallOpen, HostIInv, TypeOK
  <2>3. CASE UNCHANGED bin /\ Fail(d)
    BY <1>0, <1>1, <1>2, <1>6, <2>3 DEF InstallOpen, Go, Fail, HostIInv, TypeOK
  <2> QED
    BY <1>6, <2>2, <2>3 DEF InstallOpen
<1>7. CASE InstallCopy(d)
  <2>1. [at |-> "remove", src |-> None] \in Deployment /\ [at |-> "failed", src |-> None] \in Deployment
    BY <1>0 DEF Deployment
  <2>2. dep[d].src \in Contents
    BY <1>0 DEF Deployment
  <2> QED
    BY <1>0, <1>1, <1>7, <2>1, <2>2 DEF InstallCopy, HostIInv, TypeOK
<1>8. CASE RemoveStaged(d)
  BY <1>0, <1>1, <1>2, <1>8 DEF RemoveStaged, Go, Fail, HostIInv, TypeOK
<1> QED
  BY <1>3, <1>4, <1>5, <1>6, <1>7, <1>8

(* The steps that restart the server and look at it. From pm2 start on, a   *)
(* process that serves has begun after the file was installed.             *)
LEMMA RestartKeeps ==
  ASSUME HostIInv, ServingTypeOK', NEW d \in Deployments,
         Pm2Stop(d) \/ Pm2StopFails(d) \/ Pm2Start(d) \/ Health(d)
  PROVE  HostIInv'
<1>0. /\ dep[d] \in Deployment /\ srv \in Server /\ pm2 \in Pm2
      /\ UNCHANGED <<build, files>>
      /\ (srv.at # "down" => pm2.is \in {"online", "stopping"} /\ build \in Builds)
      /\ (pm2.is = "stopping" => srv.at \in {"down", "draining", "closing"})
  BY DEF HostIInv, TypeOK, ServingTypeOK, Stopping, Pm2Stop, Pm2StopFails, Pm2Start, Health,
         server, files
<1>1. ASSUME NEW r \in Deployment, dep' = [dep EXCEPT ![d] = r], Active(d),
             r.at \in {"stop", "start", "health", "ok", "failed"}, dep[d].at \in {"stop", "start", "health"},
             pm2' \in Pm2,
             srv'.at # "down" => srv.at # "down" /\ pm2'.is \in {"online", "stopping"},
             Stopping',
             r.at = "health" /\ srv'.at \in {"opening", "serving"} => FALSE
      PROVE  HostIInv'
  <2>1. /\ dep' \in [Deployments -> Deployment] /\ dep'[d] = r
        /\ last.alone => last.dep = d
        /\ Alone'
    BY <1>0, <1>1, OtherDeployments DEF files
  <2>2. TypeOK'
    BY <1>0, <1>1, <2>1 DEF HostIInv, TypeOK, files
  <2>3. Files'
    BY <1>0, <1>1, <2>1 DEF HostIInv, Files, Steady, files
  <2> QED
    BY <1>1, <2>1, <2>2, <2>3 DEF HostIInv
<1> DEFINE To(at) == [dep[d] EXCEPT !.at = at]
<1>2. \A at \in {"start", "health", "ok", "failed"} :
         To(at) \in Deployment /\ To(at).at = at
  BY <1>0 DEF Deployment
<1>3. dep[d].at \in {"stop", "start", "health"} => Active(d)
  BY DEF Active
<1>4. CASE Pm2StopFails(d)
  BY <1>0, <1>1, <1>2, <1>3, <1>4 DEF Pm2StopFails, Go, Stopping
<1>5. CASE Health(d)
  BY <1>0, <1>1, <1>2, <1>3, <1>5 DEF Health, Go, Fail, server, Stopping
<1>6. CASE Pm2Stop(d)
  <2>1. dep' = [dep EXCEPT ![d] = dep[d]] \/ dep' = [dep EXCEPT ![d] = To("start")]
    BY <1>6 DEF Pm2Stop, Go, HostIInv, TypeOK
  <2>2. CASE pm2.is = "online"
    BY <1>0, <1>1, <1>2, <1>3, <1>6, <2>1, <2>2, Asked DEF Pm2Stop, Stopping
  <2>3. CASE pm2.is # "online"
    BY <1>0, <1>1, <1>2, <1>3, <1>6, <2>1, <2>3 DEF Pm2Stop, Stopping, Pm2
  <2> QED
    BY <2>2, <2>3
<1>7. CASE Pm2Start(d)
  <2>1. CASE pm2.is = "online" /\ Ask("waiting") /\ Go(d, "health")
    BY <1>0, <1>1, <1>2, <1>3, <1>7, <2>1, Asked DEF Pm2Start, Go, Stopping
  <2>2. CASE Go(d, "health") /\ UNCHANGED servingVars /\ pm2.is # "online"
    BY <1>0, <1>1, <1>2, <1>3, <1>7, <2>2 DEF Pm2Start, Go, Stopping, Pm2, servingVars, Server
  <2>3. CASE Fail(d) /\ UNCHANGED <<srv, job, pm2>>
    BY <1>0, <1>1, <1>2, <1>3, <1>7, <2>3 DEF Pm2Start, Fail, Go, Stopping
  <2> QED
    BY <1>7, <2>1, <2>2, <2>3 DEF Pm2Start
<1> QED
  BY <1>4, <1>5, <1>6, <1>7

(* The invariant of the host is inductive.                                 *)
LEMMA HostStep == ServingIInv /\ HostIInv /\ [Next]_vars => HostIInv'
<1> SUFFICES ASSUME ServingIInv, HostIInv, [Next]_vars PROVE HostIInv'
  OBVIOUS
<1>1. ServingTypeOK'
  BY ServerKeepsType
<1>2. CASE UNCHANGED vars
  BY <1>2 DEF vars, HostIInv, TypeOK, ServingTypeOK, Stopping, Alone, Active, Files, Steady
<1>3. CASE Next
  BY <1>1, <1>3, ServerKeeps, BeginKeeps, CopyingKeeps, RestartKeeps DEF Next, Deploy
<1> QED
  BY <1>2, <1>3

LEMMA HostInvariant == Spec => [](ServingIInv /\ HostIInv)
  BY ServingInvariant, HostStart, HostStep, PTL DEF Spec

(* Every reachable state has its type, and a process runs only under pm2.   *)
THEOREM HostTypeCorrect == Spec => []TypeOK
<1>1. HostIInv => TypeOK
  BY DEF HostIInv
<1> QED
  BY <1>1, HostInvariant, PTL

(* The installed file is the one that was verified (ci-deploy.sh:79-91),    *)
(* unless two deployments overlap.                                         *)
THEOREM InstalledVerified == Spec => []InstalledAsVerified
<1>1. HostIInv => InstalledAsVerified
  BY DEF HostIInv, Files, Steady, InstalledAsVerified
<1> QED
  BY <1>1, HostInvariant, PTL

(* What the last deployment has replaced is still there (ci-deploy.sh:90),  *)
(* whatever fails, unless another one overlapped it.                       *)
THEOREM BackIsPossible == Spec => []CanGoBack
<1>1. HostIInv => CanGoBack
  BY DEF HostIInv, Files, CanGoBack
<1> QED
  BY <1>1, HostInvariant, PTL

(* A deployment that reports success was answered by its own build          *)
(* (ci-deploy.sh:96-125), unless another one overlapped it.                *)
THEOREM SuccessIsServed == Spec => DeployedIsServed
<1>1. HostIInv /\ [Next]_vars
        => [\A d \in Deployments :
               dep[d].at # "ok" /\ dep'[d].at = "ok" /\ last.dep = d /\ last.alone
                  => build = d]_vars
  <2> SUFFICES ASSUME HostIInv, Next, NEW d \in Deployments,
                      dep[d].at # "ok", dep'[d].at = "ok", last.dep = d, last.alone
               PROVE  build = d
    BY DEF vars
  <2>1. dep \in [Deployments -> Deployment] /\ d # None
    BY HostAssumption DEF HostIInv, TypeOK, Builds
  <2>2. CASE Runs \/ Crash
    BY <2>2 DEF Runs, Crash, hostVars
  <2>3. CASE Pm2Next
    <3>1. dep' = dep
      BY <2>3 DEF Pm2Next, Spawn, NoticeExit, MemoryRestart, KillTimeout, NoticeStop,
                  hostVars, depVars
    <3> QED
      BY <3>1
  <2>4. ASSUME NEW e \in Deployments, Begin(e) \/ Deploy(e) \/ Pm2StopFails(e)
        PROVE  build = d
    <3>1. CASE Upload(e) \/ Verify(e) \/ Backup(e) \/ InstallOpen(e) \/ InstallCopy(e)
      <4>1. \/ \E at \in {"verify", "backup", "open", "failed"} : Go(e, at)
            \/ \E at \in {"copy", "remove", "failed"}, src \in Contents \cup {staged, None} :
                  dep' = [dep EXCEPT ![e] = [at |-> at, src |-> src]]
        BY <3>1 DEF Upload, Verify, Backup, InstallOpen, InstallCopy, Fail
      <4> QED
        BY <2>1, <4>1 DEF Go, Deployment
    <3>2. CASE Begin(e) \/ RemoveStaged(e) \/ Pm2Stop(e) \/ Pm2StopFails(e) \/ Pm2Start(e)
      <4>1. dep' = dep \/ \E at \in {"upload", "stop", "start", "health", "failed"} : Go(e, at)
        BY <3>2 DEF Begin, RemoveStaged, Pm2Stop, Pm2StopFails, Pm2Start, Fail
      <4> QED
        BY <2>1, <4>1 DEF Go, Deployment
    <3>3. CASE Health(e)
      <4>1. dep[d].at = "health" /\ srv.at = "serving"
        BY <2>1, <3>3 DEF Health, Go, Fail, Deployment
      <4> QED
        BY <2>1, <4>1 DEF HostIInv, Files, Steady
    <3> QED
      BY <2>4, <3>1, <3>2, <3>3 DEF Deploy
  <2> QED
    BY <2>2, <2>3, <2>4 DEF Next
<1> QED
  BY <1>1, HostInvariant, PTL DEF Spec, DeployedIsServed
=============================================================================
