-------------------------------- MODULE Host --------------------------------
(***************************************************************************)
(* The host the server runs on: pm2, which starts and stops it as          *)
(* scripts/ecosystem.config.json says, and the deployments of              *)
(* .github/workflows/deploy.yml, each of which copies a build to the host  *)
(* and runs scripts/ci-deploy.sh. Two deployments may overlap: nothing     *)
(* keeps them apart, and they copy to the same place.                      *)
(***************************************************************************)
EXTENDS Serving

CONSTANTS
    Deployments,    \* each brings a build of its own, and has its name
    First,          \* the build that is installed at the start
    Torn,           \* the contents of a file that was not written to its end
    None            \* no file

Builds   == Deployments \cup {First}
Contents == Builds \cup {Torn, None}

ASSUME HostAssumption ==
    /\ First \notin Deployments
    /\ Torn \notin Builds /\ None \notin Builds /\ Torn # None

VARIABLES
    build,      \* what the process executes, until pm2 sees that it has ended
    pm2,        \* pm2 and its one app
    bin,        \* /usr/local/bin/db-isolation
    backups,    \* the contents of its backups: their names have the time in them
    staged,     \* /tmp/bin/db-isolation.linux-amd64
    dep,        \* dep[d]: a deployment
    last        \* history: the deployment that began last

hostVars == <<build, pm2, bin, backups, staged, dep, last>>
vars     == <<srv, job, build, pm2, bin, backups, staged, dep, last>>
depVars  == <<bin, backups, staged, dep, last>>

(* is: "waiting" between two processes; then is where "stopping" leads.     *)
Pm2 == [is   : {"stopped", "waiting", "online", "stopping", "errored"},
        then : {"stopped", "waiting"}]

(* src is what install has opened. *)
Deployment ==
    [at  : {"idle", "upload", "verify", "backup", "open", "copy", "remove",
            "stop", "start", "health", "ok", "failed"},
     src : Contents]

(* bin was installed when the deployment began; alone: no other one was     *)
(* under way when it began, and none has begun since.                      *)
Latest == [dep : Deployments \cup {None}, bin : Contents, alone : BOOLEAN]

TypeOK ==
    /\ ServingTypeOK
    /\ build \in Builds \cup {None}
    /\ pm2 \in Pm2
    /\ bin \in Contents /\ backups \subseteq Contents /\ staged \in Contents
    /\ dep \in [Deployments -> Deployment]
    /\ last \in Latest
    /\ srv.at # "down" => pm2.is \in {"online", "stopping"} /\ build \in Builds

Init ==
    /\ ServingInit
    /\ build = None
    /\ pm2 = [is |-> "waiting", then |-> "stopped"]
    /\ bin = First /\ backups = {} /\ staged = None
    /\ dep = [d \in Deployments |-> [at |-> "idle", src |-> None]]
    /\ last = [dep |-> None, bin |-> First, alone |-> TRUE]

----------------------------------------------------------------------------
(* pm2                                                                     *)

(* A process that has ended early, within min_uptime, is one of the         *)
(* max_restarts that pm2 puts up with, or the last; pm2 counts them.       *)
AgainOrNot == pm2' \in {[pm2 EXCEPT !.is = "waiting"], [pm2 EXCEPT !.is = "errored"]}

\* exec: a file that is torn or still open for writing cannot be executed.
Spawn ==
    /\ pm2.is = "waiting"
    /\ \/ /\ bin \in Builds
          /\ Start
          /\ build' = bin
          /\ pm2' = [pm2 EXCEPT !.is = "online"]
       \/ /\ bin \notin Builds
          /\ AgainOrNot
          /\ UNCHANGED <<srv, job, build>>
    /\ UNCHANGED depVars

\* autorestart: the process has ended by itself, early or not.
NoticeExit ==
    /\ pm2.is = "online" /\ srv.at = "down"
    /\ AgainOrNot
    /\ build' = None
    /\ UNCHANGED <<srv, job, depVars>>

\* kill_signal, and then wait. max_memory_restart does the same by itself.
Ask(next) ==
    /\ pm2' = [pm2 EXCEPT !.is = "stopping", !.then = next]
    /\ \/ Signal
       \/ srv.at \in {"down", "draining"} /\ UNCHANGED servingVars

MemoryRestart ==
    /\ pm2.is = "online" /\ srv.at = "serving"
    /\ Ask("waiting")
    /\ UNCHANGED <<build, depVars>>

\* kill_timeout is as long as the server's own shutdown timeout.
KillTimeout ==
    /\ pm2.is = "stopping" /\ Kill
    /\ UNCHANGED hostVars

NoticeStop ==
    /\ pm2.is = "stopping" /\ srv.at = "down"
    /\ pm2' = [pm2 EXCEPT !.is = pm2.then, !.then = "stopped"]
    /\ build' = None
    /\ UNCHANGED <<srv, job, depVars>>

----------------------------------------------------------------------------
(* A deployment                                                            *)

Active(d) == dep[d].at \notin {"idle", "ok", "failed"}

Go(d, at) == dep' = [dep EXCEPT ![d].at = at]
Fail(d)   == Go(d, "failed")

server == <<srv, job, build, pm2, last>>

\* scp begins: the file of an earlier upload is overwritten.
Begin(d) ==
    /\ dep[d].at = "idle"
    /\ Go(d, "upload")
    /\ staged' = Torn
    /\ last' = [dep |-> d, bin |-> bin, alone |-> \A e \in Deployments : ~Active(e)]
    /\ UNCHANGED <<srv, job, build, pm2, bin, backups>>

\* It ends, with the whole build, or cut short.
Upload(d) ==
    /\ dep[d].at = "upload"
    /\ \/ staged' = d /\ Go(d, "verify")
       \/ staged' = Torn /\ Go(d, "verify")
       \/ UNCHANGED staged /\ Fail(d)
    /\ UNCHANGED <<server, backups, bin>>

\* Variant: the file is there, and that is enough.
VerifyExists(d) ==
    /\ dep[d].at = "verify"
    /\ IF staged = None THEN Fail(d) ELSE Go(d, "backup")
    /\ UNCHANGED <<server, backups, bin, staged>>

\* The pre-flight checks, and the sha256 of the file.
Verify(d) ==
    /\ dep[d].at = "verify"
    /\ IF staged = d THEN Go(d, "backup") ELSE Fail(d)
    /\ UNCHANGED <<server, backups, bin, staged>>

\* Variant: the new file is copied.
BackupStaged(d) ==
    /\ dep[d].at = "backup"
    /\ backups' = backups \cup {staged}
    /\ Go(d, "open")
    /\ UNCHANGED <<server, bin, staged>>

(* cp "$BIN" "$BAK". set -e: a command that fails ends the script. What a   *)
(* cp that fails leaves behind does not count as a backup.                 *)
Backup(d) ==
    /\ dep[d].at = "backup"
    /\ \/ backups' = backups \cup {bin} /\ Go(d, "open")
       \/ UNCHANGED backups /\ Fail(d)
    /\ UNCHANGED <<server, bin, staged>>

\* install opens its source, removes the old file and creates a new one.
InstallOpen(d) ==
    /\ dep[d].at = "open"
    /\ \/ /\ staged # None
          /\ bin' = Torn
          /\ dep' = [dep EXCEPT ![d] = [at |-> "copy", src |-> staged]]
       \/ UNCHANGED bin /\ Fail(d)
    /\ UNCHANGED <<server, backups, staged>>

(* It copies what it has opened, which another upload may overwrite at the  *)
(* same time, or stops half-way.                                           *)
InstallCopy(d) ==
    /\ dep[d].at = "copy"
    /\ \/ /\ bin' \in IF staged \in {dep[d].src, None} THEN {dep[d].src}
                      ELSE {dep[d].src, staged, Torn}
          /\ dep' = [dep EXCEPT ![d] = [at |-> "remove", src |-> None]]
       \/ bin' = Torn /\ dep' = [dep EXCEPT ![d] = [at |-> "failed", src |-> None]]
    /\ UNCHANGED <<server, backups, staged>>

RemoveStaged(d) ==
    /\ dep[d].at = "remove"
    /\ \/ staged' = None /\ Go(d, "stop")
       \/ UNCHANGED staged /\ Fail(d)
    /\ UNCHANGED <<server, backups, bin>>

files == <<bin, backups, staged, last>>

\* pm2 stop returns when the app has stopped.
Pm2Stop(d) ==
    /\ dep[d].at = "stop"
    /\ \/ /\ pm2.is \in {"stopped", "errored"}
          /\ Go(d, "start") /\ UNCHANGED <<srv, job, pm2>>
       \/ pm2.is = "online" /\ Ask("stopped") /\ UNCHANGED dep
       \/ /\ pm2.is = "stopping" /\ pm2.then = "waiting"
          /\ pm2' = [pm2 EXCEPT !.then = "stopped"]
          /\ UNCHANGED <<srv, job, dep>>
       \/ /\ pm2.is = "waiting"
          /\ pm2' = [pm2 EXCEPT !.is = "stopped"]
          /\ UNCHANGED <<srv, job, dep>>
    /\ UNCHANGED <<build, files>>

\* "|| true"
Pm2StopFails(d) ==
    /\ dep[d].at = "stop"
    /\ Go(d, "start")
    /\ UNCHANGED <<srv, job, pm2, build, files>>

\* Variant: an app that is online is left alone.
Pm2StartIfDown(d) ==
    /\ dep[d].at = "start"
    /\ \/ /\ pm2' = IF pm2.is \in {"stopped", "errored"}
                   THEN [pm2 EXCEPT !.is = "waiting"] ELSE pm2
          /\ Go(d, "health")
       \/ Fail(d) /\ UNCHANGED pm2
    /\ UNCHANGED <<srv, job, build, files>>

(* pm2 start starts the app of the ecosystem file, or restarts it. It may  *)
(* fail; "sleep 2" may end before there is a new process.                  *)
Pm2Start(d) ==
    /\ dep[d].at = "start"
    /\ \/ /\ pm2.is \in {"stopped", "errored", "waiting"}
          /\ pm2' = [pm2 EXCEPT !.is = "waiting"]
          /\ Go(d, "health") /\ UNCHANGED servingVars
       \/ /\ pm2.is = "online"
          /\ Ask("waiting") /\ Go(d, "health")
       \/ /\ pm2.is = "stopping"
          /\ pm2' = [pm2 EXCEPT !.then = "waiting"]
          /\ Go(d, "health") /\ UNCHANGED servingVars
       \/ Fail(d) /\ UNCHANGED <<srv, job, pm2>>
    /\ UNCHANGED <<build, files>>

(* curl /health: any process that serves answers it. Nothing is undone     *)
(* after its failure; the steps after it are best effort and do not        *)
(* concern the server.                                                     *)
Health(d) ==
    /\ dep[d].at = "health"
    /\ \/ srv.at = "serving" /\ Go(d, "ok")
       \/ Fail(d)
    /\ UNCHANGED <<server, backups, bin, staged>>

Deploy(d) ==
    \/ Upload(d) \/ Verify(d) \/ Backup(d) \/ InstallOpen(d) \/ InstallCopy(d)
    \/ RemoveStaged(d) \/ Pm2Stop(d) \/ Pm2Start(d) \/ Health(d)

----------------------------------------------------------------------------
\* The server's own steps. It is only told to stop by pm2.
Runs ==
    /\ OpenFails \/ ListenerFails \/ Drained \/ Progress \/ \E h \in Handlers : Handle(h)
    /\ UNCHANGED hostVars

\* A panic, or the kernel is out of memory.
Crash == pm2.is = "online" /\ Kill /\ UNCHANGED hostVars

Pm2Next == Spawn \/ NoticeExit \/ MemoryRestart \/ KillTimeout \/ NoticeStop

Next == Runs \/ Crash \/ Pm2Next \/ \E d \in Deployments : Begin(d) \/ Deploy(d) \/ Pm2StopFails(d)

(* The runtime schedules main and its timers fire; each step of a           *)
(* deployment is a command that ends, though pm2 stop ends only when the    *)
(* app has; pm2 sees that its app has ended. KillTimeout has no fairness:  *)
(* the server's own timer is enough.                                       *)
Fairness ==
    /\ WF_vars(Progress /\ UNCHANGED hostVars)
    /\ WF_vars(Spawn) /\ WF_vars(NoticeExit) /\ WF_vars(NoticeStop)
    /\ \A d \in Deployments : WF_vars(Deploy(d))

Spec == Init /\ [][Next]_vars /\ Fairness

----------------------------------------------------------------------------
(* Properties                                                              *)

(* From install on, the installed file is the one whose sha256 was right:   *)
(* nothing changes it between the check and the copy (ci-deploy.sh:79-91), *)
(* unless two deployments overlap.                                         *)
InstalledAsVerified ==
    last.alone /\ last.dep # None =>
        (dep[last.dep].at \in {"remove", "stop", "start", "health", "ok"} => bin = last.dep)

(* A deployment that reports success, and that no other one overlapped, was *)
(* answered by a process that runs its build (ci-deploy.sh:96-125): not by *)
(* the old one, which "pm2 stop || true" may have left alive.              *)
DeployedIsServed ==
    [][\A d \in Deployments :
          dep[d].at # "ok" /\ dep'[d].at = "ok" /\ last.dep = d /\ last.alone
             => build = d]_vars

(* Whatever fails, what a deployment has replaced is still there: as the   *)
(* installed file or as a backup (ci-deploy.sh:90-91). This holds of the *)
(* last one, if no other one overlapped it.                                *)
CanGoBack == last.alone => last.bin \in {bin} \cup backups

(* A deployment ends, even if a handler of the old process hangs: pm2 stop *)
(* waits for the process, and the process waits no longer than its timeout.*)
DeploymentsEnd == \A d \in Deployments : Active(d) ~> ~Active(d)

=============================================================================
