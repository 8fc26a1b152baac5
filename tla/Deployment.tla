----------------------------- MODULE Deployment -----------------------------
(***************************************************************************)
(* The two services as systemd runs them, the heartbeat by which the web   *)
(* process knows of the worker (scheduler_tick, app/routes/health.py), and *)
(* deploy/upgrade.sh, which stops both, replaces the code and starts them  *)
(* again, and which asks /api/health whether that went well.               *)
(*                                                                         *)
(* Times are in units of five seconds and are kept as what is left of      *)
(* them, or, for the heartbeat, as its age, so that the states are finite  *)
(* without a bound on the clock.  Every wait in the code is a timer here.  *)
(*                                                                         *)
(* The database is a main file and a WAL.  A commit goes to the WAL, and   *)
(* whoever closes the last connection moves it to the main file.  A        *)
(* connection is open for as long as a tick or a long request lasts;       *)
(* shorter ones open and close within a step.                              *)
(***************************************************************************)
EXTENDS Integers

CONSTANTS
    Interval,       \* seconds of the job scheduler_tick
    Stale,          \* HEARTBEAT_STALE_SECONDS
    CallTime,       \* the longest call to Pexip
    RestartSec,     \* of the worker's unit
    StopTime,       \* systemd's wait before it kills a service
    SleepTime,      \* upgrade.sh: sleep before the health check
    Never,          \* no row in scheduler_heartbeat
    MaxCalls,       \* BOUND: slow calls in a tick
    MaxLong,        \* BOUND: web requests that hold the write lock for long
    MaxCrashes,     \* BOUND: deaths of the worker
    MaxUpgrades     \* BOUND: runs of upgrade.sh

ASSUME DeploymentAssumption ==
    /\ {Interval, Stale, CallTime, RestartSec, StopTime, SleepTime} \subseteq Nat \ {0}
    /\ {MaxCalls, MaxLong, MaxCrashes, MaxUpgrades} \subseteq Nat
    /\ Never \notin 0..Stale

VARIABLES
    heartbeat,      \* age of the row's last_seen
    worker,         \* the worker's process
    next,           \* its timers: until the next run of the job,
    wait,           \* until the current call is back, or until the restart
    calls,          \* slow calls in this tick
    grace,          \* until systemd kills it
    gone,           \* how long there has been no worker process
    web,            \* the web processes
    runs,           \* version of the code each service has loaded
    disk,           \* version of the code under APP_DIR
    schema,         \* version of the database's schema
    wal,            \* a commit is in the WAL only
    backup,         \* what the last backup holds
    script,         \* next step of upgrade.sh, or how it ended
    sleeping,       \* until its health check
    bounds          \* long requests, deaths and upgrades so far

workerVars == <<worker, next, wait, calls, grace, gone>>
scriptVars == <<disk, backup, script, sleeping>>
vars == <<heartbeat, workerVars, web, runs, schema, wal, scriptVars, bounds>>
----------------------------------------------------------------------------
Code == {"old", "mixed", "new"}
Steps == {"stop_web", "stop_worker", "backup", "copy", "copied", "pip", "migrate",
          "configure", "start_web", "start_worker", "sleep", "check"}
TypeOK ==
    /\ heartbeat \in 0..Stale \cup {Never}
    /\ worker \in {"off", "dead", "idle", "tick", "stopping"}
    /\ next \in 0..Interval /\ wait \in 0..(CallTime + RestartSec)
    /\ calls \in 0..MaxCalls /\ grace \in 0..StopTime /\ gone \in 0..Stale
    /\ web \in {"off", "boot", "idle", "busy"}
    /\ runs \in [{"web", "worker"} -> Code \cup {"none"}]
    /\ disk \in Code /\ schema \in {"old", "new"}
    /\ wal \in BOOLEAN
    /\ backup \in {"none", "complete", "short"}
    /\ script \in Steps \cup {"none", "complete", "warning", "died"}
    /\ sleeping \in 0..SleepTime
    /\ bounds \in [long: 0..MaxLong, crashes: 0..MaxCrashes, upgrades: 0..MaxUpgrades]

(* A first start, without a heartbeat row, with the old code.              *)
Init ==
    /\ heartbeat = Never
    /\ worker = "idle" /\ next = Interval
    /\ wait = 0 /\ calls = 0 /\ grace = 0 /\ gone = 0
    /\ web = "idle"
    /\ runs = [s \in {"web", "worker"} |-> "old"]
    /\ disk = "old" /\ schema = "old"
    /\ wal = FALSE
    /\ backup = "none" /\ script = "none" /\ sleeping = 0
    /\ bounds = [long |-> 0, crashes |-> 0, upgrades |-> 0]
----------------------------------------------------------------------------
(* GET /api/health: 200 if ok holds, 500 if not.                           *)
HealthYears(readable) ==            \* mutant of Health
    LET seen == readable /\ heartbeat # Never
    IN  [database |-> readable, scheduler_worker |-> seen, ok |-> readable /\ seen]
Health(readable) ==
    LET seen == readable /\ heartbeat # Never /\ heartbeat < Stale
    IN  [database |-> readable, scheduler_worker |-> seen, ok |-> readable /\ seen]
Answering == web \in {"idle", "busy"}
HealthOk == Answering /\ Health(TRUE).ok

Alive == worker \in {"idle", "tick", "stopping"}
InTick == worker \in {"tick", "stopping"}

(* A commit, and a close, while `others' says whether anybody else is      *)
(* connected.                                                              *)
CloseLast(others) == wal' = (wal /\ others)

AgedBeyond(age, limit) == IF age <= limit THEN age + 1 ELSE limit     \* mutant of Aged
Aged(age, limit) == IF age < limit THEN age + 1 ELSE limit
Left(t) == IF t > 0 THEN t - 1 ELSE 0

(* Five seconds pass.  What is due happens first.                          *)
Due ==
    \/ worker = "idle" /\ next = 0
    \/ worker \in {"dead", "tick", "stopping"} /\ wait = 0
    \/ worker = "stopping" /\ grace = 0
    \/ script = "sleep" /\ sleeping = 0
Elapse ==
    /\ ~Due
    /\ heartbeat' = IF heartbeat = Never THEN Never ELSE Aged(heartbeat, Stale)
    /\ next' = IF worker = "tick" /\ next = 1 THEN Interval ELSE Left(next)
    /\ wait' = Left(wait)
    /\ grace' = Left(grace)
    /\ gone' = IF Alive THEN 0 ELSE Aged(gone, Stale)
    /\ sleeping' = Left(sleeping)
    /\ UNCHANGED <<worker, calls, web, runs, schema, wal, disk, backup, script, bounds>>
----------------------------------------------------------------------------
(* The worker.  A tick first writes the heartbeat; the error is swallowed  *)
(* if the database stays locked.  The job does not run twice at once: a    *)
(* run that is due during a long tick is skipped (Elapse).                 *)
BeginTickSilent ==                  \* mutant of BeginTick
    /\ worker = "idle" /\ next = 0
    /\ worker' = "tick" /\ next' = Interval
    /\ wal' = TRUE
    /\ UNCHANGED <<heartbeat, wait, calls, grace, gone, web, runs, schema, scriptVars, bounds>>
BeginTick ==
    /\ worker = "idle" /\ next = 0
    /\ worker' = "tick" /\ next' = Interval
    /\ IF web = "busy" THEN UNCHANGED <<heartbeat, wal>>
       ELSE heartbeat' = 0 /\ wal' = TRUE
    /\ UNCHANGED <<wait, calls, grace, gone, web, runs, schema, scriptVars, bounds>>

(* The jobs of the tick wait for Pexip, and commit what came of it.        *)
SlowCall(t) ==
    /\ InTick /\ wait = 0
    /\ calls < MaxCalls
    /\ calls' = calls + 1 /\ wait' = t
    /\ wal' = (wal \/ web # "busy")
    /\ UNCHANGED <<heartbeat, worker, next, grace, gone, web, runs, schema, scriptVars, bounds>>

EndTick ==
    /\ InTick /\ wait = 0
    /\ worker' = IF worker = "tick" THEN "idle" ELSE "off"
    /\ runs' = IF worker = "tick" THEN runs ELSE [runs EXCEPT !["worker"] = "none"]
    /\ calls' = 0 /\ grace' = 0
    /\ CloseLast(web = "busy")
    /\ UNCHANGED <<heartbeat, next, wait, gone, web, schema, scriptVars, bounds>>

(* The process dies; systemd starts it again.  Nobody closes what it had   *)
(* open.                                                                   *)
Crash ==
    /\ worker \in {"idle", "tick"}
    /\ bounds.crashes < MaxCrashes
    /\ bounds' = [bounds EXCEPT !.crashes = @ + 1]
    /\ worker' = "dead" /\ wait' = RestartSec /\ next' = 0 /\ calls' = 0
    /\ runs' = [runs EXCEPT !["worker"] = "none"]
    /\ UNCHANGED <<heartbeat, grace, gone, web, schema, wal, scriptVars>>

(* main: load the code, init_db, then the first tick after an interval.    *)
Migrated == IF disk = "new" THEN "new" ELSE schema
StartWorkerProcess ==
    /\ worker' = "idle" /\ next' = Interval
    /\ wait' = 0 /\ gone' = 0
    /\ runs' = [runs EXCEPT !["worker"] = disk]
    /\ schema' = Migrated
    /\ CloseLast(web = "busy")
    /\ UNCHANGED <<heartbeat, calls, grace, web, bounds>>

Restart ==
    /\ worker = "dead" /\ wait = 0
    /\ StartWorkerProcess
    /\ UNCHANGED scriptVars
----------------------------------------------------------------------------
(* The web service.  A request that mails in its transaction holds the     *)
(* write lock for longer than busy_timeout.                                *)
BeginLong ==
    /\ web = "idle"
    /\ bounds.long < MaxLong
    /\ bounds' = [bounds EXCEPT !.long = @ + 1]
    /\ web' = "busy"
    /\ UNCHANGED <<heartbeat, workerVars, runs, schema, wal, scriptVars>>

EndLong ==
    /\ web = "busy"
    /\ web' = "idle"
    /\ wal' = InTick
    /\ UNCHANGED <<heartbeat, workerVars, runs, schema, scriptVars, bounds>>

(* create_app, which calls init_db.                                        *)
WebReady ==
    /\ web = "boot"
    /\ web' = "idle"
    /\ runs' = [runs EXCEPT !["web"] = disk]
    /\ schema' = Migrated
    /\ CloseLast(InTick)
    /\ UNCHANGED <<heartbeat, workerVars, scriptVars, bounds>>
----------------------------------------------------------------------------
(* deploy/upgrade.sh                                                       *)
Then(from, to) == script = from /\ script' = to

Upgrade ==
    /\ script \notin Steps
    /\ bounds.upgrades < MaxUpgrades
    /\ bounds' = [bounds EXCEPT !.upgrades = @ + 1]
    /\ script' = "stop_web"
    /\ UNCHANGED <<heartbeat, workerVars, web, runs, schema, wal, disk, backup, sleeping>>

(* systemctl stop: a request that does not end in time is killed and its   *)
(* transaction rolled back.                                                *)
StopWeb ==
    /\ Then("stop_web", "stop_worker")
    /\ web' = "off"
    /\ runs' = [runs EXCEPT !["web"] = "none"]
    /\ UNCHANGED <<heartbeat, workerVars, schema, wal, disk, backup, sleeping, bounds>>

(* SIGTERM: an idle worker, or one that waits to be restarted, is gone at  *)
(* once, scheduler.shutdown(wait=True) lets a tick end first.              *)
StopWorkerNot ==                    \* mutant of StopWorker
    /\ Then("stop_worker", "backup")
    /\ UNCHANGED <<heartbeat, workerVars, web, runs, schema, wal, disk, backup, sleeping, bounds>>
StopWorker ==
    /\ script = "stop_worker"
    /\ IF worker = "tick"
       THEN /\ worker' = "stopping" /\ grace' = StopTime
            /\ UNCHANGED <<runs, wait, script>>
       ELSE /\ worker # "stopping"
            /\ worker' = "off" /\ grace' = 0 /\ wait' = 0 /\ script' = "backup"
            /\ runs' = [runs EXCEPT !["worker"] = "none"]
    /\ UNCHANGED <<heartbeat, next, calls, gone, web, schema, wal, disk, backup, sleeping, bounds>>

(* The tick took longer than systemd waits.                                *)
Killed ==
    /\ worker = "stopping" /\ grace = 0
    /\ worker' = "off" /\ wait' = 0 /\ calls' = 0
    /\ runs' = [runs EXCEPT !["worker"] = "none"]
    /\ UNCHANGED <<heartbeat, next, grace, gone, web, schema, wal, scriptVars, bounds>>

(* cp of the main file.                                                    *)
Backup ==
    /\ Then("backup", "copy")
    /\ backup' = IF wal THEN "short" ELSE "complete"
    /\ UNCHANGED <<heartbeat, workerVars, web, runs, schema, wal, disk, sleeping, bounds>>

(* rsync, then chown and chmod.                                            *)
Copy ==
    /\ \/ Then("copy", "copied") /\ disk' = "mixed"
       \/ Then("copied", "pip") /\ disk' = "new"
    /\ UNCHANGED <<heartbeat, workerVars, web, runs, schema, wal, backup, sleeping, bounds>>

(* pip install, later the unit files, Apache's and the env file.           *)
Install ==
    /\ Then("pip", "migrate") \/ Then("configure", "start_web")
    /\ UNCHANGED <<heartbeat, workerVars, web, runs, schema, wal, disk, backup, sleeping, bounds>>

Migrate ==
    /\ Then("migrate", "configure")
    /\ schema' = Migrated
    /\ CloseLast(FALSE)
    /\ UNCHANGED <<heartbeat, workerVars, web, runs, disk, backup, sleeping, bounds>>

StartWeb ==
    /\ Then("start_web", "start_worker")
    /\ web' = "boot"
    /\ UNCHANGED <<heartbeat, workerVars, runs, schema, wal, disk, backup, sleeping, bounds>>

StartWorker ==
    /\ Then("start_worker", "sleep")
    /\ sleeping' = SleepTime
    /\ StartWorkerProcess
    /\ UNCHANGED <<disk, backup>>

(* curl, and grep for "ok": true anywhere in the answer.                   *)
GrepFindsOk(readable) ==
    Answering /\ \E part \in {"database", "scheduler_worker", "ok"} : Health(readable)[part]
CheckAnswered(readable) ==          \* mutant of Check
    /\ script = "sleep" /\ sleeping = 0
    /\ script' = "complete"
    /\ UNCHANGED <<heartbeat, workerVars, web, runs, schema, wal, disk, backup, sleeping, bounds>>
Check(readable) ==
    /\ script = "sleep" /\ sleeping = 0
    /\ script' = IF GrepFindsOk(readable) THEN "complete" ELSE "warning"
    /\ UNCHANGED <<heartbeat, workerVars, web, runs, schema, wal, disk, backup, sleeping, bounds>>

(* set -e, or die: a command fails and the script ends where it is.        *)
Fail ==
    /\ script \in {"backup", "copy", "copied", "pip", "migrate", "configure"}
    /\ script' = "died"
    /\ UNCHANGED <<heartbeat, workerVars, web, runs, schema, wal, disk, backup, sleeping, bounds>>
----------------------------------------------------------------------------
WorkerStep ==
    \/ BeginTick \/ EndTick \/ Killed \/ Restart
    \/ \E t \in 1..CallTime : SlowCall(t)
WebStep == EndLong \/ WebReady
ScriptStep ==
    \/ StopWeb \/ StopWorker \/ Backup \/ Copy \/ Install \/ Migrate
    \/ StartWeb \/ StartWorker
    \/ \E readable \in BOOLEAN : Check(readable)
    \/ Fail

Next == Elapse \/ WorkerStep \/ Crash \/ WebStep \/ BeginLong \/ ScriptStep \/ Upgrade

Spec == Init /\ [][Next]_vars

(* Time passes, the processes are scheduled, requests and the script come  *)
(* to an end; nobody has to crash, to ask, or to upgrade.                  *)
FairSpec ==
    /\ Spec
    /\ WF_vars(Elapse) /\ WF_vars(WorkerStep) /\ WF_vars(WebStep) /\ WF_vars(ScriptStep)
----------------------------------------------------------------------------
(* Whatever crashes, and restarts by itself, while upgrade.sh works and    *)
(* wherever it stops: no service runs a half copied tree or new code on    *)
(* the old schema, and web and worker never run different versions.        *)
OneWholeVersion ==
    /\ \A s \in DOMAIN runs : runs[s] # "mixed" /\ (runs[s] = "new" => schema = "new")
    /\ "none" \notin {runs["web"], runs["worker"]} => runs["web"] = runs["worker"]

(* A worker that does not come back is noticed: once its process has been  *)
(* gone for HEARTBEAT_STALE_SECONDS, /api/health is not ok.                *)
DeadIsNoticed == gone = Stale => ~HealthOk

(* "Upgrade complete" is not said before the new code serves, on the new   *)
(* schema, with the worker's service on.                                   *)
CompleteMeansNew ==
    script = "complete" => runs["web"] = "new" /\ schema = "new" /\ worker # "off"

(* When faults and upgrades come to an end, /api/health comes back to ok,  *)
(* if only at the beginning of a tick, unless upgrade.sh died and left the *)
(* services stopped.                                                       *)
HealthRecovers == ~HealthOk ~> HealthOk \/ script = "died"

(* README.md: "Stale heartbeat: the worker crashed".                       *)
StaleMeansCrashed ==
    bounds.upgrades = 0 /\ Answering /\ heartbeat = Stale => bounds.crashes > 0

(* upgrade.sh warns if the "Health check did not return ok=true".          *)
CompleteMeansHealthy ==
    [][script = "sleep" /\ script' = "complete" => HealthOk]_vars

(* README.md: upgrade.sh "Backs up the database".                          *)
BackupIsWhole == backup # "short"
=============================================================================
