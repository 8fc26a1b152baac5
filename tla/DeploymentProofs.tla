-------------------------- MODULE DeploymentProofs --------------------------
(***************************************************************************)
(* Deployment's safety properties, for all lengths of the timers and all   *)
(* bounds.  upgrade.sh may die at every step and be run again, and the     *)
(* worker may crash and be restarted meanwhile: what makes this safe is    *)
(* that each step of the script finds the services that it works under     *)
(* stopped, and the files that it starts them from whole (InStep).         *)
(***************************************************************************)
EXTENDS Deployment, TLAPS

Stopped == {"backup", "copy", "copied", "pip", "migrate", "configure", "start_web", "died"}
Copied == {"pip", "migrate", "configure", "start_web", "start_worker",
           "sleep", "complete", "warning"}
Configured == Copied \ {"pip", "migrate"}

(* What the position of the script says of the services and the files.     *)
InStep ==
    /\ script \in Stopped \cup {"start_worker"} => worker = "off"
    /\ script \in Stopped \cup {"stop_worker"} => web = "off"
    /\ script \in Copied => disk = "new"
    /\ script \in Configured => schema = "new"
    /\ script \in {"sleep", "complete", "warning"} => worker # "off"
    /\ script = "complete" => web \in {"idle", "busy"}
    /\ worker = "stopping" => script = "stop_worker"

(* What the services' states say of the code that they have loaded.        *)
Loaded ==
    /\ web = "off" => runs["web"] = "none"
    /\ web \in {"idle", "busy"} => runs["web"] # "none"
    /\ worker \in {"off", "dead"} => runs["worker"] = "none"
    /\ \A s \in {"web", "worker"} :
        runs[s] # "none" => runs[s] = disk /\ (runs[s] = "new" => schema = "new")
    /\ disk = "mixed" => web = "off" /\ worker = "off"

(* The heartbeat is at least as old as the worker's absence.               *)
Absence ==
    /\ worker \in {"idle", "tick", "stopping"} => gone = 0
    /\ heartbeat # Never => heartbeat >= gone

IInv == TypeOK /\ InStep /\ Loaded /\ Absence
----------------------------------------------------------------------------
(* The constants, one by one.                                              *)
LEMMA Timers ==
    /\ Interval \in Nat \ {0} /\ Stale \in Nat \ {0} /\ CallTime \in Nat \ {0}
    /\ RestartSec \in Nat \ {0} /\ StopTime \in Nat \ {0} /\ SleepTime \in Nat \ {0}
    /\ MaxCalls \in Nat /\ MaxLong \in Nat /\ MaxCrashes \in Nat /\ MaxUpgrades \in Nat
    /\ Never \notin 0..Stale
  BY DeploymentAssumption

(* The invariant holds at first.                                           *)
LEMMA InitIInv == Init => IInv
  <1> USE Timers DEF Init, Code, Steps, Stopped, Copied, Configured
  <1>1. Init => TypeOK
    <2>1. Init => wal \in BOOLEAN
      OBVIOUS
    <2>2. Init => runs \in [{"web", "worker"} -> Code \cup {"none"}]
      OBVIOUS
    <2>3. Init => bounds \in [long: 0..MaxLong, crashes: 0..MaxCrashes, upgrades: 0..MaxUpgrades]
      OBVIOUS
    <2> QED BY <2>1, <2>2, <2>3 DEF TypeOK
  <1>2. Init => InStep /\ Loaded
    BY DEF InStep, Loaded
  <1>3. Init => Absence
    BY DEF Absence
  <1> QED BY <1>1, <1>2, <1>3 DEF IInv

(* Every step keeps the invariant.                                         *)
LEMMA NextIInv == IInv /\ [Next]_vars => IInv'
  <1> SUFFICES ASSUME IInv, [Next]_vars PROVE IInv'
    OBVIOUS
  <1> USE Timers DEF IInv, TypeOK, Code, Steps, Stopped, Copied, Configured
  <1>1. CASE Elapse
    <2>1. TypeOK'
      BY <1>1 DEF Elapse, Due, Aged, Left, Alive
    <2>2. InStep'
      BY <1>1 DEF InStep, Loaded, Elapse, Due, Aged, Left, Alive
    <2>3. Loaded'
      BY <1>1 DEF Loaded, InStep, Elapse, Due, Aged, Left, Alive
    <2>4. Absence'
      BY <1>1 DEF Absence, Elapse, Aged, Alive
    <2> QED BY <2>1, <2>2, <2>3, <2>4
  <1>2. CASE BeginTick
    <2>1. TypeOK'
      <3>1. wal' \in BOOLEAN
        BY <1>2 DEF BeginTick
      <3>2. heartbeat' \in 0..Stale \cup {Never}
        BY <1>2 DEF BeginTick
      <3> QED BY <1>2, <3>1, <3>2 DEF BeginTick, scriptVars
    <2>2. InStep'
      BY <1>2 DEF InStep, Loaded, BeginTick, scriptVars
    <2>3. Loaded'
      BY <1>2 DEF Loaded, InStep, BeginTick, scriptVars
    <2>4. Absence'
      BY <1>2 DEF Absence, BeginTick, scriptVars
    <2> QED BY <2>1, <2>2, <2>3, <2>4
  <1>3. CASE EndTick
    <2>1. TypeOK'
      BY <1>3 DEF EndTick, InTick, CloseLast, scriptVars
    <2>2. InStep'
      BY <1>3 DEF InStep, Loaded, EndTick, InTick, CloseLast, scriptVars
    <2>3. Loaded'
      BY <1>3 DEF Loaded, InStep, EndTick, InTick, CloseLast, scriptVars
    <2>4. Absence'
      BY <1>3 DEF Absence, EndTick, InTick, CloseLast, scriptVars
    <2> QED BY <2>1, <2>2, <2>3, <2>4
  <1>4. CASE Killed
    <2>1. TypeOK'
      BY <1>4 DEF Killed, scriptVars
    <2>2. InStep'
      BY <1>4 DEF InStep, Loaded, Killed, scriptVars
    <2>3. Loaded'
      BY <1>4 DEF Loaded, InStep, Killed, scriptVars
    <2>4. Absence'
      BY <1>4 DEF Absence, Killed, scriptVars
    <2> QED BY <2>1, <2>2, <2>3, <2>4
  <1>5. CASE Restart
    <2>1. TypeOK'
      BY <1>5 DEF Restart, StartWorkerProcess, Migrated, CloseLast, scriptVars
    <2>2. InStep'
      BY <1>5 DEF InStep, Loaded, Restart, StartWorkerProcess, Migrated, CloseLast, scriptVars
    <2>3. Loaded'
      BY <1>5 DEF Loaded, InStep, Restart, StartWorkerProcess, Migrated, CloseLast, scriptVars
    <2>4. Absence'
      BY <1>5 DEF Absence, Restart, StartWorkerProcess, Migrated, CloseLast, scriptVars
    <2> QED BY <2>1, <2>2, <2>3, <2>4
  <1>6. CASE \E t \in 1..CallTime : SlowCall(t)
    <2>1. TypeOK'
      BY <1>6 DEF SlowCall, InTick, scriptVars
    <2>2. InStep'
      BY <1>6 DEF InStep, Loaded, SlowCall, InTick, scriptVars
    <2>3. Loaded'
      BY <1>6 DEF Loaded, InStep, SlowCall, InTick, scriptVars
    <2>4. Absence'
      BY <1>6 DEF Absence, SlowCall, InTick, scriptVars
    <2> QED BY <2>1, <2>2, <2>3, <2>4
  <1>7. CASE Crash
    <2>1. TypeOK'
      BY <1>7 DEF Crash, scriptVars
    <2>2. InStep'
      BY <1>7 DEF InStep, Loaded, Crash, scriptVars
    <2>3. Loaded'
      BY <1>7 DEF Loaded, InStep, Crash, scriptVars
    <2>4. Absence'
      BY <1>7 DEF Absence, Crash, scriptVars
    <2> QED BY <2>1, <2>2, <2>3, <2>4
  <1>8. CASE EndLong
    <2>1. TypeOK'
      BY <1>8 DEF EndLong, InTick, workerVars, scriptVars
    <2>2. InStep'
      BY <1>8 DEF InStep, Loaded, EndLong, InTick, workerVars, scriptVars
    <2>3. Loaded'
      BY <1>8 DEF Loaded, InStep, EndLong, InTick, workerVars, scriptVars
    <2>4. Absence'
      BY <1>8 DEF Absence, EndLong, InTick, workerVars, scriptVars
    <2> QED BY <2>1, <2>2, <2>3, <2>4
  <1>9. CASE WebReady
    <2>1. TypeOK'
      BY <1>9 DEF WebReady, Migrated, CloseLast, InTick, workerVars, scriptVars
    <2>2. InStep'
      BY <1>9 DEF InStep, Loaded, WebReady, Migrated, CloseLast, InTick, workerVars, scriptVars
    <2>3. Loaded'
      BY <1>9 DEF Loaded, InStep, WebReady, Migrated, CloseLast, InTick, workerVars, scriptVars
    <2>4. Absence'
      BY <1>9 DEF Absence, WebReady, Migrated, CloseLast, InTick, workerVars, scriptVars
    <2> QED BY <2>1, <2>2, <2>3, <2>4
  <1>10. CASE BeginLong
    <2>1. TypeOK'
      BY <1>10 DEF BeginLong, workerVars, scriptVars
    <2>2. InStep'
      BY <1>10 DEF InStep, Loaded, BeginLong, workerVars, scriptVars
    <2>3. Loaded'
      BY <1>10 DEF Loaded, InStep, BeginLong, workerVars, scriptVars
    <2>4. Absence'
      BY <1>10 DEF Absence, BeginLong, workerVars, scriptVars
    <2> QED BY <2>1, <2>2, <2>3, <2>4
  <1>11. CASE StopWeb
    <2>1. TypeOK'
      BY <1>11 DEF StopWeb, Then, workerVars
    <2>2. InStep'
      BY <1>11 DEF InStep, Loaded, StopWeb, Then, workerVars
    <2>3. Loaded'
      BY <1>11 DEF Loaded, InStep, StopWeb, Then, workerVars
    <2>4. Absence'
      BY <1>11 DEF Absence, StopWeb, Then, workerVars
    <2> QED BY <2>1, <2>2, <2>3, <2>4
  <1>12. CASE StopWorker
    <2>1. TypeOK'
      BY <1>12 DEF StopWorker
    <2>2. InStep'
      BY <1>12 DEF InStep, Loaded, StopWorker
    <2>3. Loaded'
      BY <1>12 DEF Loaded, InStep, StopWorker
    <2>4. Absence'
      BY <1>12 DEF Absence, StopWorker
    <2> QED BY <2>1, <2>2, <2>3, <2>4
  <1>13. CASE Backup
    <2>1. TypeOK'
      BY <1>13 DEF Backup, Then, workerVars
    <2>2. InStep'
      BY <1>13 DEF InStep, Loaded, Backup, Then, workerVars
    <2>3. Loaded'
      BY <1>13 DEF Loaded, InStep, Backup, Then, workerVars
    <2>4. Absence'
      BY <1>13 DEF Absence, Backup, Then, workerVars
    <2> QED BY <2>1, <2>2, <2>3, <2>4
  <1>14. CASE Copy
    <2>1. TypeOK'
      BY <1>14 DEF Copy, Then, workerVars
    <2>2. InStep'
      BY <1>14 DEF InStep, Loaded, Copy, Then, workerVars
    <2>3. Loaded'
      BY <1>14 DEF Loaded, InStep, Copy, Then, workerVars
    <2>4. Absence'
      BY <1>14 DEF Absence, Copy, Then, workerVars
    <2> QED BY <2>1, <2>2, <2>3, <2>4
  <1>15. CASE Install
    <2>1. TypeOK'
      BY <1>15 DEF Install, Then, workerVars
    <2>2. InStep'
      BY <1>15 DEF InStep, Loaded, Install, Then, workerVars
    <2>3. Loaded'
      BY <1>15 DEF Loaded, InStep, Install, Then, workerVars
    <2>4. Absence'
      BY <1>15 DEF Absence, Install, Then, workerVars
    <2> QED BY <2>1, <2>2, <2>3, <2>4
  <1>16. CASE Migrate
    <2>1. TypeOK'
      BY <1>16 DEF Migrate, Then, Migrated, CloseLast, workerVars
    <2>2. InStep'
      BY <1>16 DEF InStep, Loaded, Migrate, Then, Migrated, CloseLast, workerVars
    <2>3. Loaded'
      BY <1>16 DEF Loaded, InStep, Migrate, Then, Migrated, CloseLast, workerVars
    <2>4. Absence'
      BY <1>16 DEF Absence, Migrate, Then, Migrated, CloseLast, workerVars
    <2> QED BY <2>1, <2>2, <2>3, <2>4
  <1>17. CASE StartWeb
    <2>1. TypeOK'
      BY <1>17 DEF StartWeb, Then, workerVars
    <2>2. InStep'
      BY <1>17 DEF InStep, Loaded, StartWeb, Then, workerVars
    <2>3. Loaded'
      BY <1>17 DEF Loaded, InStep, StartWeb, Then, workerVars
    <2>4. Absence'
      BY <1>17 DEF Absence, StartWeb, Then, workerVars
    <2> QED BY <2>1, <2>2, <2>3, <2>4
  <1>18. CASE StartWorker
    <2>1. TypeOK'
      BY <1>18 DEF StartWorker, Then, StartWorkerProcess, Migrated, CloseLast
    <2>2. InStep'
      BY <1>18 DEF InStep, Loaded, StartWorker, Then, StartWorkerProcess, Migrated, CloseLast
    <2>3. Loaded'
      BY <1>18 DEF Loaded, InStep, StartWorker, Then, StartWorkerProcess, Migrated, CloseLast
    <2>4. Absence'
      BY <1>18 DEF Absence, StartWorker, Then, StartWorkerProcess, Migrated, CloseLast
    <2> QED BY <2>1, <2>2, <2>3, <2>4
  <1>19. CASE \E readable \in BOOLEAN : Check(readable)
    <2>1. TypeOK'
      BY <1>19 DEF Check, GrepFindsOk, Answering, workerVars
    <2>2. InStep'
      BY <1>19 DEF InStep, Loaded, Check, GrepFindsOk, Answering, workerVars
    <2>3. Loaded'
      BY <1>19 DEF Loaded, InStep, Check, GrepFindsOk, Answering, workerVars
    <2>4. Absence'
      BY <1>19 DEF Absence, Check, GrepFindsOk, Answering, workerVars
    <2> QED BY <2>1, <2>2, <2>3, <2>4
  <1>20. CASE Fail
    <2>1. TypeOK'
      BY <1>20 DEF Fail, workerVars
    <2>2. InStep'
      BY <1>20 DEF InStep, Loaded, Fail, workerVars
    <2>3. Loaded'
      BY <1>20 DEF Loaded, InStep, Fail, workerVars
    <2>4. Absence'
      BY <1>20 DEF Absence, Fail, workerVars
    <2> QED BY <2>1, <2>2, <2>3, <2>4
  <1>21. CASE Upgrade
    <2>1. TypeOK'
      BY <1>21 DEF Upgrade, workerVars
    <2>2. InStep'
      BY <1>21 DEF InStep, Loaded, Upgrade, workerVars
    <2>3. Loaded'
      BY <1>21 DEF Loaded, InStep, Upgrade, workerVars
    <2>4. Absence'
      BY <1>21 DEF Absence, Upgrade, workerVars
    <2> QED BY <2>1, <2>2, <2>3, <2>4
  <1>22. CASE UNCHANGED vars
    <2>1. TypeOK'
      BY <1>22 DEF vars, workerVars, scriptVars
    <2>2. InStep'
      BY <1>22 DEF InStep, Loaded, vars, workerVars, scriptVars
    <2>3. Loaded'
      BY <1>22 DEF Loaded, InStep, vars, workerVars, scriptVars
    <2>4. Absence'
      BY <1>22 DEF Absence, vars, workerVars, scriptVars
    <2> QED BY <2>1, <2>2, <2>3, <2>4
  <1> QED
    BY <1>1, <1>2, <1>3, <1>4, <1>5, <1>6, <1>7, <1>8, <1>9, <1>10, <1>11, <1>12, <1>13, <1>14, <1>15, <1>16, <1>17, <1>18, <1>19, <1>20, <1>21, <1>22
    DEF Next, WorkerStep, WebStep, ScriptStep
----------------------------------------------------------------------------
(* The invariant is one of the specification.                              *)
THEOREM Inductive == Spec => []IInv
  BY InitIInv, NextIInv, PTL DEF Spec

(* All variables keep their types.                                         *)
THEOREM TypeCorrect == Spec => []TypeOK
  <1>1. IInv => TypeOK
    BY DEF IInv
  <1> QED BY <1>1, Inductive, PTL

(* Whenever upgrade.sh stops, is run again, or works on while the worker   *)
(* crashes: no service has loaded a half copied tree, or new code without  *)
(* the new schema, or other code than the other service.                   *)
THEOREM WholeVersions == Spec => []OneWholeVersion
  <1>1. IInv => OneWholeVersion
    BY DEF IInv, Loaded, OneWholeVersion, TypeOK
  <1> QED BY <1>1, Inductive, PTL

(* A worker process that has been gone for HEARTBEAT_STALE_SECONDS is not  *)
(* taken for healthy by /api/health: whatever the lengths of its tick, of  *)
(* the restart and of the calls to Pexip.                                  *)
THEOREM DeathNoticed == Spec => []DeadIsNoticed
  <1>1. HealthOk => heartbeat # Never /\ heartbeat < Stale
    BY Zenon DEF HealthOk, Health
  <1>2. IInv /\ gone = Stale => ~(heartbeat # Never /\ heartbeat < Stale)
    BY Timers DEF IInv, TypeOK, Absence
  <1>3. IInv => DeadIsNoticed
    BY <1>1, <1>2 DEF DeadIsNoticed
  <1> QED BY <1>3, Inductive, PTL

(* "Upgrade complete" means that the new code serves, on the new schema.   *)
THEOREM CompleteIsNew == Spec => []CompleteMeansNew
  <1>1. IInv => CompleteMeansNew
    BY DEF IInv, InStep, Loaded, CompleteMeansNew, Copied, Configured
  <1> QED BY <1>1, Inductive, PTL
=============================================================================
