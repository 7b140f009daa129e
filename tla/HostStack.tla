------------------------------ MODULE HostStack ------------------------------
(***************************************************************************)
(* The same-host stack (ops/same_host_stack.py): bootstrap, recover and      *)
(* post-restore-check, which run the bundle's and the console's own commands  *)
(* one after another, start or restart the three units and then ask whether  *)
(* the stack is ready.  The activation record, the store and the units go     *)
(* their own ways meanwhile.                                                 *)
(*                                                                         *)
(* BundleActivation and ConsoleStore model the components' commands in        *)
(* detail; here each is one step with its outcomes.  One operator runs one    *)
(* stack command at a time.                                                  *)
(***************************************************************************)
EXTENDS Naturals

CONSTANTS
    Bundles,
    None,
    MaxCommands,  \* BOUND: stack commands
    MaxFaults     \* BOUND: edits of the host, damaged bundles, kills and dying units

ASSUME StackAssumption ==
    /\ MaxCommands \in Nat /\ MaxFaults \in Nat
    /\ None \notin Bundles

\* The operator database: no file; no tables; the schema script killed half-way;
\* all tables and no version; the current schema; and an administrator.
StoreStates == {"missing", "empty", "half", "legacy", "current", "ready"}
Tabled == {"legacy", "current", "ready"}

\* A unit that fails or dies is started again by systemd until it is stopped.
UnitStates == {"stopped", "failing", "up"}

VARIABLES
    host,      \* the host layout checks of the preflight hold
    config,    \* the operator's env file: "broken", "plain" or "telegram"
    valid,     \* bundles whose files meet the contract
    layout,    \* the directories of prepare_host_layout exist
    active,    \* the activation record
    store,     \* the operator database
    failed,    \* it holds failed deliveries
    visible,   \* its latest summary names a bundle
    console, worker, sensor,   \* the units
    scoring,   \* the bundle the sensor loaded when it started
    evidence,  \* the bundle that the last summary names, while it is fresh
    own,       \* whether the running sensor wrote that summary
    cmd,       \* the stack command under way, or "none"
    step,      \* its next step
    candidate, \* the bundle it is to bring up
    notify,    \* bootstrap's snapshot of the config enables notifications
    sound,     \* every result so far was ok
    seen,      \* bundle_visibility of the final status
    answer,    \* of the last command: "none", "ready", "degraded", "failed", "killed"
    commands, faults

hostVars == <<host, config, valid>>
storeVars == <<store, failed, visible>>
sensorVars == <<sensor, scoring, evidence, own>>
unitVars == <<console, worker, sensorVars>>
resultVars == <<notify, sound, seen>>
cmdVars == <<cmd, step, candidate, resultVars, answer, commands>>
vars == <<hostVars, layout, active, storeVars, unitVars, cmdVars, faults>>

-----------------------------------------------------------------------------
\* The ExecStartPre of the console and of the worker, and of the sensor.
ConsoleMayStart == config # "broken" /\ layout /\ store = "ready"

SensorMayStart == layout /\ active \in valid

\* connect_operator_db creates the file that it is to open.
Opened(s) == IF s = "missing" THEN "empty" ELSE s

\* _build_notification_path_component: deliveries are looked up only where the
\* environment configures Telegram.
NotifyEnabled == config = "telegram" /\ store \in Tabled
NotifyOK == config = "plain" \/ (NotifyEnabled /\ ~failed)

BundleOK == active \in valid

\* SLIP: a fresh summary is enough, whatever bundle it names.
SensorOK_AnyBundle == BundleOK /\ evidence # None

\* build_live_sensor_health_payload
SensorOK == BundleOK /\ evidence = active

\* build_readiness_payload, whose components are part of the sensitive payload.
Readiness(sensitive) ==
    [ready |-> config # "broken" /\ layout /\ store = "ready",
     components |-> IF sensitive THEN [active_bundle |-> visible]
                                 ELSE [active_bundle |-> FALSE]]

\* _build_operator_status_component
OperatorStatus == Readiness(FALSE)

\* _build_stack_health_payload, for status and for smoke
StackReady == BundleOK /\ SensorOK /\ OperatorStatus.ready /\ NotifyOK

\* Reading a status opens the store, and so may create it.
StoreAfterStatus == IF config = "broken" THEN store ELSE Opened(store)
StoreAfterNotify == IF config = "telegram" THEN Opened(store) ELSE store

\* build_stack_restore_inventory_payload: what a restored host must have.  The evidence
\* of the sensor decides nothing.
BundleInventory == BundleOK
OperatorInventory == config # "broken" /\ store # "missing"
Inventory == BundleInventory /\ OperatorInventory

\* _validate_stack_preflight_with_operator_config: the files and modules of the host,
\* and the gate, for which of all else it looks at only the operator's config counts.
HostLayoutReady == host
BootstrapGate == HostLayoutReady /\ config # "broken"

Finish(a) == cmd' = "none" /\ step' = "none" /\ answer' = a
GoOn(s) == step' = s /\ UNCHANGED <<cmd, answer>>
Verdict(ok) == IF ok THEN "ready" ELSE "degraded"

-----------------------------------------------------------------------------
Init ==
    /\ host = TRUE /\ config \in {"plain", "telegram"}
    /\ valid = Bundles
    /\ layout = FALSE /\ active = None
    /\ store \in {"missing", "ready"} /\ failed = FALSE /\ visible = FALSE
    /\ console = "stopped" /\ worker = "stopped"
    /\ sensor = "stopped" /\ scoring = None /\ evidence = None /\ own = FALSE
    /\ cmd = "none" /\ step = "none" /\ candidate = None
    /\ notify = FALSE /\ sound = TRUE /\ seen = FALSE
    /\ answer = "none" /\ commands = 0 /\ faults = 0

(* run_stack_bootstrap.                                                    *)

\* The preflight looks up notifications, too, and so may create the store.
BeginBootstrap(b) ==
    /\ cmd = "none" /\ commands < MaxCommands
    /\ commands' = commands + 1
    /\ store' = StoreAfterNotify
    /\ candidate' = b /\ notify' = (config = "telegram")
    /\ sound' = TRUE /\ seen' = FALSE
    /\ IF BootstrapGate
       THEN cmd' = "bootstrap" /\ step' = "preparing" /\ answer' = "none"
       ELSE Finish("degraded")
    /\ UNCHANGED <<hostVars, layout, active, failed, visible, unitVars, faults>>

PrepareLayout ==
    /\ step = "preparing"
    /\ layout' = TRUE
    /\ GoOn("verifying")
    /\ UNCHANGED <<hostVars, active, storeVars, unitVars, candidate, resultVars,
                   commands, faults>>

VerifyCandidate ==
    /\ step = "verifying"
    /\ IF candidate \in valid THEN GoOn("promoting") ELSE Finish("failed")
    /\ UNCHANGED <<hostVars, layout, active, storeVars, unitVars, candidate, resultVars,
                   commands, faults>>

Promote ==
    /\ step = "promoting"
    /\ IF candidate \in valid
       THEN active' = candidate /\ GoOn("migrating")
       ELSE Finish("failed") /\ UNCHANGED active
    /\ UNCHANGED <<hostVars, layout, storeVars, unitVars, candidate, resultVars,
                   commands, faults>>

\* SLIP: migrate is called without --allow-bootstrap.
Migrate_NoBootstrap ==
    /\ step = "migrating"
    /\ IF store \in Tabled
       THEN /\ GoOn("creating admin")
            /\ store' = IF store = "ready" THEN "ready" ELSE "current"
       ELSE Finish("failed") /\ UNCHANGED store
    /\ UNCHANGED <<hostVars, layout, active, failed, visible, unitVars, candidate,
                   resultVars,
                   commands, faults>>

Migrate ==
    /\ step = "migrating"
    /\ IF store # "half"
       THEN /\ GoOn("creating admin")
            /\ store' = IF store = "ready" THEN "ready" ELSE "current"
       ELSE Finish("failed") /\ UNCHANGED store
    /\ UNCHANGED <<hostVars, layout, active, failed, visible, unitVars, candidate,
                   resultVars,
                   commands, faults>>

CreateAdmin ==
    /\ step = "creating admin"
    /\ IF store \in {"current", "ready"}
       THEN GoOn("starting console") /\ store' = "ready"
       ELSE Finish("failed") /\ UNCHANGED store
    /\ UNCHANGED <<hostVars, layout, active, failed, visible, unitVars, candidate,
                   resultVars,
                   commands, faults>>

\* systemctl start leaves a running unit alone.  A unit whose preflight fails is
\* tried again later, and the command raises.
StartConsole ==
    /\ step = "starting console"
    /\ console' = IF console = "up" \/ ConsoleMayStart THEN "up" ELSE "failing"
    /\ IF console' = "up" THEN GoOn("starting sensor") ELSE Finish("failed")
    /\ UNCHANGED <<hostVars, layout, active, storeVars, worker, sensorVars, candidate,
                   resultVars,
                   commands, faults>>

StartSensor ==
    /\ step = "starting sensor"
    /\ IF sensor = "up"
       THEN UNCHANGED <<sensor, scoring, own>>
       ELSE /\ sensor' = IF SensorMayStart THEN "up" ELSE "failing"
            /\ scoring' = IF SensorMayStart THEN active ELSE None
            /\ own' = FALSE
    /\ IF sensor' = "up" THEN GoOn("starting worker") ELSE Finish("failed")
    /\ UNCHANGED <<hostVars, layout, active, storeVars, console, worker, evidence,
                   candidate, resultVars,
                   commands, faults>>

StartWorker ==
    /\ step = "starting worker"
    /\ worker' = IF ~notify \/ store \notin Tabled \/ worker = "up" THEN worker
                 ELSE IF ConsoleMayStart THEN "up" ELSE "failing"
    /\ IF notify /\ worker' = "failing" /\ store \in Tabled
       THEN Finish("failed")
       ELSE GoOn("status")
    /\ UNCHANGED <<hostVars, layout, active, storeVars, console, sensorVars, candidate,
                   resultVars,
                   commands, faults>>

(* run_stack_recovery, and run_stack_post_restore_check around it.         *)

BeginRecover ==
    /\ cmd = "none" /\ commands < MaxCommands
    /\ commands' = commands + 1
    /\ cmd' = "recover" /\ step' = "restarting sensor" /\ answer' = "none"
    /\ sound' = TRUE /\ seen' = FALSE
    /\ UNCHANGED <<hostVars, layout, active, storeVars, unitVars, candidate, notify,
                   faults>>

\* The restore inventory and the revalidation of the sensor's preflight.
BeginPostRestoreCheck ==
    /\ cmd = "none" /\ commands < MaxCommands
    /\ commands' = commands + 1
    /\ cmd' = "post-restore-check" /\ step' = "restarting sensor" /\ answer' = "none"
    /\ sound' = (Inventory /\ SensorMayStart) /\ seen' = FALSE
    /\ UNCHANGED <<hostVars, layout, active, storeVars, unitVars, candidate, notify,
                   faults>>

\* SLIP: recover starts the sensor like bootstrap does.
RestartSensor_OnlyStarts ==
    /\ step = "restarting sensor"
    /\ IF sensor = "up"
       THEN UNCHANGED <<sensor, scoring, own, sound>>
       ELSE /\ sensor' = IF SensorMayStart THEN "up" ELSE "failing"
            /\ scoring' = IF SensorMayStart THEN active ELSE None
            /\ own' = FALSE
            /\ sound' = (sound /\ SensorMayStart)
    /\ GoOn("restarting console")
    /\ UNCHANGED <<hostVars, layout, active, storeVars, console, worker, evidence,
                   candidate,
                   notify, seen, commands, faults>>

\* A restart that fails is noted and the command goes on.
RestartSensor ==
    /\ step = "restarting sensor"
    /\ sensor' = IF SensorMayStart THEN "up" ELSE "failing"
    /\ scoring' = IF SensorMayStart THEN active ELSE None
    /\ own' = FALSE
    /\ sound' = (sound /\ SensorMayStart)
    /\ GoOn("restarting console")
    /\ UNCHANGED <<hostVars, layout, active, storeVars, console, worker, evidence,
                   candidate,
                   notify, seen, commands, faults>>

RestartConsole ==
    /\ step = "restarting console"
    /\ console' = IF ConsoleMayStart THEN "up" ELSE "failing"
    /\ sound' = (sound /\ ConsoleMayStart)
    /\ GoOn("restarting worker")
    /\ UNCHANGED <<hostVars, layout, active, storeVars, worker, sensorVars, candidate,
                   notify, seen, commands, faults>>

RestartWorker ==
    /\ step = "restarting worker"
    /\ IF NotifyEnabled
       THEN /\ worker' = IF ConsoleMayStart THEN "up" ELSE "failing"
            /\ sound' = (sound /\ ConsoleMayStart)
       ELSE UNCHANGED <<worker, sound>>
    /\ store' = StoreAfterNotify
    /\ GoOn("status")
    /\ UNCHANGED <<hostVars, layout, active, failed, visible, console, sensorVars,
                   candidate,
                   notify, seen, commands, faults>>

\* build_stack_status_payload, then build_stack_smoke_payload.
Status ==
    /\ step = "status"
    /\ sound' = (sound /\ StackReady)
    /\ store' = StoreAfterStatus
    /\ GoOn("smoke")
    /\ UNCHANGED <<hostVars, layout, active, failed, visible, unitVars, candidate,
                   notify, seen, commands, faults>>

Smoke ==
    /\ step = "smoke"
    /\ sound' = (sound /\ StackReady)
    /\ store' = StoreAfterStatus
    /\ IF cmd = "post-restore-check" THEN GoOn("redriving") ELSE Finish(Verdict(sound'))
    /\ UNCHANGED <<hostVars, layout, active, failed, visible, unitVars, candidate,
                   notify, seen, commands, faults>>

\* notification_status and redrive_notification_failures, which has a limit.  A
\* config that does not load counts as disabled.
RedriveRestored ==
    /\ step = "redriving"
    /\ failed' \in IF NotifyEnabled /\ failed THEN BOOLEAN ELSE {failed}
    /\ sound' = (sound /\ (NotifyEnabled => ~failed'))
    /\ store' = StoreAfterNotify
    /\ GoOn("final status")
    /\ UNCHANGED <<hostVars, layout, active, visible, unitVars, candidate,
                   notify, seen, commands, faults>>

\* _extract_bundle_visibility looks for the bundle in the status' payload.
FinalStatus ==
    /\ step = "final status"
    /\ sound' = (sound /\ StackReady)
    /\ seen' = OperatorStatus.components.active_bundle
    /\ store' = StoreAfterStatus
    /\ GoOn("final smoke")
    /\ UNCHANGED <<hostVars, layout, active, failed, visible, unitVars, candidate,
                   notify, commands, faults>>

FinalSmoke ==
    /\ step = "final smoke"
    /\ sound' = (sound /\ StackReady)
    /\ store' = StoreAfterStatus
    /\ Finish(Verdict(sound' /\ seen))
    /\ UNCHANGED <<hostVars, layout, active, failed, visible, unitVars, candidate,
                   notify, seen, commands, faults>>

\* The command is killed; a migration of a store without tables may be under way.
Kill ==
    /\ cmd # "none" /\ faults < MaxFaults
    /\ faults' = faults + 1
    /\ store' \in IF step = "migrating" /\ store \in {"missing", "empty"}
               THEN {store, "half", "legacy"} ELSE {store}
    /\ Finish("killed")
    /\ UNCHANGED <<hostVars, layout, active, failed, visible, unitVars, candidate,
                   resultVars, commands>>

(* The host meanwhile.                                                     *)

\* The operator edits files and environment; a bundle's files are damaged.
EditHost ==
    /\ faults < MaxFaults /\ faults' = faults + 1
    /\ \/ host' = ~host /\ UNCHANGED <<config, valid>>
       \/ config' \in {"broken", "plain", "telegram"} \ {config} /\ UNCHANGED <<host,
                                                                                valid>>
       \/ \E b \in valid : valid' = valid \ {b} /\ UNCHANGED <<host, config>>
    /\ UNCHANGED <<layout, active, storeVars, unitVars, cmdVars>>

\* The sensor's summaries, which name the bundle it declared, and their age.
Summarize ==
    /\ sensor = "up"
    /\ evidence' = scoring /\ own' = TRUE
    /\ UNCHANGED <<hostVars, layout, active, storeVars, console, worker, sensor,
                   scoring, cmdVars, faults>>

Age ==
    /\ evidence # None
    /\ evidence' = None /\ own' = FALSE
    /\ UNCHANGED <<hostVars, layout, active, storeVars, console, worker, sensor,
                   scoring, cmdVars, faults>>

\* The worker ingests a summary, and some delivery fails.
WorkerCycle ==
    /\ worker = "up" /\ store = "ready"
    /\ visible' = (visible \/ evidence # None)
    /\ failed' \in {failed, TRUE}
    /\ UNCHANGED <<hostVars, layout, active, store, unitVars, cmdVars, faults>>

\* A notify-run-once by hand: OperatorStore.open creates what tables are missing.
RunOnce ==
    /\ config # "broken" /\ store \in {"missing", "empty", "half"}
    /\ store' = "legacy"
    /\ UNCHANGED <<hostVars, layout, active, failed, visible, unitVars, cmdVars, faults>>

\* A unit dies, and is started again.
UnitDies ==
    /\ faults < MaxFaults /\ faults' = faults + 1
    /\ \/ console = "up" /\ console' = "failing" /\ UNCHANGED <<worker, sensor,
                                                                scoring, own>>
       \/ worker = "up" /\ worker' = "failing" /\ UNCHANGED <<console, sensor, scoring,
                                                              own>>
       \/ /\ sensor = "up" /\ sensor' = "failing" /\ scoring' = None /\ own' = FALSE
          /\ UNCHANGED <<console, worker>>
    /\ UNCHANGED <<hostVars, layout, active, storeVars, evidence, cmdVars>>

UnitRestarts ==
    /\ \/ /\ console = "failing" /\ ConsoleMayStart /\ console' = "up"
          /\ UNCHANGED <<worker, sensor, scoring, own>>
       \/ /\ worker = "failing" /\ ConsoleMayStart /\ worker' = "up"
          /\ UNCHANGED <<console, sensor, scoring, own>>
       \/ /\ sensor = "failing" /\ SensorMayStart
          /\ sensor' = "up" /\ scoring' = active /\ own' = FALSE
          /\ UNCHANGED <<console, worker>>
    /\ UNCHANGED <<hostVars, layout, active, storeVars, evidence, cmdVars, faults>>

\* The operator stops the console's units and restores a backup, which may hold
\* failed deliveries and summaries.
RestoreStore ==
    /\ cmd = "none"
    /\ console' = "stopped" /\ worker' = "stopped"
    /\ store' = "ready" /\ failed' \in BOOLEAN /\ visible' \in BOOLEAN
    /\ UNCHANGED <<hostVars, layout, active, sensorVars, cmdVars, faults>>

BootstrapStep ==
    \/ PrepareLayout \/ VerifyCandidate \/ Promote \/ Migrate \/ CreateAdmin
    \/ StartConsole \/ StartSensor \/ StartWorker

RecoverStep ==
    \/ RestartSensor \/ RestartConsole \/ RestartWorker \/ Status \/ Smoke
    \/ RedriveRestored \/ FinalStatus \/ FinalSmoke

Next ==
    \/ \E b \in Bundles : BeginBootstrap(b)
    \/ BeginRecover \/ BeginPostRestoreCheck
    \/ BootstrapStep \/ RecoverStep \/ Kill
    \/ EditHost \/ Summarize \/ Age \/ WorkerCycle \/ RunOnce
    \/ UnitDies \/ UnitRestarts \/ RestoreStore

Spec == Init /\ [][Next]_vars

-----------------------------------------------------------------------------
TypeOK ==
    /\ host \in BOOLEAN /\ config \in {"broken", "plain", "telegram"}
    /\ valid \subseteq Bundles /\ layout \in BOOLEAN /\ active \in Bundles \cup {None}
    /\ store \in StoreStates /\ failed \in BOOLEAN /\ visible \in BOOLEAN
    /\ console \in UnitStates /\ worker \in UnitStates /\ sensor \in UnitStates
    /\ scoring \in Bundles \cup {None} /\ (sensor = "up" <=> scoring # None)
    /\ evidence \in Bundles \cup {None}
    /\ own \in BOOLEAN /\ (own => evidence # None /\ sensor = "up")
    /\ cmd \in {"none", "bootstrap", "recover", "post-restore-check"}
    /\ cmd = "none" <=> step = "none"
    /\ candidate \in Bundles \cup {None}
    /\ notify \in BOOLEAN /\ sound \in BOOLEAN /\ seen \in BOOLEAN
    /\ answer \in {"none", "ready", "degraded", "failed", "killed"}
    /\ commands \in 0..MaxCommands /\ faults \in 0..MaxFaults

\* A command answers ready only while a sensor that has spoken for itself scores
\* with the active bundle.
ReadyMeansScoring ==
    [][cmd # "none" /\ answer' = "ready" /\ sensor = "up" /\ own => scoring = active]_vars

\* Recovery does not rest on what an earlier process wrote: when it answers ready
\* the running sensor has loaded the active bundle.
RecoveryReloads ==
    [][cmd # "bootstrap" /\ cmd # "none" /\ answer' = "ready" /\ sensor = "up"
         => scoring = active]_vars

\* A bootstrap that passed its preflight raises only for a candidate that does
\* not meet the contract, a store left half made or an env file broken since.
BootstrapFailsForCause ==
    [][cmd = "bootstrap" /\ answer' = "failed"
         => candidate \notin valid \/ store = "half" \/ config = "broken"]_vars
=============================================================================
