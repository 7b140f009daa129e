--------------------------- MODULE BundleActivation ---------------------------
(***************************************************************************)
(* Which model bundle the sensor scores with.  Operators, and the stack's   *)
(* bootstrap, promote a bundle or roll back to the one before               *)
(* (ops/model_bundle_lifecycle.py); both read the activation record, decide, *)
(* and replace it in one rename.  The sensor reads the record twice when it *)
(* starts, once for the model and once for what its summaries declare       *)
(* (runtime/live_sensor.py), and the health check compares the last summary *)
(* with the record (runtime/live_sensor_health.py).  No lock is taken.      *)
(***************************************************************************)
EXTENDS Naturals

CONSTANTS
    Bundles,      \* bundle directories
    NoBundle,     \* no bundle
    Operators,    \* processes that run promote or rollback
    MaxCommands   \* BOUND: commands begun

ASSUME ActivationAssumption == NoBundle \notin Bundles /\ MaxCommands \in Nat

Maybe == Bundles \cup {NoBundle}

VARIABLES
    good,       \* bundles whose files satisfy the bundle contract
    record,     \* the activation record; no active bundle while there is no file
    at,         \* where each operator is in its command
    candidate,  \* the bundle it is about to activate
    base,       \* the active bundle it found in the record
    commands,
    phase,      \* of the sensor: "down", "loaded" (model read), "running"
    scoring,    \* the bundle its model came from
    declared,   \* the bundle its summaries name
    summary,    \* the last line of the summary file
    verified,   \* history: bundles that passed the contract in a command
    before,     \* history: the active bundle the last activation replaced
    raced,      \* history: the record changed between the sensor's two reads
    own         \* history: the last summary is of the running process

commandVars == <<at, candidate, base, commands, verified>>
recordVars == <<record, before>>
sensorVars == <<phase, scoring, declared, summary, own>>
activationVars == <<good, recordVars, commandVars, sensorVars, raced>>

\* validate_bundle_manifest: digests, schema and the model's own inputs agree.
Meets(b) == b \in good

-----------------------------------------------------------------------------
ActivationInit ==
    /\ good \in SUBSET Bundles
    /\ record = [active |-> NoBundle, previous |-> NoBundle]
    /\ at = [o \in Operators |-> "idle"]
    /\ candidate = [o \in Operators |-> NoBundle] /\ base = [o \in Operators |-> NoBundle]
    /\ commands = 0
    /\ phase = "down" /\ scoring = NoBundle /\ declared = NoBundle
    /\ summary = [bundle |-> NoBundle, fresh |-> FALSE, failed |-> FALSE]
    /\ verified = {} /\ before = NoBundle /\ raced = FALSE /\ own = FALSE

(* Someone replaces, damages or restores the files of a bundle.             *)

TouchBundle(b) ==
    /\ good' = IF b \in good THEN good \ {b} ELSE good \cup {b}
    /\ UNCHANGED <<recordVars, commandVars, sensorVars, raced>>

(* promote and rollback.  A check that fails raises before anything is     *)
(* written.                                                                *)

\* SLIP: the candidate is not checked against the contract.
BeginPromote_Unchecked(o, b) ==
    /\ at[o] = "idle" /\ commands < MaxCommands
    /\ candidate' = [candidate EXCEPT ![o] = b]
    /\ at' = [at EXCEPT ![o] = "reading"]
    /\ commands' = commands + 1
    /\ UNCHANGED <<good, recordVars, base, verified, sensorVars, raced>>

BeginPromote(o, b) ==
    /\ at[o] = "idle" /\ commands < MaxCommands
    /\ Meets(b)
    /\ candidate' = [candidate EXCEPT ![o] = b]
    /\ verified' = verified \cup {b}
    /\ at' = [at EXCEPT ![o] = "reading"]
    /\ commands' = commands + 1
    /\ UNCHANGED <<good, recordVars, base, sensorVars, raced>>

ReadRecord(o) ==
    /\ at[o] = "reading"
    /\ base' = [base EXCEPT ![o] = record.active]
    /\ at' = [at EXCEPT ![o] = "promoting"]
    /\ UNCHANGED <<good, recordVars, candidate, commands, verified, sensorVars, raced>>

BeginRollback(o) ==
    /\ at[o] = "idle" /\ commands < MaxCommands
    /\ record.active # NoBundle /\ record.previous # NoBundle
    /\ candidate' = [candidate EXCEPT ![o] = record.previous]
    /\ base' = [base EXCEPT ![o] = record.active]
    /\ at' = [at EXCEPT ![o] = "verifying"]
    /\ commands' = commands + 1
    /\ UNCHANGED <<good, recordVars, verified, sensorVars, raced>>

VerifyPrevious(o) ==
    /\ at[o] = "verifying"
    /\ IF Meets(candidate[o])
       THEN /\ at' = [at EXCEPT ![o] = "restoring"]
            /\ verified' = verified \cup {candidate[o]}
       ELSE at' = [at EXCEPT ![o] = "idle"] /\ UNCHANGED verified
    /\ UNCHANGED <<good, recordVars, candidate, base, commands, sensorVars, raced>>

\* SLIP: a rollback leaves the rollback target as it was.
NewRecord_KeepsTarget(o) ==
    [active |-> candidate[o],
     previous |-> IF at[o] = "restoring" THEN record.previous ELSE base[o]]

\* build_activation_record_payload
NewRecord(o) == [active |-> candidate[o], previous |-> base[o]]

\* write_json_atomic: a temporary file, then a rename.
WriteRecord(o) ==
    /\ at[o] \in {"promoting", "restoring"}
    /\ record' = NewRecord(o)
    /\ before' = record.active
    /\ raced' = (raced \/ phase = "loaded")
    /\ at' = [at EXCEPT ![o] = "idle"]
    /\ UNCHANGED <<good, candidate, base, commands, verified, sensorVars>>

\* The command dies; at most a temporary file is left.
CommandDies(o) ==
    /\ at[o] # "idle"
    /\ at' = [at EXCEPT ![o] = "idle"]
    /\ UNCHANGED <<good, recordVars, candidate, base, commands, verified, sensorVars, raced>>

(* The sensor.                                                             *)

\* ExecStartPre and build_model_config: no record, or a bundle that fails the
\* contract, keeps the sensor down.
LoadModel ==
    /\ phase = "down" /\ Meets(record.active)
    /\ scoring' = record.active
    /\ phase' = "loaded"
    /\ raced' = FALSE /\ own' = FALSE
    /\ UNCHANGED <<good, recordVars, commandVars, declared, summary>>

\* build_bundle_status_payload reads the record and the manifest anew.
StatusPayload == IF Meets(record.active) THEN record.active ELSE NoBundle

\* set_active_bundle_state with it.
Declare ==
    /\ phase = "loaded"
    /\ IF StatusPayload # NoBundle
       THEN declared' = StatusPayload /\ phase' = "running" /\ UNCHANGED scoring
       ELSE phase' = "down" /\ scoring' = NoBundle /\ declared' = NoBundle
    /\ UNCHANGED <<good, recordVars, commandVars, summary, own, raced>>

\* capture_summary
Summarize ==
    /\ phase = "running"
    /\ summary' = [bundle |-> declared, fresh |-> TRUE, failed |-> FALSE]
    /\ own' = TRUE
    /\ UNCHANGED <<good, recordVars, commandVars, phase, scoring, declared, raced>>

Down ==
    /\ phase' = "down" /\ scoring' = NoBundle /\ declared' = NoBundle /\ own' = FALSE
    /\ UNCHANGED <<good, recordVars, commandVars, raced>>

\* close(reason="close") or close(reason="capture-failure")
CloseSession ==
    /\ phase = "running"
    /\ \E failure \in BOOLEAN :
         summary' = [bundle |-> declared, fresh |-> TRUE, failed |-> failure]
    /\ Down

\* The process is killed, stopped or raises: no last summary.
Killed == phase # "down" /\ Down /\ UNCHANGED summary

\* The freshness window passes.
Age ==
    /\ summary.fresh
    /\ summary' = [summary EXCEPT !.fresh = FALSE]
    /\ UNCHANGED <<good, recordVars, commandVars, phase, scoring, declared, own, raced>>

(* build_live_sensor_health_payload                                        *)

\* SLIP: a summary of another bundle will do.
Ready_AnyBundle ==
    /\ Meets(record.active)
    /\ summary.fresh /\ ~summary.failed

Ready ==
    /\ Meets(record.active)
    /\ summary.fresh /\ ~summary.failed /\ summary.bundle = record.active

ActivationNext ==
    \/ \E b \in Bundles : TouchBundle(b)
    \/ \E o \in Operators : \/ \E b \in Bundles : BeginPromote(o, b)
                            \/ ReadRecord(o) \/ BeginRollback(o) \/ VerifyPrevious(o)
                            \/ WriteRecord(o) \/ CommandDies(o)
    \/ LoadModel \/ Declare \/ Summarize \/ CloseSession \/ Killed \/ Age

ActivationSpec == ActivationInit /\ [][ActivationNext]_activationVars

-----------------------------------------------------------------------------
\* The values the variables take; a sensor that is up has a model to score with
\* and, once it runs, a bundle to declare.
ActivationTyped ==
    /\ good \subseteq Bundles /\ verified \subseteq Bundles
    /\ record \in [active : Maybe, previous : Maybe]
    /\ at \in [Operators -> {"idle", "reading", "promoting", "verifying", "restoring"}]
    /\ candidate \in [Operators -> Maybe] /\ base \in [Operators -> Maybe]
    /\ commands \in 0..MaxCommands
    /\ phase \in {"down", "loaded", "running"}
    /\ scoring \in Maybe /\ declared \in Maybe /\ before \in Maybe
    /\ summary \in [bundle : Maybe, fresh : BOOLEAN, failed : BOOLEAN]
    /\ raced \in BOOLEAN /\ own \in BOOLEAN
    /\ phase # "down" => scoring \in Bundles
    /\ phase = "running" => declared \in Bundles

\* Whatever commands overlap or die half way, and whatever happens to the
\* files meanwhile, the record names, as active and as rollback target, only
\* bundles that have passed the contract.
KnownGood == {record.active, record.previous} \subseteq verified \cup {NoBundle}

\* When the health check says ready on the word of the running process, the
\* model in memory is the active bundle's, unless the record was replaced
\* between that process's two reads of it.
ReadyIsHonest == Ready /\ own /\ ~raced => scoring = record.active

\* With one command at a time, a rollback activates exactly the bundle that the
\* last activation replaced, after any promotions, rollbacks, commands that
\* failed and commands that died.
RollbackReturns ==
    [][\A o \in Operators : at[o] = "restoring" /\ at'[o] = "idle" /\ before' # before
            => record'.active = before]_activationVars
=============================================================================
