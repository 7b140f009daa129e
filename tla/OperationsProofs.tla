--------------------------- MODULE OperationsProofs ---------------------------
(***************************************************************************)
(* Proofs about what an operator does to a host: the bundle commands, with   *)
(* the activation record and the sensor that reads it (BundleActivation),    *)
(* for any bundles and any number of operators whose commands overlap; the   *)
(* installer (Installation), for any number of runs, any faults and any      *)
(* edits in between; and the console's store (ConsoleStore), for any number  *)
(* of backups and writes, with migrations, backups and restores that die     *)
(* anywhere.  The three share no state.                                     *)
(***************************************************************************)
EXTENDS ConsoleStore, BundleActivation, Installation, TLAPS

-----------------------------------------------------------------------------
(* KnownGood is not inductive: it says nothing of what a command under way  *)
(* is about to write.  VerifiedInFlight adds that the candidate of a         *)
(* command past its check, and the base of every command, has passed the     *)
(* contract too; a rollback that has not checked yet holds a candidate that  *)
(* came from the record.                                                     *)

VerifiedInFlight ==
    \A o \in Operators :
        /\ at[o] \in {"reading", "promoting", "restoring"} => candidate[o] \in verified
        /\ base[o] \in verified \cup {NoBundle}

VerifiedInv == ActivationTyped /\ KnownGood /\ VerifiedInFlight

\* The record and the sensor: unless the record moved between the two reads, the
\* model is the declared bundle's; and the running process's last summary names
\* what it declares.
DeclaredInv ==
    /\ phase = "loaded" /\ ~raced => scoring = record.active
    /\ phase = "running" /\ ~raced => scoring = declared
    /\ own => phase = "running" /\ summary.bundle = declared

LEMMA TypeInit == ActivationAssumption /\ ActivationInit => ActivationTyped
<1> SUFFICES ASSUME ActivationAssumption, ActivationInit
             PROVE  ActivationTyped
  OBVIOUS
<1>1. good \subseteq Bundles /\ verified \subseteq Bundles
  BY DEF ActivationInit
<1>2. record \in [active : Maybe, previous : Maybe]
  BY DEF ActivationInit, Maybe
<1>3. summary \in [bundle : Maybe, fresh : BOOLEAN, failed : BOOLEAN]
  BY DEF ActivationInit, Maybe
<1>4. candidate \in [Operators -> Maybe] /\ base \in [Operators -> Maybe]
  BY DEF ActivationInit, Maybe
<1>5. at \in [Operators -> {"idle", "reading", "promoting", "verifying", "restoring"}]
  BY DEF ActivationInit
<1>6. commands \in 0..MaxCommands
  BY DEF ActivationAssumption, ActivationInit
<1>7. raced \in BOOLEAN /\ own \in BOOLEAN
  BY DEF ActivationInit
<1>8. /\ phase \in {"down", "loaded", "running"}
      /\ scoring \in Maybe /\ declared \in Maybe /\ before \in Maybe
      /\ phase # "down" => scoring \in Bundles
      /\ phase = "running" => declared \in Bundles
  BY DEF ActivationInit, Maybe
<1> QED
  BY <1>1, <1>2, <1>3, <1>4, <1>5, <1>6, <1>7, <1>8 DEF ActivationTyped

LEMMA TypeStep == ActivationAssumption /\ ActivationTyped /\ [ActivationNext]_activationVars => ActivationTyped'
<1> SUFFICES ASSUME ActivationAssumption, ActivationTyped, [ActivationNext]_activationVars
             PROVE  ActivationTyped'
  OBVIOUS
<1> USE DEF ActivationTyped, Maybe, Meets, recordVars, commandVars, sensorVars
<1>1. ASSUME NEW b \in Bundles, TouchBundle(b)
      PROVE  ActivationTyped'
  BY <1>1 DEF TouchBundle
<1>2. ASSUME NEW o \in Operators, NEW b \in Bundles, BeginPromote(o, b)
      PROVE  ActivationTyped'
  BY <1>2 DEF BeginPromote, ActivationAssumption
<1>3. ASSUME NEW o \in Operators, ReadRecord(o)
      PROVE  ActivationTyped'
  BY <1>3 DEF ReadRecord
<1>4. ASSUME NEW o \in Operators, BeginRollback(o)
      PROVE  ActivationTyped'
  BY <1>4 DEF BeginRollback, ActivationAssumption
<1>5. ASSUME NEW o \in Operators, VerifyPrevious(o)
      PROVE  ActivationTyped'
  <2>1. CASE candidate[o] \in good
    BY <1>5, <2>1 DEF VerifyPrevious
  <2>2. CASE candidate[o] \notin good
    BY <1>5, <2>2 DEF VerifyPrevious
  <2> QED BY <2>1, <2>2
<1>6. ASSUME NEW o \in Operators, WriteRecord(o)
      PROVE  ActivationTyped'
  <2>1. raced' \in BOOLEAN
    BY <1>6 DEF WriteRecord
  <2>2. record' \in [active : Maybe, previous : Maybe] /\ before' \in Maybe
    BY <1>6 DEF WriteRecord, NewRecord
  <2> QED BY <1>6, <2>1, <2>2 DEF WriteRecord
<1>7. ASSUME NEW o \in Operators, CommandDies(o)
      PROVE  ActivationTyped'
  BY <1>7 DEF CommandDies
<1>8. CASE LoadModel
  BY <1>8 DEF LoadModel, ActivationAssumption
<1>9. CASE Declare
  BY <1>9 DEF Declare, StatusPayload
<1>10. CASE Summarize
  BY <1>10 DEF Summarize
<1>11. CASE CloseSession
  <2>1. PICK failure \in BOOLEAN :
          summary' = [bundle |-> declared, fresh |-> TRUE, failed |-> failure]
    BY <1>11 DEF CloseSession
  <2>2. summary' \in [bundle : Maybe, fresh : BOOLEAN, failed : BOOLEAN]
    BY <2>1
  <2> QED BY <1>11, <2>2 DEF CloseSession, Down
<1>12. CASE Killed
  BY <1>12 DEF Killed, Down
<1>13. CASE Age
  BY <1>13 DEF Age
<1>14. CASE UNCHANGED activationVars
  BY <1>14 DEF activationVars
<1> QED
  BY <1>1, <1>2, <1>3, <1>4, <1>5, <1>6, <1>7, <1>8, <1>9, <1>10, <1>11, <1>12,
     <1>13, <1>14 DEF ActivationNext

\* Every variable keeps its type, and a sensor that is up has a model and, once
\* it runs, a bundle to declare: the checks of startup let no other state
\* through.
THEOREM ActivationTypeCorrect == ActivationSpec => []ActivationTyped
<1>1. ActivationAssumption
  BY ActivationAssumption
<1> QED
  BY <1>1, TypeInit, TypeStep, PTL DEF ActivationSpec

-----------------------------------------------------------------------------
LEMMA VerifiedStep ==
  ActivationAssumption /\ VerifiedInv /\ [ActivationNext]_activationVars
    => KnownGood' /\ VerifiedInFlight'
<1> SUFFICES ASSUME ActivationAssumption, VerifiedInv, [ActivationNext]_activationVars
             PROVE  KnownGood' /\ VerifiedInFlight'
  OBVIOUS
<1> USE DEF VerifiedInv, ActivationTyped, KnownGood, VerifiedInFlight, Maybe, Meets,
            recordVars, commandVars
<1>1. CASE UNCHANGED <<recordVars, commandVars>>
  BY <1>1
<1>2. ASSUME NEW o \in Operators, NEW b \in Bundles, BeginPromote(o, b)
      PROVE  KnownGood' /\ VerifiedInFlight'
  BY <1>2 DEF BeginPromote
<1>3. ASSUME NEW o \in Operators, ReadRecord(o)
      PROVE  KnownGood' /\ VerifiedInFlight'
  BY <1>3 DEF ReadRecord
<1>4. ASSUME NEW o \in Operators, BeginRollback(o)
      PROVE  KnownGood' /\ VerifiedInFlight'
  BY <1>4 DEF BeginRollback
<1>5. ASSUME NEW o \in Operators, VerifyPrevious(o)
      PROVE  KnownGood' /\ VerifiedInFlight'
  <2>1. CASE candidate[o] \in good
    BY <1>5, <2>1 DEF VerifyPrevious
  <2>2. CASE candidate[o] \notin good
    BY <1>5, <2>2 DEF VerifyPrevious
  <2> QED BY <2>1, <2>2
<1>6. ASSUME NEW o \in Operators, WriteRecord(o)
      PROVE  KnownGood' /\ VerifiedInFlight'
  <2>1. candidate[o] \in verified /\ base[o] \in verified \cup {NoBundle}
    BY <1>6 DEF WriteRecord
  <2>2. KnownGood'
    BY <1>6, <2>1 DEF WriteRecord, NewRecord
  <2>3. VerifiedInFlight'
    BY <1>6 DEF WriteRecord
  <2> QED BY <2>2, <2>3
<1>7. ASSUME NEW o \in Operators, CommandDies(o)
      PROVE  KnownGood' /\ VerifiedInFlight'
  BY <1>7 DEF CommandDies
<1>8. CASE LoadModel \/ Declare \/ Summarize \/ CloseSession \/ Killed \/ Age
  BY <1>1, <1>8 DEF LoadModel, Declare, StatusPayload, Summarize, CloseSession, Killed, Down, Age
<1>9. CASE UNCHANGED activationVars
  BY <1>1, <1>9 DEF activationVars
<1>10. ASSUME NEW b \in Bundles, TouchBundle(b)
       PROVE  KnownGood' /\ VerifiedInFlight'
  BY <1>1, <1>10 DEF TouchBundle
<1> QED
  BY <1>2, <1>3, <1>4, <1>5, <1>6, <1>7, <1>8, <1>9, <1>10 DEF ActivationNext

\* However many promotions and rollbacks overlap, fail or die half way, and
\* whatever happens to the bundles' files meanwhile, the activation record names
\* only bundles that have passed the contract.
THEOREM RecordKnownGood == ActivationSpec => []KnownGood
<1>1. ActivationAssumption
  BY ActivationAssumption
<1>2. ActivationInit => VerifiedInv
  BY <1>1, TypeInit DEF ActivationInit, VerifiedInv, KnownGood, VerifiedInFlight
<1>3. VerifiedInv /\ [ActivationNext]_activationVars => VerifiedInv'
  BY <1>1, TypeStep, VerifiedStep DEF VerifiedInv
<1>4. VerifiedInv => KnownGood
  BY DEF VerifiedInv
<1> QED
  BY <1>2, <1>3, <1>4, PTL DEF ActivationSpec

-----------------------------------------------------------------------------
LEMMA DeclaredStep == ActivationTyped /\ DeclaredInv /\ [ActivationNext]_activationVars => DeclaredInv'
<1> SUFFICES ASSUME ActivationTyped, DeclaredInv, [ActivationNext]_activationVars
             PROVE  DeclaredInv'
  OBVIOUS
<1> USE DEF DeclaredInv, recordVars, sensorVars
<1>1. CASE UNCHANGED <<recordVars, sensorVars, raced>>
  BY <1>1
<1>2. ASSUME NEW o \in Operators, WriteRecord(o)
      PROVE  DeclaredInv'
  BY <1>2 DEF WriteRecord
<1>3. ASSUME NEW o \in Operators,
             \/ \E b \in Bundles : BeginPromote(o, b)
             \/ ReadRecord(o) \/ BeginRollback(o) \/ VerifyPrevious(o) \/ CommandDies(o)
      PROVE  DeclaredInv'
  BY <1>1, <1>3 DEF BeginPromote, ReadRecord, BeginRollback, VerifyPrevious, CommandDies
<1>4. ASSUME NEW b \in Bundles, TouchBundle(b)
      PROVE  DeclaredInv'
  BY <1>1, <1>4 DEF TouchBundle
<1>5. CASE LoadModel
  BY <1>5 DEF LoadModel
<1>6. CASE Declare
  BY <1>6 DEF Declare, StatusPayload
<1>7. CASE Summarize
  BY <1>7 DEF Summarize
<1>8. CASE CloseSession \/ Killed
  BY <1>8 DEF CloseSession, Killed, Down
<1>9. CASE Age
  <2>1. summary'.bundle = summary.bundle
    BY <1>9 DEF Age, ActivationTyped
  <2> QED BY <1>9, <2>1 DEF Age
<1>10. CASE UNCHANGED activationVars
  BY <1>1, <1>10 DEF activationVars
<1> QED
  BY <1>2, <1>3, <1>4, <1>5, <1>6, <1>7, <1>8, <1>9, <1>10 DEF ActivationNext

\* When the health check answers ready on the word of the running sensor, the
\* model in the sensor's memory is the active bundle's, unless the record was
\* replaced between the sensor's two reads of it.
THEOREM HealthHonest == ActivationSpec => []ReadyIsHonest
<1>1. ActivationAssumption
  BY ActivationAssumption
<1>2. ActivationInit => ActivationTyped /\ DeclaredInv
  BY <1>1, TypeInit DEF ActivationInit, DeclaredInv
<1>3. ActivationTyped /\ DeclaredInv /\ [ActivationNext]_activationVars => (ActivationTyped /\ DeclaredInv)'
  BY <1>1, TypeStep, DeclaredStep
<1>4. ActivationTyped /\ DeclaredInv => ReadyIsHonest
  BY DEF DeclaredInv, ReadyIsHonest, Ready
<1> QED
  BY <1>2, <1>3, <1>4, PTL DEF ActivationSpec

-----------------------------------------------------------------------------
(* RollbackReturns is about the history before; a rollback works from the     *)
(* record.  LoneInv relates the two: the rollback target is what the last      *)
(* activation replaced, and while only one command runs the record does not    *)
(* move between the command's reading it and its writing it.                   *)

OneOperator == \A o, p \in Operators : o = p

LoneInv ==
    /\ record.previous = before
    /\ \A o \in Operators :
         /\ at[o] \in {"promoting", "verifying", "restoring"} => base[o] = record.active
         /\ at[o] \in {"verifying", "restoring"} => candidate[o] = record.previous

LEMMA LoneStep ==
  OneOperator /\ ActivationTyped /\ LoneInv /\ [ActivationNext]_activationVars => LoneInv'
<1> SUFFICES ASSUME OneOperator, ActivationTyped, LoneInv, [ActivationNext]_activationVars
             PROVE  LoneInv'
  OBVIOUS
<1> USE DEF LoneInv, recordVars, commandVars
<1>1. CASE UNCHANGED <<recordVars, commandVars>>
  BY <1>1
<1>2. ASSUME NEW o \in Operators, NEW b \in Bundles, BeginPromote(o, b)
      PROVE  LoneInv'
  BY <1>2 DEF BeginPromote, ActivationTyped
<1>3. ASSUME NEW o \in Operators, ReadRecord(o)
      PROVE  LoneInv'
  BY <1>3 DEF ReadRecord, ActivationTyped
<1>4. ASSUME NEW o \in Operators, BeginRollback(o)
      PROVE  LoneInv'
  BY <1>4 DEF BeginRollback, ActivationTyped
<1>5. ASSUME NEW o \in Operators, VerifyPrevious(o)
      PROVE  LoneInv'
  BY <1>5 DEF VerifyPrevious, ActivationTyped
<1>6. ASSUME NEW o \in Operators, WriteRecord(o)
      PROVE  LoneInv'
  <2>1. \A p \in Operators : at'[p] = "idle"
    BY <1>6 DEF WriteRecord, OneOperator, ActivationTyped
  <2>2. record'.previous = before'
    BY <1>6 DEF WriteRecord, NewRecord
  <2> QED BY <2>1, <2>2
<1>7. ASSUME NEW o \in Operators, CommandDies(o)
      PROVE  LoneInv'
  BY <1>7 DEF CommandDies, ActivationTyped
<1>8. CASE LoadModel \/ Declare \/ Summarize \/ CloseSession \/ Killed \/ Age
  BY <1>1, <1>8 DEF LoadModel, Declare, StatusPayload, Summarize, CloseSession, Killed, Down, Age
<1>9. CASE UNCHANGED activationVars
  BY <1>1, <1>9 DEF activationVars
<1>10. ASSUME NEW b \in Bundles, TouchBundle(b)
       PROVE  LoneInv'
  BY <1>1, <1>10 DEF TouchBundle
<1> QED
  BY <1>2, <1>3, <1>4, <1>5, <1>6, <1>7, <1>8, <1>9, <1>10 DEF ActivationNext

\* Where commands are run one at a time, a rollback activates exactly the bundle
\* that the last activation replaced, after any promotions, rollbacks and
\* commands that failed or died.  With two operators it need not: the record a
\* rollback read may be overwritten before it writes.
THEOREM LoneRollbackReturns ==
  ASSUME OneOperator
  PROVE  ActivationSpec => RollbackReturns
<1> DEFINE Step == \A o \in Operators :
             at[o] = "restoring" /\ at'[o] = "idle" /\ before' # before
               => record'.active = before
<1>1. ActivationAssumption
  BY ActivationAssumption
<1>2. ActivationInit => ActivationTyped /\ LoneInv
  BY <1>1, TypeInit DEF ActivationInit, LoneInv
<1>3. ActivationTyped /\ LoneInv /\ [ActivationNext]_activationVars => (ActivationTyped /\ LoneInv)'
  BY <1>1, TypeStep, LoneStep, OneOperator
<1>4. ActivationTyped /\ LoneInv /\ [ActivationNext]_activationVars => Step \/ UNCHANGED activationVars
  <2> SUFFICES ASSUME ActivationTyped, LoneInv, ActivationNext, NEW o \in Operators,
                      at[o] = "restoring", before' # before
               PROVE  record'.active = before
    BY DEF activationVars
  <2>1. PICK p \in Operators : WriteRecord(p)
    BY DEF ActivationNext, TouchBundle, BeginPromote, ReadRecord, BeginRollback, VerifyPrevious,
           CommandDies, LoadModel, Declare, Summarize, CloseSession, Killed, Down, Age, recordVars
  <2>2. p = o
    BY OneOperator DEF OneOperator
  <2> QED
    BY <2>1, <2>2 DEF WriteRecord, NewRecord, LoneInv
<1> HIDE DEF Step
<1>5. ActivationSpec => [][Step]_activationVars
  BY <1>2, <1>3, <1>4, PTL DEF ActivationSpec
<1> QED
  BY <1>5 DEF Step, RollbackReturns

-----------------------------------------------------------------------------
(* The installer.                                                          *)


Files == {"operator", "live", "secret", "password", "token"}
Steps == {"idle", "venv", "operator_env", "live_env", "live_rewrite", "live_check", "secret",
          "fill_secret", "units", "stack", "db_path", "db_rewrite", "password",
          "fill_password", "migrate", "admin", "start", "checks"}

\* The steps of run_bootstrap from a given one on.
FromStart == {"start", "checks"}
FromPassword == {"password", "fill_password", "migrate", "admin"} \cup FromStart
FromUnits == {"units", "stack", "db_path", "db_rewrite"} \cup FromPassword
FromLiveEnv == {"live_env", "live_rewrite", "live_check", "secret", "fill_secret"} \cup FromUnits

Edited == [operator : OperatorEdits \cup {OperatorTemplate}, live : LiveEdits \cup {LiveTemplate}]

RunType ==
    /\ args \in Arguments /\ ipc \in Steps
    /\ (ipc # "idle" => outcome = "none")
    /\ present \subseteq Files /\ filled \subseteq present
    /\ venv \in {"none", "cleared", "ready"}
    /\ schema \in BOOLEAN /\ admin \in BOOLEAN /\ console \in {"down", "up", "failing"}
    /\ DOMAIN operator = DOMAIN OperatorTemplate /\ DOMAIN live = DOMAIN LiveTemplate
    /\ edited \in Edited
    /\ cut \subseteq {"operator", "live"}

\* What a step may rely on: the ones before it have left something behind.
Progress ==
    /\ ipc \in {"operator_env"} \cup FromLiveEnv => venv = "ready"
    /\ ipc \in FromLiveEnv => "operator" \in present
    /\ ipc \in {"live_rewrite", "live_check"} => "live" \in present
    /\ ipc \in FromUnits /\ args.create => "secret" \in present
    /\ ipc \in FromPassword => operator.db # ""
    /\ ipc \in {"migrate", "admin"} => "password" \in present
    /\ ipc \in {"admin"} \cup FromStart => schema
    /\ ipc \in FromStart => admin
    /\ ipc = "fill_secret" => "secret" \in present
    /\ ipc = "fill_password" => "password" \in present

KeepsOperator(env) ==
    \A k \in DOMAIN OperatorTemplate :
        env[k] = edited.operator[k] \/ (k = "db" /\ edited.operator[k] = "")
KeepsLive(env) ==
    env.iface = edited.live.iface /\ env.dumpcap \in {edited.live.dumpcap, "given"}

\* An environment file says what the operator wrote, or is being written over
\* with what does.
OperatorKept ==
    /\ "operator" \notin present => operator = OperatorTemplate /\ edited.operator = OperatorTemplate
    /\ "operator" \notin cut =>
         KeepsOperator(operator) \/ (ipc = "db_rewrite" /\ operator = Emptied(operator))
    /\ ipc = "db_rewrite" =>
         /\ DOMAIN rewrite = DOMAIN OperatorTemplate /\ rewrite["db"] # ""
         /\ "operator" \notin cut => KeepsOperator(rewrite)
LiveKept ==
    /\ "live" \notin present => live = LiveTemplate /\ edited.live = LiveTemplate
    /\ "live" \notin cut => KeepsLive(live) \/ (ipc = "live_rewrite" /\ live = Emptied(live))
    /\ ipc = "live_check" => live.paths # ""
    /\ ipc = "live_rewrite" =>
         /\ DOMAIN rewrite = DOMAIN LiveTemplate /\ rewrite["paths"] # ""
         /\ "live" \notin cut => KeepsLive(rewrite)

\* A console that is up has all it needs, and it gets past the start of the
\* services only like that, or for the blank token file.
ConsoleStaffed ==
    /\ console = "up" => schema /\ admin /\ "secret" \in filled
    /\ ipc = "checks" /\ ~args.skip /\ console # "up" =>
         "secret" \in filled /\ operator.token = "file"

InstallInv == RunType /\ Progress /\ OperatorKept /\ LiveKept /\ ConsoleStaffed

-----------------------------------------------------------------------------
(* The invariant holds in the initial state and is kept, part by part.      *)

LEMMA InvInit == EditsAssumption /\ InstallInit => InstallInv
<1> SUFFICES ASSUME EditsAssumption, InstallInit PROVE InstallInv
  OBVIOUS
<1> USE DEF InstallInit
<1>1. RunType
  BY DEF RunType, Edited, Arguments, Steps, OperatorTemplate, LiveTemplate
<1>2. Progress /\ ConsoleStaffed
  BY DEF Progress, ConsoleStaffed, FromStart, FromPassword, FromUnits, FromLiveEnv
<1>3. OperatorKept /\ LiveKept
  BY DEF OperatorKept, LiveKept, KeepsOperator, KeepsLive
<1> QED
  BY <1>1, <1>2, <1>3 DEF InstallInv

LEMMA RunTypeStep == EditsAssumption /\ InstallInv /\ [InstallNext]_installVars => RunType'
<1> SUFFICES ASSUME EditsAssumption, InstallInv, [InstallNext]_installVars
             PROVE  RunType'
  OBVIOUS
<1> USE DEF InstallInv, envVars, fileVars, hostVars, histVars,
        RunType, Progress, Steps, Files
<1>1. CASE Start
  BY <1>1 DEF Start, End
<1>2. CASE Python
  BY <1>2 DEF Python, Goto
<1>3. CASE SeedOperatorEnv
  BY <1>3 DEF SeedOperatorEnv, Goto
<1>4. CASE SeedLiveEnv
  BY <1>4 DEF SeedLiveEnv, Goto
<1>5. CASE Rewrite
  BY <1>5 DEF Rewrite, Goto, Emptied, OperatorKept, LiveKept
<1>6. CASE CheckLiveEnv
  BY <1>6 DEF CheckLiveEnv, Goto, End
<1>7. CASE SeedSecret
  BY <1>7 DEF SeedSecret, Goto, Create, Fill, Filling
<1>8. CASE Units
  BY <1>8 DEF Units, Goto
<1>9. CASE DatabasePath
  BY <1>9 DEF DatabasePath, Goto
<1>10. CASE SeedPassword
  BY <1>10 DEF SeedPassword, Goto, End, Create, Fill, Filling
<1>11. CASE Migrate
  BY <1>11 DEF Migrate, Goto
<1>12. CASE SeedAdmin
  BY <1>12 DEF SeedAdmin, Goto, End
<1>13. CASE StartServices
  BY <1>13 DEF StartServices, Goto, End, Started, Preflight
<1>14. CASE Checks
  BY <1>14 DEF Checks, End
<1>15. CASE StackBootstrap
  BY <1>15 DEF StackBootstrap, End, Started, Preflight
<1>16. CASE Fault
  BY <1>16 DEF Fault, End, Emptied
<1>17. CASE Edit
  BY <1>17 DEF Edit, Edited, EditsAssumption
<1>18. CASE Provide
  BY <1>18 DEF Provide
<1>19. CASE Reboot
  BY <1>19 DEF Reboot, Started, Preflight
<1>20. CASE Supervise
  BY <1>20 DEF Supervise, Started, Preflight
<1>21. CASE UNCHANGED installVars
  BY <1>21 DEF installVars
<1> QED
  BY <1>1, <1>2, <1>3, <1>4, <1>5, <1>6, <1>7, <1>8, <1>9, <1>10, <1>11, <1>12, <1>13, <1>14, <1>15, <1>16, <1>17, <1>18, <1>19, <1>20, <1>21 DEF InstallNext, ScriptStep

LEMMA ProgressStep == EditsAssumption /\ InstallInv /\ [InstallNext]_installVars => Progress'
<1> SUFFICES ASSUME EditsAssumption, InstallInv, [InstallNext]_installVars
             PROVE  Progress'
  OBVIOUS
<1> USE DEF InstallInv, envVars, fileVars, hostVars, histVars,
        RunType, Progress, OperatorKept, Steps, FromStart, FromPassword, FromUnits, FromLiveEnv
<1>1. CASE Start
  BY <1>1 DEF Start, End
<1>2. CASE Python
  BY <1>2 DEF Python, Goto
<1>3. CASE SeedOperatorEnv
  BY <1>3 DEF SeedOperatorEnv, Goto
<1>4. CASE SeedLiveEnv
  BY <1>4 DEF SeedLiveEnv, Goto
<1>5. CASE Rewrite
  BY <1>5 DEF Rewrite, Goto, Emptied
<1>6. CASE CheckLiveEnv
  BY <1>6 DEF CheckLiveEnv, Goto, End
<1>7. CASE SeedSecret
  BY <1>7 DEF SeedSecret, Goto, Create, Fill, Filling
<1>8. CASE Units
  BY <1>8 DEF Units, Goto
<1>9. CASE DatabasePath
  BY <1>9 DEF DatabasePath, Goto
<1>10. CASE SeedPassword
  BY <1>10 DEF SeedPassword, Goto, End, Create, Fill, Filling
<1>11. CASE Migrate
  BY <1>11 DEF Migrate, Goto
<1>12. CASE SeedAdmin
  BY <1>12 DEF SeedAdmin, Goto, End
<1>13. CASE StartServices
  BY <1>13 DEF StartServices, Goto, End, Started, Preflight
<1>14. CASE Checks
  BY <1>14 DEF Checks, End
<1>15. CASE StackBootstrap
  BY <1>15 DEF StackBootstrap, End, Started, Preflight
<1>16. CASE Fault
  BY <1>16 DEF Fault, End, Emptied
<1>17. CASE Edit
  BY <1>17 DEF Edit
<1>18. CASE Provide
  BY <1>18 DEF Provide
<1>19. CASE Reboot
  BY <1>19 DEF Reboot, Started, Preflight
<1>20. CASE Supervise
  BY <1>20 DEF Supervise, Started, Preflight
<1>21. CASE UNCHANGED installVars
  BY <1>21 DEF installVars
<1> QED
  BY <1>1, <1>2, <1>3, <1>4, <1>5, <1>6, <1>7, <1>8, <1>9, <1>10, <1>11, <1>12, <1>13, <1>14, <1>15, <1>16, <1>17, <1>18, <1>19, <1>20, <1>21 DEF InstallNext, ScriptStep

LEMMA DefaultDatabase ==
    ASSUME DOMAIN operator = DOMAIN OperatorTemplate, DatabasePath, operator.db = ""
    PROVE  /\ DOMAIN rewrite' = DOMAIN OperatorTemplate /\ rewrite'["db"] = "default"
           /\ \A k \in DOMAIN OperatorTemplate : k # "db" => rewrite'[k] = operator[k]
<1>1. rewrite' = [operator EXCEPT !.db = "default"]
  BY DEF DatabasePath
<1> QED
  BY <1>1 DEF OperatorTemplate

\* A rewrite empties the file, or finds it empty and writes it.
LEMMA RewriteEffect ==
    ASSUME ipc = "db_rewrite", Rewrite
    PROVE  /\ UNCHANGED <<args, present, edited, cut, live>>
           /\ \/ operator' = Emptied(operator') /\ UNCHANGED <<ipc, rewrite>>
              \/ operator' = rewrite /\ ipc' = "password"
<1>1. Emptied(Emptied(operator)) = Emptied(operator)
  BY DEF Emptied
<1> QED
  BY <1>1 DEF Rewrite, Goto, fileVars, hostVars, histVars, envVars

LEMMA OperatorKeptStep == EditsAssumption /\ InstallInv /\ [InstallNext]_installVars => OperatorKept'
<1> SUFFICES ASSUME EditsAssumption, InstallInv, [InstallNext]_installVars
             PROVE  OperatorKept'
  OBVIOUS
<1> USE DEF InstallInv, envVars, fileVars, hostVars, histVars,
        RunType, Progress, OperatorKept, KeepsOperator, FromLiveEnv, FromUnits, OperatorTemplate, EditsAssumption
<1>1. CASE Start
  BY <1>1 DEF Start, End
<1>2. CASE Python
  BY <1>2 DEF Python, Goto
<1>3. CASE SeedOperatorEnv
  BY <1>3 DEF SeedOperatorEnv, Goto
<1>4. CASE SeedLiveEnv
  <2>1. /\ ipc = "live_env" /\ ipc' # "db_rewrite" /\ UNCHANGED <<operator, edited, cut>>
        /\ "operator" \notin present' => "operator" \notin present
    BY <1>4 DEF SeedLiveEnv, Goto
  <2> QED
    BY <2>1
<1>5. CASE Rewrite
  <2>1. CASE ipc = "db_rewrite"
    <3>1. "operator" \in present
      BY <2>1
    <3> QED
      BY <1>5, <2>1, <3>1, RewriteEffect
  <2>2. CASE ipc = "live_rewrite"
    <3>1. ipc' # "db_rewrite" /\ UNCHANGED <<present, operator, edited, cut>>
      BY <1>5, <2>2 DEF Rewrite, Goto
    <3> QED
      BY <2>2, <3>1
  <2> QED
    BY <1>5, <2>1, <2>2 DEF Rewrite
<1>6. CASE CheckLiveEnv
  BY <1>6 DEF CheckLiveEnv, Goto, End
<1>7. CASE SeedSecret
  BY <1>7 DEF SeedSecret, Goto, Create, Fill, Filling
<1>8. CASE Units
  BY <1>8 DEF Units, Goto
<1>9. CASE DatabasePath
  <2>1. ipc = "db_path" /\ UNCHANGED <<present, operator, edited, cut>>
    BY <1>9 DEF DatabasePath
  <2>2. CASE operator.db # ""
    BY <1>9, <2>1, <2>2 DEF DatabasePath, Goto
  <2>3. CASE operator.db = ""
    <3>1. ipc' = "db_rewrite" /\ "operator" \in present
      BY <1>9, <2>3 DEF DatabasePath, Goto
    <3>2. /\ DOMAIN rewrite' = DOMAIN OperatorTemplate /\ rewrite'["db"] = "default"
          /\ \A k \in DOMAIN OperatorTemplate : k # "db" => rewrite'[k] = operator[k]
      BY <1>9, <2>3, DefaultDatabase
    <3>3. "operator" \notin cut => KeepsOperator(operator) /\ edited.operator["db"] = ""
      BY <2>1, <2>3
    <3>4. "operator" \notin cut' => KeepsOperator(rewrite)'
      BY <2>1, <3>2, <3>3
    <3> QED
      BY <2>1, <3>1, <3>2, <3>3, <3>4
  <2> QED
    BY <2>2, <2>3
<1>10. CASE SeedPassword
  BY <1>10 DEF SeedPassword, Goto, End, Create, Fill, Filling
<1>11. CASE Migrate
  BY <1>11 DEF Migrate, Goto
<1>12. CASE SeedAdmin
  BY <1>12 DEF SeedAdmin, Goto, End
<1>13. CASE StartServices
  BY <1>13 DEF StartServices, Goto, End, Started, Preflight
<1>14. CASE Checks
  BY <1>14 DEF Checks, End
<1>15. CASE StackBootstrap
  BY <1>15 DEF StackBootstrap, End, Started, Preflight
<1>16. CASE Fault
  BY <1>16 DEF Fault, End, Emptied
<1>17. CASE Edit
  BY <1>17 DEF Edit, Edited
<1>18. CASE Provide
  BY <1>18 DEF Provide
<1>19. CASE Reboot
  BY <1>19 DEF Reboot, Started, Preflight
<1>20. CASE Supervise
  BY <1>20 DEF Supervise, Started, Preflight
<1>21. CASE UNCHANGED installVars
  BY <1>21 DEF installVars
<1> QED
  BY <1>1, <1>2, <1>3, <1>4, <1>5, <1>6, <1>7, <1>8, <1>9, <1>10, <1>11, <1>12, <1>13, <1>14, <1>15, <1>16, <1>17, <1>18, <1>19, <1>20, <1>21 DEF InstallNext, ScriptStep

LEMMA LiveKeptStep == EditsAssumption /\ InstallInv /\ [InstallNext]_installVars => LiveKept'
<1> SUFFICES ASSUME EditsAssumption, InstallInv, [InstallNext]_installVars
             PROVE  LiveKept'
  OBVIOUS
<1> USE DEF InstallInv, envVars, fileVars, hostVars, histVars,
        RunType, Progress, LiveKept, KeepsLive, FromLiveEnv, FromUnits, LiveTemplate, EditsAssumption
<1>1. CASE Start
  BY <1>1 DEF Start, End
<1>2. CASE Python
  BY <1>2 DEF Python, Goto
<1>3. CASE SeedOperatorEnv
  BY <1>3 DEF SeedOperatorEnv, Goto
<1>4. CASE SeedLiveEnv
  <2> DEFINE seeded == IF "live" \in present THEN live ELSE LiveTemplate
  <2>1. CASE ~args.full
    BY <1>4, <2>1 DEF SeedLiveEnv, Goto
  <2>2. CASE args.full
    <3>1. /\ ipc' = "live_rewrite" /\ live' = seeded /\ present' = present \cup {"live"}
          /\ rewrite' = [seeded EXCEPT !.paths = "canonical",
                           !.dumpcap = IF args.dumpcap THEN "given" ELSE @]
          /\ UNCHANGED <<edited, cut>>
      BY <1>4, <2>2 DEF SeedLiveEnv, Goto
    <3>2. seeded = live
      OBVIOUS
    <3>3. /\ DOMAIN rewrite' = DOMAIN LiveTemplate /\ rewrite'["paths"] # ""
          /\ rewrite'["iface"] = live.iface
          /\ rewrite'["dumpcap"] \in {live.dumpcap, "given"}
      BY <3>1, <3>2
    <3> QED
      BY <1>4, <3>1, <3>2, <3>3 DEF SeedLiveEnv
  <2> QED
    BY <2>1, <2>2
<1>5. CASE Rewrite
  BY <1>5 DEF Rewrite, Goto, Emptied
<1>6. CASE CheckLiveEnv
  BY <1>6 DEF CheckLiveEnv, Goto, End
<1>7. CASE SeedSecret
  BY <1>7 DEF SeedSecret, Goto, Create, Fill, Filling
<1>8. CASE Units
  BY <1>8 DEF Units, Goto
<1>9. CASE DatabasePath
  BY <1>9 DEF DatabasePath, Goto
<1>10. CASE SeedPassword
  BY <1>10 DEF SeedPassword, Goto, End, Create, Fill, Filling
<1>11. CASE Migrate
  BY <1>11 DEF Migrate, Goto
<1>12. CASE SeedAdmin
  BY <1>12 DEF SeedAdmin, Goto, End
<1>13. CASE StartServices
  BY <1>13 DEF StartServices, Goto, End, Started, Preflight
<1>14. CASE Checks
  BY <1>14 DEF Checks, End
<1>15. CASE StackBootstrap
  BY <1>15 DEF StackBootstrap, End, Started, Preflight
<1>16. CASE Fault
  BY <1>16 DEF Fault, End, Emptied
<1>17. CASE Edit
  BY <1>17 DEF Edit, Edited
<1>18. CASE Provide
  BY <1>18 DEF Provide
<1>19. CASE Reboot
  BY <1>19 DEF Reboot, Started, Preflight
<1>20. CASE Supervise
  BY <1>20 DEF Supervise, Started, Preflight
<1>21. CASE UNCHANGED installVars
  BY <1>21 DEF installVars
<1> QED
  BY <1>1, <1>2, <1>3, <1>4, <1>5, <1>6, <1>7, <1>8, <1>9, <1>10, <1>11, <1>12, <1>13, <1>14, <1>15, <1>16, <1>17, <1>18, <1>19, <1>20, <1>21 DEF InstallNext, ScriptStep

LEMMA ConsoleStaffedStep == EditsAssumption /\ InstallInv /\ [InstallNext]_installVars => ConsoleStaffed'
<1> SUFFICES ASSUME EditsAssumption, InstallInv, [InstallNext]_installVars
             PROVE  ConsoleStaffed'
  OBVIOUS
<1> USE DEF InstallInv, envVars, fileVars, hostVars, histVars,
        RunType, Progress, ConsoleStaffed, FromStart, FromPassword, FromUnits, FromLiveEnv
<1>1. CASE Start
  BY <1>1 DEF Start, End
<1>2. CASE Python
  BY <1>2 DEF Python, Goto
<1>3. CASE SeedOperatorEnv
  BY <1>3 DEF SeedOperatorEnv, Goto
<1>4. CASE SeedLiveEnv
  BY <1>4 DEF SeedLiveEnv, Goto
<1>5. CASE Rewrite
  BY <1>5 DEF Rewrite, Goto, Emptied
<1>6. CASE CheckLiveEnv
  BY <1>6 DEF CheckLiveEnv, Goto, End
<1>7. CASE SeedSecret
  BY <1>7 DEF SeedSecret, Goto, Create, Fill, Filling
<1>8. CASE Units
  BY <1>8 DEF Units, Goto
<1>9. CASE DatabasePath
  BY <1>9 DEF DatabasePath, Goto
<1>10. CASE SeedPassword
  BY <1>10 DEF SeedPassword, Goto, End, Create, Fill, Filling
<1>11. CASE Migrate
  BY <1>11 DEF Migrate, Goto
<1>12. CASE SeedAdmin
  BY <1>12 DEF SeedAdmin, Goto, End
<1>13. CASE StartServices
  BY <1>13 DEF StartServices, Goto, End, Started, Preflight
<1>14. CASE Checks
  BY <1>14 DEF Checks, End
<1>15. CASE StackBootstrap
  BY <1>15 DEF StackBootstrap, End, Started, Preflight
<1>16. CASE Fault
  BY <1>16 DEF Fault, End, Emptied
<1>17. CASE Edit
  BY <1>17 DEF Edit
<1>18. CASE Provide
  BY <1>18 DEF Provide
<1>19. CASE Reboot
  BY <1>19 DEF Reboot, Started, Preflight
<1>20. CASE Supervise
  BY <1>20 DEF Supervise, Started, Preflight
<1>21. CASE UNCHANGED installVars
  BY <1>21 DEF installVars
<1> QED
  BY <1>1, <1>2, <1>3, <1>4, <1>5, <1>6, <1>7, <1>8, <1>9, <1>10, <1>11, <1>12, <1>13, <1>14, <1>15, <1>16, <1>17, <1>18, <1>19, <1>20, <1>21 DEF InstallNext, ScriptStep

LEMMA InvStep == EditsAssumption /\ InstallInv /\ [InstallNext]_installVars => InstallInv'
BY RunTypeStep, ProgressStep, OperatorKeptStep, LiveKeptStep, ConsoleStaffedStep DEF InstallInv

-----------------------------------------------------------------------------
(* What the operator wrote outlives any number of runs, complete, failed or *)
(* killed, unless one was killed in the middle of rewriting that file.       *)
THEOREM EditsOutliveRuns == InstallSpec => []EditsSurvive
<1>1. EditsAssumption
  BY EditsAssumption
<1>2. InstallInv => EditsSurvive
  BY DEF InstallInv, RunType, OperatorKept, LiveKept, KeepsOperator, KeepsLive, EditsSurvive
<1> QED
  BY <1>1, <1>2, InvInit, InvStep, PTL DEF InstallSpec

(* A run in console mode that answers complete leaves a console that has its *)
(* secret, schema and admin and runs, or one that names the blank token file. *)
THEOREM CompleteIsReady == InstallSpec => CompleteMeansReady
<1>1. EditsAssumption
  BY EditsAssumption
<1>2. ASSUME InstallInv, [InstallNext]_installVars
      PROVE  [outcome' = "complete" /\ ipc = "checks" /\ ~args.skip =>
                /\ schema /\ admin /\ "secret" \in filled
                /\ console = "up" \/ operator.token = "file"]_installVars
  <2> SUFFICES ASSUME ipc = "checks", ~args.skip
               PROVE  /\ schema /\ admin /\ "secret" \in filled
                      /\ console = "up" \/ operator.token = "file"
    OBVIOUS
  <2> QED
    BY <1>2 DEF InstallInv, Progress, ConsoleStaffed, FromStart
<1> QED
  BY <1>1, <1>2, InvInit, InvStep, PTL DEF InstallSpec, CompleteMeansReady

(* Reruns are repeatable: whatever runs came before and wherever they stopped, *)
(* a run that fails has one of the listed causes.                             *)
THEOREM RunsFailForCause == InstallSpec => InstallFailsForCause
<1> DEFINE Cause ==
       \/ broken' \/ cut # {}
       \/ ~args.create /\ ~({"secret", "password"} \subseteq present)
       \/ ({"secret", "password"} \cap present) \ filled # {}
       \/ ipc = "live_check" /\ \E k \in DOMAIN live : edited.live[k] = ""
       \/ ipc = "stack"
       \/ ipc = "start" /\ edited.operator.inputs \in {"", "sensor_log"}
<1>1. EditsAssumption
  BY EditsAssumption
<1>2. ASSUME InstallInv, [InstallNext]_installVars
      PROVE  [outcome' = "failed" /\ ipc # "idle" => Cause]_installVars
  <2> SUFFICES ASSUME outcome' = "failed", ipc # "idle", cut = {}
               PROVE  Cause
    OBVIOUS
  <2>1. outcome = "none"
    BY <1>2 DEF InstallInv, RunType
  <2>2. CASE Fault
    BY <2>2 DEF Fault
  <2>3. CASE CheckLiveEnv
    <3>1. PICK k \in DOMAIN live : live[k] = ""
      BY <2>1, <2>3 DEF CheckLiveEnv, Goto
    <3>2. KeepsLive(live) /\ live.paths # "" /\ DOMAIN live = {"iface", "paths", "dumpcap"}
      BY <1>2, <2>3 DEF CheckLiveEnv, InstallInv, RunType, LiveKept, LiveTemplate
    <3>3. edited.live[k] = ""
      BY <3>1, <3>2 DEF KeepsLive
    <3> QED
      BY <2>3, <3>1, <3>3 DEF CheckLiveEnv
  <2>4. CASE SeedPassword
    BY <2>1, <2>4 DEF SeedPassword, Fill, Create, Goto, Filling
  <2>5. CASE SeedAdmin
    <3>1. "password" \in present
      BY <1>2, <2>5 DEF SeedAdmin, InstallInv, Progress
    <3> QED
      BY <2>1, <2>5, <3>1 DEF SeedAdmin, Goto
  <2>6. CASE StartServices
    <3>1. /\ venv = "ready" /\ operator.db # "" /\ schema /\ admin
          /\ args.create => "secret" \in present
      BY <1>2, <2>6 DEF StartServices, InstallInv, Progress, FromStart, FromPassword, FromUnits,
                        FromLiveEnv
    <3>2. ~Preflight(schema, admin)
      BY <2>1, <2>6 DEF StartServices, Goto
    <3>3. KeepsOperator(operator)
      BY <1>2, <2>6 DEF StartServices, InstallInv, OperatorKept
    <3>4. operator.inputs = edited.operator.inputs
      BY <3>3 DEF KeepsOperator, OperatorTemplate
    <3> QED
      BY <2>6, <3>1, <3>2, <3>4 DEF StartServices, Preflight
  <2>7. CASE Checks
    BY <1>2, <2>7 DEF Checks, End, InstallInv, Progress, FromStart
  <2>8. CASE StackBootstrap
    BY <2>8 DEF StackBootstrap
  <2>9. CASE \/ Start \/ Edit \/ Provide \/ Reboot \/ Supervise \/ UNCHANGED installVars
    BY <2>1, <2>9 DEF Start, Edit, Provide, Reboot, Supervise, installVars
  <2>10. CASE \/ Python \/ SeedOperatorEnv \/ SeedLiveEnv \/ Rewrite \/ SeedSecret \/ Units
              \/ DatabasePath \/ Migrate
    BY <2>1, <2>10 DEF Python, SeedOperatorEnv, SeedLiveEnv, Rewrite, SeedSecret, Create, Fill,
                       Units, DatabasePath, Migrate, Goto
  <2> QED
    BY <1>2, <2>2, <2>3, <2>4, <2>5, <2>6, <2>7, <2>8, <2>9, <2>10 DEF InstallNext, ScriptStep
<1> QED
  BY <1>1, <1>2, InvInit, InvStep, PTL DEF InstallSpec, InstallFailsForCause

-----------------------------------------------------------------------------
(* The console's store.                                                   *)
\* A store carries a version only with its tables, and one that ever had an
\* operator schema still has the first version's tables.
Sound(store) ==
    store # Missing => /\ store.version = CURRENT_SCHEMA_VERSION => store.tables = 3
                       /\ ~store.fresh => store.tables >= 2

StoresSound ==
    /\ Sound(db) /\ Sound(saved) /\ Sound(temp)
    /\ \A b \in Slots : Sound(snapshot[b])

\* What a command has established by the step it is at.
MigrationShape ==
    /\ pc \in {"scripting", "adding settings", "stamping"} => db # Missing
    /\ pc = "stamping" => db.tables = 3

BackupShape ==
    /\ pc = "copying" => slot \in Slots /\ stage[slot] = "dir" /\ RuntimeReady(db)
    /\ pc = "recording" => slot \in Slots /\ RuntimeReady(snapshot[slot])

RestoreShape ==
    /\ Offline => ~up /\ cycle = "idle"
    /\ pc \in {"unlinking", "moving aside"} => was = db
    /\ pc = "placing" => was \in {db, saved}

CycleShape == cycle # "idle" => db # Missing

StoreInv ==
    /\ StoresSound /\ MigrationShape /\ BackupShape /\ RestoreShape /\ CycleShape
    /\ RestorableIsReady

-----------------------------------------------------------------------------
\* Records of stores, and what each write of the code makes of one.
LEMMA NewStore ==
  ASSUME NEW t \in 0..3, NEW v \in {0, 2, 3}, NEW a \in BOOLEAN, NEW f \in BOOLEAN
  PROVE  [tables |-> t, version |-> v, admin |-> a, rows |-> 0, fresh |-> f] \in Stores
<1>1. 0 \in 0..MaxWrites
  BY StoreAssumption
<1> QED
  BY <1>1, Zenon DEF Stores

LEMMA EmptyIsStore == EmptyStore \in Stores /\ EmptyStore # Missing
<1>1. 0 \in 0..3 /\ 0 \in {0, 2, 3}
  OBVIOUS
<1>2. EmptyStore \in Stores
  BY <1>1, NewStore DEF EmptyStore
<1> QED
  BY <1>2, MissingAssumption

LEMMA StoreWrites ==
  ASSUME NEW store \in Stores
  PROVE  /\ Extended(store) \in Stores
         /\ [store EXCEPT !.tables = 3] \in Stores
         /\ [store EXCEPT !.version = CURRENT_SCHEMA_VERSION] \in Stores
         /\ [store EXCEPT !.admin = TRUE] \in Stores
         /\ store.rows < MaxWrites => [store EXCEPT !.rows = @ + 1] \in Stores
<1>1. /\ store.tables \in 0..3 /\ store.rows \in 0..MaxWrites
      /\ store.tables < 3 => store.tables + 1 \in 0..3
      /\ store.rows < MaxWrites => store.rows + 1 \in 0..MaxWrites
      /\ 3 \in 0..3
  BY StoreAssumption DEF Stores
<1>2. \A t \in 0..3 : [store EXCEPT !.tables = t] \in Stores
  BY Zenon DEF Stores
<1>3. Extended(store) \in Stores
  BY <1>1, <1>2 DEF Extended
<1>4. 3 \in {0, 2, 3} /\ TRUE \in BOOLEAN
  OBVIOUS
<1>5. [store EXCEPT !.version = CURRENT_SCHEMA_VERSION] \in Stores
  BY <1>4, Zenon DEF Stores, CURRENT_SCHEMA_VERSION
<1>6. [store EXCEPT !.admin = TRUE] \in Stores
  BY <1>4, Zenon DEF Stores
<1>7. \A r \in 0..MaxWrites : [store EXCEPT !.rows = r] \in Stores
  BY Zenon DEF Stores
<1> QED
  BY <1>1, <1>2, <1>3, <1>5, <1>6, <1>7

LEMMA InitTypeOK == Init => TypeOK
<1> SUFFICES ASSUME Init PROVE TypeOK
  OBVIOUS
<1>1. 2 \in 0..3 /\ 3 \in 0..3 /\ {0, 2, 3} \subseteq {0, 2, 3} /\ {TRUE, FALSE} \subseteq BOOLEAN
  OBVIOUS
<1>2. db \in Stores \cup {Missing}
  BY <1>1, NewStore DEF Init
<1>3. /\ {db, saved, temp, was} \subseteq Stores \cup {Missing}
      /\ snapshot \in [Slots -> Stores \cup {Missing}]
  BY <1>2 DEF Init
<1>4. slot \in 0..MaxBackups
  BY StoreAssumption DEF Init
<1> QED
  BY <1>3, <1>4 DEF Init, TypeOK

LEMMA InspectRange ==
  ASSUME NEW store
  PROVE  Inspect(store) \in {"missing", "empty", "legacy-v1", "needs-migration", "current",
                             "unknown"}
  BY DEF Inspect

\* assert_runtime_ready, in terms of the store.
LEMMA ReadyMeans ==
  ASSUME NEW store \in Stores \cup {Missing}
  PROVE  /\ RuntimeReady(store) <=>
              store # Missing /\ store.version = CURRENT_SCHEMA_VERSION /\ store.admin
         /\ Inspect(store) = "current" <=>
              store # Missing /\ store.version = CURRENT_SCHEMA_VERSION
<1>1. CASE store = Missing
  BY <1>1 DEF RuntimeReady, Inspect
<1>2. CASE store # Missing /\ store.version = CURRENT_SCHEMA_VERSION
  <2>1. Inspect(store) = "current"
    BY <1>2 DEF Inspect, CURRENT_SCHEMA_VERSION
  <2> QED
    BY <1>2, <2>1 DEF RuntimeReady
<1>3. CASE store # Missing /\ store.version # CURRENT_SCHEMA_VERSION
  <2>1. Inspect(store) # "current"
    BY <1>3 DEF Inspect, CURRENT_SCHEMA_VERSION, Stores
  <2> QED
    BY <1>3, <2>1 DEF RuntimeReady
<1> QED
  BY <1>1, <1>2, <1>3

\* What the writes do to a sound store, and to one that is ready.
LEMMA WritesKeep ==
  ASSUME NEW store \in Stores, Sound(store)
  PROVE  /\ Sound(Extended(store))
         /\ Sound([store EXCEPT !.tables = 3])
         /\ store.tables = 3 => Sound([store EXCEPT !.version = CURRENT_SCHEMA_VERSION])
         /\ Sound([store EXCEPT !.admin = TRUE])
         /\ store.rows < MaxWrites => Sound([store EXCEPT !.rows = @ + 1])
<1> USE MissingAssumption, StoreWrites DEF Sound, Stores
<1>1. Sound(Extended(store))
  BY DEF Extended
<1>2. Sound([store EXCEPT !.tables = 3])
  OBVIOUS
<1>3. store.tables = 3 => Sound([store EXCEPT !.version = CURRENT_SCHEMA_VERSION])
  OBVIOUS
<1>4. Sound([store EXCEPT !.admin = TRUE])
  OBVIOUS
<1>5. store.rows < MaxWrites => Sound([store EXCEPT !.rows = @ + 1])
  OBVIOUS
<1> QED
  BY <1>1, <1>2, <1>3, <1>4, <1>5

LEMMA WritesKeepReady ==
  ASSUME NEW store \in Stores, RuntimeReady(store)
  PROVE  /\ RuntimeReady(Extended(store))
         /\ RuntimeReady([store EXCEPT !.tables = 3])
         /\ RuntimeReady([store EXCEPT !.version = CURRENT_SCHEMA_VERSION])
         /\ RuntimeReady([store EXCEPT !.admin = TRUE])
         /\ store.rows < MaxWrites => RuntimeReady([store EXCEPT !.rows = @ + 1])
<1>1. store.version = CURRENT_SCHEMA_VERSION /\ store.admin
  BY ReadyMeans
<1>2. /\ Extended(store).version = store.version /\ Extended(store).admin = store.admin
  BY Zenon DEF Extended, Stores
<1>3. RuntimeReady(Extended(store))
  BY <1>1, <1>2, StoreWrites, ReadyMeans, MissingAssumption
<1>4. RuntimeReady([store EXCEPT !.tables = 3])
  <2> DEFINE t == [store EXCEPT !.tables = 3]
  <2>1. t.version = store.version /\ t.admin = store.admin
    BY Zenon DEF Stores
  <2> QED
    BY <1>1, <2>1, StoreWrites, ReadyMeans, MissingAssumption
<1>5. RuntimeReady([store EXCEPT !.version = CURRENT_SCHEMA_VERSION])
  <2> DEFINE t == [store EXCEPT !.version = CURRENT_SCHEMA_VERSION]
  <2>1. t.version = CURRENT_SCHEMA_VERSION /\ t.admin = store.admin
    BY Zenon DEF Stores
  <2> QED
    BY <1>1, <2>1, StoreWrites, ReadyMeans, MissingAssumption
<1>6. RuntimeReady([store EXCEPT !.admin = TRUE])
  <2> DEFINE t == [store EXCEPT !.admin = TRUE]
  <2>1. t.version = store.version /\ t.admin = TRUE
    BY Zenon DEF Stores
  <2> QED
    BY <1>1, <2>1, StoreWrites, ReadyMeans, MissingAssumption
<1>7. store.rows < MaxWrites => RuntimeReady([store EXCEPT !.rows = @ + 1])
  <2> DEFINE t == [store EXCEPT !.rows = @ + 1]
  <2>1. t.version = store.version /\ t.admin = store.admin
    BY Zenon DEF Stores
  <2> QED
    BY <1>1, <2>1, StoreWrites, ReadyMeans, MissingAssumption
<1> QED
  BY <1>3, <1>4, <1>5, <1>6, <1>7

-----------------------------------------------------------------------------
IInv == TypeOK /\ StoreInv

LEMMA InitIInv == Init => IInv
<1> SUFFICES ASSUME Init PROVE IInv
  OBVIOUS
<1>1. StoresSound
  BY DEF Init, StoresSound, Sound, CURRENT_SCHEMA_VERSION
<1>2. MigrationShape /\ BackupShape /\ RestoreShape /\ CycleShape
  BY DEF Init, MigrationShape, BackupShape, RestoreShape, CycleShape, Offline
<1>3. RestorableIsReady
  BY DEF Init, RestorableIsReady, Restorable
<1> QED
  BY <1>1, <1>2, <1>3, InitTypeOK DEF IInv, StoreInv

(* migrate and bootstrap-admin.                                            *)

LEMMA BeginMigrateStep ==
  ASSUME IInv, NEW allowBootstrap \in BOOLEAN, BeginMigrate(allowBootstrap)
  PROVE  IInv'
<1> USE DEF IInv, StoreInv, backupVars, consoleVars
<1>1. /\ db' = (IF db = Missing THEN EmptyStore ELSE db)
      /\ pc' \in {"scripting", "adding settings", "stamping"}
      /\ pc' = "stamping" => Inspect(db) = "current"
  BY InspectRange DEF BeginMigrate
<1>2. TypeOK'
  BY <1>1, EmptyIsStore DEF BeginMigrate, TypeOK
<1>3. StoresSound'
  <2>1. Sound(db')
    BY <1>1 DEF StoresSound, Sound, EmptyStore, CURRENT_SCHEMA_VERSION
  <2> QED
    BY <2>1 DEF BeginMigrate, StoresSound, Sound
<1>4. MigrationShape'
  BY <1>1, EmptyIsStore, ReadyMeans DEF MigrationShape, TypeOK, StoresSound, Sound
<1>5. BackupShape' /\ RestoreShape' /\ CycleShape'
  BY <1>1, EmptyIsStore DEF BeginMigrate, BackupShape, RestoreShape, Offline, CycleShape
<1>6. RestorableIsReady'
  BY <1>1, ReadyMeans DEF BeginMigrate, RestorableIsReady, Restorable, TypeOK
<1> QED
  BY <1>2, <1>3, <1>4, <1>5, <1>6

LEMMA RunScriptStep == IInv /\ RunScript => IInv'
<1> SUFFICES ASSUME IInv, RunScript PROVE IInv'
  OBVIOUS
<1> USE DEF IInv, StoreInv, backupVars, consoleVars
<1>1. db \in Stores /\ db' \in Stores /\ db' # Missing
  BY StoreWrites, MissingAssumption, ReadyMeans DEF RunScript, TypeOK, MigrationShape
<1>2. TypeOK'
  BY <1>1 DEF RunScript, TypeOK, Extended
<1>3. StoresSound'
  <2>1. Sound(db')
    BY <1>1, WritesKeep DEF RunScript, StoresSound, MigrationShape
  <2> QED
    BY <2>1 DEF RunScript, StoresSound, Sound
<1>4. MigrationShape' /\ BackupShape' /\ RestoreShape' /\ CycleShape'
  BY <1>1 DEF RunScript, MigrationShape, BackupShape, RestoreShape, Offline, CycleShape, Extended, Stores
<1>5. RestorableIsReady'
  <2>1. up => RuntimeReady(db')
    BY <1>1, WritesKeepReady DEF RunScript, RestorableIsReady
  <2> QED
    BY <2>1 DEF RunScript, RestorableIsReady, Restorable
<1> QED
  BY <1>2, <1>3, <1>4, <1>5

LEMMA AddSettingsStep == IInv /\ AddSettings => IInv'
<1> SUFFICES ASSUME IInv, AddSettings PROVE IInv'
  OBVIOUS
<1> USE DEF IInv, StoreInv, backupVars, consoleVars
<1>1. db \in Stores /\ db' \in Stores /\ db' # Missing
  BY StoreWrites, MissingAssumption, ReadyMeans DEF AddSettings, TypeOK, MigrationShape
<1>2. TypeOK'
  BY <1>1 DEF AddSettings, TypeOK, Extended
<1>3. StoresSound'
  <2>1. Sound(db')
    BY <1>1, WritesKeep DEF AddSettings, StoresSound, MigrationShape
  <2> QED
    BY <2>1 DEF AddSettings, StoresSound, Sound
<1>4. MigrationShape' /\ BackupShape' /\ RestoreShape' /\ CycleShape'
  BY <1>1 DEF AddSettings, MigrationShape, BackupShape, RestoreShape, Offline, CycleShape, Extended, Stores
<1>5. RestorableIsReady'
  <2>1. up => RuntimeReady(db')
    BY <1>1, WritesKeepReady DEF AddSettings, RestorableIsReady
  <2> QED
    BY <2>1 DEF AddSettings, RestorableIsReady, Restorable
<1> QED
  BY <1>2, <1>3, <1>4, <1>5

LEMMA StampVersionStep == IInv /\ StampVersion => IInv'
<1> SUFFICES ASSUME IInv, StampVersion PROVE IInv'
  OBVIOUS
<1> USE DEF IInv, StoreInv, backupVars, consoleVars
<1>1. db \in Stores /\ db' \in Stores /\ db' # Missing
  BY StoreWrites, MissingAssumption, ReadyMeans DEF StampVersion, TypeOK, MigrationShape
<1>2. TypeOK'
  BY <1>1 DEF StampVersion, TypeOK, Extended
<1>3. StoresSound'
  <2>1. Sound(db')
    BY <1>1, WritesKeep DEF StampVersion, StoresSound, MigrationShape
  <2> QED
    BY <2>1 DEF StampVersion, StoresSound, Sound
<1>4. MigrationShape' /\ BackupShape' /\ RestoreShape' /\ CycleShape'
  BY <1>1 DEF StampVersion, MigrationShape, BackupShape, RestoreShape, Offline, CycleShape, Extended, Stores
<1>5. RestorableIsReady'
  <2>1. up => RuntimeReady(db')
    BY <1>1, WritesKeepReady DEF StampVersion, RestorableIsReady
  <2> QED
    BY <2>1 DEF StampVersion, RestorableIsReady, Restorable
<1> QED
  BY <1>2, <1>3, <1>4, <1>5

LEMMA BootstrapAdminStep == IInv /\ BootstrapAdmin => IInv'
<1> SUFFICES ASSUME IInv, BootstrapAdmin PROVE IInv'
  OBVIOUS
<1> USE DEF IInv, StoreInv, backupVars, consoleVars
<1>1. db \in Stores /\ db' \in Stores /\ db' # Missing
  BY StoreWrites, MissingAssumption, ReadyMeans DEF BootstrapAdmin, TypeOK, MigrationShape
<1>2. TypeOK'
  BY <1>1 DEF BootstrapAdmin, TypeOK, Extended
<1>3. StoresSound'
  <2>1. Sound(db')
    BY <1>1, WritesKeep DEF BootstrapAdmin, StoresSound, MigrationShape
  <2> QED
    BY <2>1 DEF BootstrapAdmin, StoresSound, Sound
<1>4. MigrationShape' /\ BackupShape' /\ RestoreShape' /\ CycleShape'
  BY <1>1 DEF BootstrapAdmin, MigrationShape, BackupShape, RestoreShape, Offline, CycleShape, Extended, Stores
<1>5. RestorableIsReady'
  <2>1. up => RuntimeReady(db')
    BY <1>1, WritesKeepReady DEF BootstrapAdmin, RestorableIsReady
  <2> QED
    BY <2>1 DEF BootstrapAdmin, RestorableIsReady, Restorable
<1> QED
  BY <1>2, <1>3, <1>4, <1>5

(* backup, restore and prune-retention.                                    *)

LEMMA BeginBackupStep ==
  ASSUME IInv, BeginBackup
  PROVE  IInv'
<1> USE DEF IInv, StoreInv, backupVars, consoleVars
<1>1. TypeOK'
  BY StoreAssumption DEF BeginBackup, TypeOK, Slots
<1>2. StoresSound'
  BY DEF BeginBackup, StoresSound, Sound, TypeOK
<1>3. MigrationShape' /\ BackupShape' /\ RestoreShape' /\ CycleShape'
  BY StoreAssumption DEF BeginBackup, MigrationShape, BackupShape, RestoreShape, Offline, CycleShape, TypeOK, Slots
<1>4. RestorableIsReady'
  BY DEF BeginBackup, RestorableIsReady, Restorable, TypeOK
<1> QED
  BY <1>1, <1>2, <1>3, <1>4

LEMMA CopyStoreStep ==
  ASSUME IInv, CopyStore
  PROVE  IInv'
<1> USE DEF IInv, StoreInv, backupVars, consoleVars
<1>1. TypeOK'
  BY StoreAssumption DEF CopyStore, TypeOK, Slots
<1>2. StoresSound'
  BY DEF CopyStore, StoresSound, Sound, TypeOK
<1>3. MigrationShape' /\ BackupShape' /\ RestoreShape' /\ CycleShape'
  BY DEF CopyStore, MigrationShape, BackupShape, RestoreShape, Offline, CycleShape, TypeOK, Slots
<1>4. RestorableIsReady'
  BY DEF CopyStore, BackupShape, RestorableIsReady, Restorable, TypeOK
<1> QED
  BY <1>1, <1>2, <1>3, <1>4

LEMMA FinishBackupStep ==
  ASSUME IInv, FinishBackup
  PROVE  IInv'
<1> USE DEF IInv, StoreInv, backupVars, consoleVars
<1>1. TypeOK'
  BY StoreAssumption DEF FinishBackup, TypeOK, Slots
<1>2. StoresSound'
  BY DEF FinishBackup, StoresSound, Sound, TypeOK
<1>3. MigrationShape' /\ BackupShape' /\ RestoreShape' /\ CycleShape'
  BY DEF FinishBackup, MigrationShape, BackupShape, RestoreShape, Offline, CycleShape, TypeOK, Slots
<1>4. RestorableIsReady'
  BY DEF FinishBackup, BackupShape, RestorableIsReady, Restorable, TypeOK
<1> QED
  BY <1>1, <1>2, <1>3, <1>4

LEMMA BeginRestoreStep ==
  ASSUME IInv, NEW b \in Slots, BeginRestore(b)
  PROVE  IInv'
<1> USE DEF IInv, StoreInv, backupVars, consoleVars
<1>1. TypeOK'
  BY StoreAssumption DEF BeginRestore, TypeOK, Slots
<1>2. StoresSound'
  BY DEF BeginRestore, StoresSound, Sound, TypeOK
<1>3. MigrationShape' /\ BackupShape' /\ RestoreShape' /\ CycleShape'
  BY DEF BeginRestore, MigrationShape, BackupShape, RestoreShape, Offline, CycleShape, TypeOK, Slots
<1>4. RestorableIsReady'
  BY DEF BeginRestore, RestorableIsReady, Restorable, TypeOK
<1> QED
  BY <1>1, <1>2, <1>3, <1>4

LEMMA UnlinkSavedStep ==
  ASSUME IInv, UnlinkSaved
  PROVE  IInv'
<1> USE DEF IInv, StoreInv, backupVars, consoleVars
<1>1. TypeOK'
  BY StoreAssumption DEF UnlinkSaved, TypeOK, Slots
<1>2. StoresSound'
  BY DEF UnlinkSaved, StoresSound, Sound, TypeOK
<1>3. MigrationShape' /\ BackupShape' /\ RestoreShape' /\ CycleShape'
  BY DEF UnlinkSaved, MigrationShape, BackupShape, RestoreShape, Offline, CycleShape, TypeOK, Slots
<1>4. RestorableIsReady'
  BY DEF UnlinkSaved, RestorableIsReady, Restorable, TypeOK
<1> QED
  BY <1>1, <1>2, <1>3, <1>4

LEMMA MoveAsideStep ==
  ASSUME IInv, MoveAside
  PROVE  IInv'
<1> USE DEF IInv, StoreInv, backupVars, consoleVars
<1>1. TypeOK'
  BY StoreAssumption DEF MoveAside, TypeOK, Slots
<1>2. StoresSound'
  BY DEF MoveAside, StoresSound, Sound, TypeOK
<1>3. MigrationShape' /\ BackupShape' /\ RestoreShape' /\ CycleShape'
  BY DEF MoveAside, MigrationShape, BackupShape, RestoreShape, Offline, CycleShape, TypeOK, Slots
<1>4. RestorableIsReady'
  BY DEF MoveAside, RestoreShape, Offline, RestorableIsReady, Restorable
<1> QED
  BY <1>1, <1>2, <1>3, <1>4

LEMMA PlaceRestoredStep ==
  ASSUME IInv, PlaceRestored
  PROVE  IInv'
<1> USE DEF IInv, StoreInv, backupVars, consoleVars
<1>1. TypeOK'
  BY StoreAssumption DEF PlaceRestored, TypeOK, Slots
<1>2. StoresSound'
  BY DEF PlaceRestored, StoresSound, Sound, TypeOK
<1>3. MigrationShape' /\ BackupShape' /\ RestoreShape' /\ CycleShape'
  BY DEF PlaceRestored, MigrationShape, BackupShape, RestoreShape, Offline, CycleShape, TypeOK, Slots
<1>4. RestorableIsReady'
  BY DEF PlaceRestored, RestoreShape, Offline, RestorableIsReady, Restorable, TypeOK
<1> QED
  BY <1>1, <1>2, <1>3, <1>4

LEMMA PlaceFailsStep ==
  ASSUME IInv, PlaceFails
  PROVE  IInv'
<1> USE DEF IInv, StoreInv, backupVars, consoleVars
<1>1. TypeOK'
  BY StoreAssumption DEF PlaceFails, TypeOK, Slots
<1>2. StoresSound'
  BY DEF PlaceFails, StoresSound, Sound, TypeOK
<1>3. MigrationShape' /\ BackupShape' /\ RestoreShape' /\ CycleShape'
  BY DEF PlaceFails, MigrationShape, BackupShape, RestoreShape, Offline, CycleShape, TypeOK, Slots
<1>4. RestorableIsReady'
  BY DEF PlaceFails, RestoreShape, Offline, RestorableIsReady, Restorable, TypeOK
<1> QED
  BY <1>1, <1>2, <1>3, <1>4

LEMMA BeginPruneStep ==
  ASSUME IInv, BeginPrune
  PROVE  IInv'
<1> USE DEF IInv, StoreInv, backupVars, consoleVars
<1>1. TypeOK'
  BY DEF BeginPrune, TypeOK, Stale, Directories
<1>2. StoresSound'
  BY DEF BeginPrune, StoresSound, Sound, TypeOK
<1>3. MigrationShape' /\ BackupShape' /\ RestoreShape' /\ CycleShape'
  BY DEF BeginPrune, MigrationShape, BackupShape, RestoreShape, Offline, CycleShape, TypeOK, Slots
<1>4. RestorableIsReady'
  BY DEF BeginPrune, RestorableIsReady, Restorable, TypeOK
<1> QED
  BY <1>1, <1>2, <1>3, <1>4

LEMMA PruneNextStep ==
  ASSUME IInv, PruneNext
  PROVE  IInv'
<1> USE DEF IInv, StoreInv, backupVars, consoleVars
<1>1. TypeOK'
  BY StoreAssumption DEF PruneNext, TypeOK, Slots
<1>2. StoresSound'
  BY DEF PruneNext, StoresSound, Sound, TypeOK
<1>3. MigrationShape' /\ BackupShape' /\ RestoreShape' /\ CycleShape'
  BY DEF PruneNext, MigrationShape, BackupShape, RestoreShape, Offline, CycleShape, TypeOK, Slots
<1>4. RestorableIsReady'
  BY DEF PruneNext, RestorableIsReady, Restorable, TypeOK
<1> QED
  BY <1>1, <1>2, <1>3, <1>4

LEMMA CrashStep ==
  ASSUME IInv, Crash
  PROVE  IInv'
<1> USE DEF IInv, StoreInv, backupVars, consoleVars
<1>1. TypeOK'
  BY StoreAssumption DEF Crash, TypeOK, Slots
<1>2. StoresSound'
  BY DEF Crash, StoresSound, Sound, TypeOK
<1>3. MigrationShape' /\ BackupShape' /\ RestoreShape' /\ CycleShape'
  BY DEF Crash, MigrationShape, BackupShape, RestoreShape, Offline, CycleShape, TypeOK, Slots
<1>4. RestorableIsReady'
  BY DEF Crash, RestorableIsReady, Restorable, TypeOK
<1> QED
  BY <1>1, <1>2, <1>3, <1>4

LEMMA StartWebStep ==
  ASSUME IInv, StartWeb
  PROVE  IInv'
<1> USE DEF IInv, StoreInv, backupVars, consoleVars
<1>1. TypeOK'
  BY StoreAssumption DEF StartWeb, TypeOK, Slots
<1>2. StoresSound'
  BY DEF StartWeb, StoresSound, Sound, TypeOK
<1>3. MigrationShape' /\ BackupShape' /\ RestoreShape' /\ CycleShape'
  BY DEF StartWeb, MigrationShape, BackupShape, RestoreShape, Offline, CycleShape, TypeOK, Slots
<1>4. RestorableIsReady'
  BY DEF StartWeb, RestorableIsReady, Restorable, TypeOK
<1> QED
  BY <1>1, <1>2, <1>3, <1>4

LEMMA StopWebStep ==
  ASSUME IInv, StopWeb
  PROVE  IInv'
<1> USE DEF IInv, StoreInv, backupVars, consoleVars
<1>1. TypeOK'
  BY StoreAssumption DEF StopWeb, TypeOK, Slots
<1>2. StoresSound'
  BY DEF StopWeb, StoresSound, Sound, TypeOK
<1>3. MigrationShape' /\ BackupShape' /\ RestoreShape' /\ CycleShape'
  BY DEF StopWeb, MigrationShape, BackupShape, RestoreShape, Offline, CycleShape, TypeOK, Slots
<1>4. RestorableIsReady'
  BY DEF StopWeb, RestorableIsReady, Restorable, TypeOK
<1> QED
  BY <1>1, <1>2, <1>3, <1>4

LEMMA EndCycleStep ==
  ASSUME IInv, EndCycle
  PROVE  IInv'
<1> USE DEF IInv, StoreInv, backupVars, consoleVars
<1>1. TypeOK'
  BY StoreAssumption DEF EndCycle, TypeOK, Slots
<1>2. StoresSound'
  BY DEF EndCycle, StoresSound, Sound, TypeOK
<1>3. MigrationShape' /\ BackupShape' /\ RestoreShape' /\ CycleShape'
  BY DEF EndCycle, MigrationShape, BackupShape, RestoreShape, Offline, CycleShape, TypeOK, Slots
<1>4. RestorableIsReady'
  BY DEF EndCycle, RestorableIsReady, Restorable, TypeOK
<1> QED
  BY <1>1, <1>2, <1>3, <1>4

LEMMA WriteRowStep == IInv /\ WriteRow => IInv'
<1> SUFFICES ASSUME IInv, WriteRow PROVE IInv'
  OBVIOUS
<1> USE DEF IInv, StoreInv, backupVars, consoleVars
<1>1. db \in Stores /\ db' \in Stores /\ db' # Missing
  BY StoreWrites, MissingAssumption, ReadyMeans
     DEF WriteRow, TypeOK, CycleShape, RestorableIsReady
<1>2. TypeOK'
  BY <1>1 DEF WriteRow, TypeOK
<1>3. StoresSound'
  <2>1. Sound(db')
    BY <1>1, WritesKeep DEF WriteRow, StoresSound
  <2> QED
    BY <2>1 DEF WriteRow, StoresSound, Sound
<1>4. MigrationShape' /\ RestoreShape' /\ CycleShape'
  BY <1>1 DEF WriteRow, MigrationShape, RestoreShape, Offline, CycleShape, Stores
<1>5. RuntimeReady(db) => RuntimeReady(db')
  BY <1>1, WritesKeepReady DEF WriteRow
<1>6. BackupShape'
  BY <1>5 DEF WriteRow, BackupShape
<1>7. RestorableIsReady'
  BY <1>5 DEF WriteRow, RestorableIsReady, Restorable
<1> QED
  BY <1>2, <1>3, <1>4, <1>6, <1>7

LEMMA BeginCycleStep == IInv /\ BeginCycle => IInv'
<1> SUFFICES ASSUME IInv, BeginCycle PROVE IInv'
  OBVIOUS
<1> USE DEF IInv, StoreInv, backupVars, consoleVars
<1>1. db' # Missing /\ (db # Missing => db' = db)
  BY EmptyIsStore DEF BeginCycle
<1>2. TypeOK'
  BY EmptyIsStore DEF BeginCycle, TypeOK
<1>3. StoresSound'
  <2>1. Sound(db')
    BY DEF BeginCycle, StoresSound, Sound, EmptyStore, CURRENT_SCHEMA_VERSION
  <2> QED
    BY <2>1 DEF BeginCycle, StoresSound, Sound
<1>4. MigrationShape' /\ RestoreShape' /\ CycleShape'
  BY <1>1 DEF BeginCycle, MigrationShape, RestoreShape, Offline, CycleShape
<1>5. RuntimeReady(db) => RuntimeReady(db')
  BY <1>1, ReadyMeans DEF TypeOK
<1>6. BackupShape'
  BY <1>5 DEF BeginCycle, BackupShape
<1>7. RestorableIsReady'
  BY <1>5 DEF BeginCycle, RestorableIsReady, Restorable
<1> QED
  BY <1>2, <1>3, <1>4, <1>6, <1>7

LEMMA BootstrapStoreStep == IInv /\ BootstrapStore => IInv'
<1> SUFFICES ASSUME IInv, BootstrapStore PROVE IInv'
  OBVIOUS
<1> USE DEF IInv, StoreInv, backupVars, consoleVars
<1>1. db \in Stores /\ db' \in Stores /\ db' # Missing
  BY StoreWrites, MissingAssumption DEF BootstrapStore, TypeOK, CycleShape
<1>2. TypeOK'
  BY <1>1 DEF BootstrapStore, TypeOK
<1>3. StoresSound'
  <2>1. Sound(db')
    BY <1>1, WritesKeep DEF BootstrapStore, StoresSound
  <2> QED
    BY <2>1 DEF BootstrapStore, StoresSound, Sound
<1>4. MigrationShape' /\ RestoreShape' /\ CycleShape'
  <2>1. db.tables = 3 => db'.tables = 3
    BY <1>1 DEF BootstrapStore, Extended, Stores
  <2> QED
    BY <1>1, <2>1 DEF BootstrapStore, MigrationShape, RestoreShape, Offline, CycleShape
<1>5. RuntimeReady(db) => RuntimeReady(db')
  BY <1>1, WritesKeepReady DEF BootstrapStore
<1>6. BackupShape'
  BY <1>5 DEF BootstrapStore, BackupShape
<1>7. RestorableIsReady'
  BY <1>5 DEF BootstrapStore, RestorableIsReady, Restorable
<1> QED
  BY <1>2, <1>3, <1>4, <1>6, <1>7

LEMMA StutterStep == IInv /\ UNCHANGED vars => IInv'
<1> SUFFICES ASSUME IInv, UNCHANGED vars PROVE IInv'
  OBVIOUS
<1> USE DEF IInv, StoreInv, vars, backupVars, consoleVars
<1>1. TypeOK'
  BY DEF TypeOK
<1>2. StoresSound'
  BY DEF StoresSound, Sound
<1>3. RestorableIsReady'
  BY DEF RestorableIsReady, Restorable
<1>4. MigrationShape' /\ BackupShape' /\ RestoreShape' /\ CycleShape'
  BY DEF MigrationShape, BackupShape, RestoreShape, Offline, CycleShape
<1> QED
  BY <1>1, <1>2, <1>3, <1>4

LEMMA NextIInv == IInv /\ [Next]_vars => IInv'
<1> SUFFICES ASSUME IInv, Next PROVE IInv'
  BY StutterStep
<1>1. CASE \E allowBootstrap \in BOOLEAN : BeginMigrate(allowBootstrap)
  BY <1>1, BeginMigrateStep
<1>2. CASE RunScript \/ AddSettings \/ StampVersion \/ BootstrapAdmin
  BY <1>2, RunScriptStep, AddSettingsStep, StampVersionStep, BootstrapAdminStep
<1>3. CASE BeginBackup \/ CopyStore \/ FinishBackup
  BY <1>3, BeginBackupStep, CopyStoreStep, FinishBackupStep
<1>4. CASE \E b \in Slots : BeginRestore(b)
  BY <1>4, BeginRestoreStep
<1>5. CASE UnlinkSaved \/ MoveAside \/ PlaceRestored \/ PlaceFails
  BY <1>5, UnlinkSavedStep, MoveAsideStep, PlaceRestoredStep, PlaceFailsStep
<1>6. CASE BeginPrune \/ PruneNext \/ Crash
  BY <1>6, BeginPruneStep, PruneNextStep, CrashStep
<1>7. CASE StartWeb \/ StopWeb \/ EndCycle
  BY <1>7, StartWebStep, StopWebStep, EndCycleStep
<1>8. CASE WriteRow \/ BeginCycle \/ BootstrapStore
  BY <1>8, WriteRowStep, BeginCycleStep, BootstrapStoreStep
<1> QED
  BY <1>1, <1>2, <1>3, <1>4, <1>5, <1>6, <1>7, <1>8 DEF Next

-----------------------------------------------------------------------------
\* The inductive invariant: sound stores, and what each command has established
\* by the step it is at.
THEOREM StoreInvariant == Spec => []IInv
<1> QED
  BY InitIInv, NextIInv, PTL DEF Spec

\* Every variable of the store's files and commands keeps its type.
THEOREM StoreTypeCorrect == Spec => []TypeOK
<1>1. IInv => TypeOK
  BY DEF IInv
<1> QED
  BY <1>1, StoreInvariant, PTL

\* migrate_operator_store and bootstrap_operator_store: wherever a migration
\* dies and whatever cycle runs the same script beside it, the current version
\* stands only on a store with the current tables.
THEOREM VersionSound == Spec => []VersionMeansTables
<1>1. IInv => VersionMeansTables
  BY DEF IInv, StoreInv, StoresSound, Sound, VersionMeansTables, Everywhere
<1> QED
  BY <1>1, StoreInvariant, PTL

\* A store that had an operator schema when it was first seen is never one that
\* migrate_operator_store refuses.
THEOREM UpgradeAlwaysResumes == Spec => []UpgradeResumable
<1>1. ASSUME IInv PROVE UpgradeResumable
  <2> SUFFICES ASSUME db # Missing, ~db.fresh PROVE Inspect(db) # "unknown"
    BY DEF UpgradeResumable
  <2>1. db \in Stores /\ db.tables >= 2
    BY <1>1 DEF IInv, StoreInv, TypeOK, StoresSound, Sound
  <2>2. CASE db.version = 0
    BY <2>1, <2>2 DEF Inspect, CURRENT_SCHEMA_VERSION
  <2>3. CASE db.version = 2
    BY <2>1, <2>3 DEF Inspect, CURRENT_SCHEMA_VERSION
  <2>4. CASE db.version = 3
    BY <2>1, <2>4 DEF Inspect, CURRENT_SCHEMA_VERSION
  <2> QED
    BY <2>1, <2>2, <2>3, <2>4 DEF Stores
<1> QED
  BY <1>1, StoreInvariant, PTL

\* create_backup and restore_backup: what a restore accepts can be served, and
\* the web service never runs on anything else.
THEOREM BackupsServe == Spec => []RestorableIsReady
<1>1. IInv => RestorableIsReady
  BY DEF IInv, StoreInv
<1> QED
  BY <1>1, StoreInvariant, PTL

\* restore_backup: from its first step to its last, the database it found is at
\* database_path or at .pre-restore.
THEOREM RestoreLosesNothing == Spec => []RestoreKeepsOld
<1>1. IInv => RestoreKeepsOld
  BY DEF IInv, StoreInv, RestoreShape, Offline, RestoreKeepsOld
<1> QED
  BY <1>1, StoreInvariant, PTL
=============================================================================
