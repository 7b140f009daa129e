--------------------------- MODULE HostStackProofs ---------------------------
(***************************************************************************)
(* What a stack command's answer means, for any bundles, any number of        *)
(* commands and any number of faults.                                        *)
(***************************************************************************)
EXTENDS HostStack, TLAPS

-----------------------------------------------------------------------------
(* Type correctness, in three parts: the host and its store, the units, and  *)
(* the command under way.                                                    *)

HostType ==
    /\ host \in BOOLEAN /\ config \in {"broken", "plain", "telegram"}
    /\ valid \subseteq Bundles /\ layout \in BOOLEAN /\ active \in Bundles \cup {None}
    /\ store \in StoreStates /\ failed \in BOOLEAN /\ visible \in BOOLEAN

UnitType ==
    /\ console \in UnitStates /\ worker \in UnitStates /\ sensor \in UnitStates
    /\ scoring \in Bundles \cup {None} /\ (sensor = "up" <=> scoring # None)
    /\ evidence \in Bundles \cup {None}
    /\ own \in BOOLEAN /\ (own => evidence # None /\ sensor = "up")

CommandType ==
    /\ cmd \in {"none", "bootstrap", "recover", "post-restore-check"}
    /\ cmd = "none" <=> step = "none"
    /\ candidate \in Bundles \cup {None}
    /\ notify \in BOOLEAN /\ sound \in BOOLEAN /\ seen \in BOOLEAN
    /\ answer \in {"none", "ready", "degraded", "failed", "killed"}
    /\ commands \in 0..MaxCommands /\ faults \in 0..MaxFaults

LEMMA HostTypeStep == StackAssumption /\ HostType /\ [Next]_vars => HostType'
<1> SUFFICES ASSUME StackAssumption, HostType, [Next]_vars
             PROVE  HostType'
  OBVIOUS
<1> USE DEF StackAssumption, HostType, StoreStates, hostVars, storeVars, sensorVars,
            unitVars, resultVars, cmdVars
<1>1. CASE UNCHANGED <<hostVars, layout, active, storeVars>>
  BY <1>1
<1>2. ASSUME NEW b \in Bundles, BeginBootstrap(b) PROVE HostType'
  BY <1>2 DEF BeginBootstrap, BootstrapGate, HostLayoutReady, Finish, StoreAfterNotify, Opened
<1>3. CASE PrepareLayout
  BY <1>3 DEF PrepareLayout, GoOn
<1>4. CASE Promote
  BY <1>4 DEF Promote, GoOn, Finish
<1>5. CASE Migrate
  BY <1>5 DEF Migrate, GoOn, Finish
<1>6. CASE CreateAdmin
  BY <1>6 DEF CreateAdmin, GoOn, Finish
<1>7. CASE RestartWorker
  BY <1>7 DEF RestartWorker, GoOn, StoreAfterNotify, Opened
<1>8. CASE Status
  BY <1>8 DEF Status, GoOn, StoreAfterStatus, Opened
<1>9. CASE Smoke
  BY <1>9 DEF Smoke, GoOn, Finish, Verdict, StoreAfterStatus, Opened
<1>10. CASE RedriveRestored
  BY <1>10 DEF RedriveRestored, GoOn, StoreAfterNotify, Opened
<1>11. CASE FinalStatus
  BY <1>11 DEF FinalStatus, GoOn, StoreAfterStatus, Opened, OperatorStatus, Readiness
<1>12. CASE FinalSmoke
  BY <1>12 DEF FinalSmoke, Finish, Verdict, StoreAfterStatus, Opened
<1>13. CASE Kill
  BY <1>13 DEF Kill, Finish
<1>14. CASE EditHost
  BY <1>14 DEF EditHost
<1>15. CASE WorkerCycle
  BY <1>15 DEF WorkerCycle
<1>16. CASE RunOnce
  BY <1>16 DEF RunOnce
<1>17. CASE RestoreStore
  BY <1>17 DEF RestoreStore
<1>18. CASE \/ UNCHANGED vars \/ BeginRecover \/ BeginPostRestoreCheck
            \/ VerifyCandidate \/ StartConsole \/ StartSensor \/ StartWorker
            \/ RestartSensor \/ RestartConsole \/ Summarize \/ Age \/ UnitDies
            \/ UnitRestarts
  <2>1. UNCHANGED <<hostVars, layout, active, storeVars>>
    BY <1>18 DEF vars, BeginRecover, BeginPostRestoreCheck, VerifyCandidate,
                 StartConsole, StartSensor, StartWorker, RestartSensor,
                 RestartConsole, Summarize, Age, UnitDies, UnitRestarts
  <2> QED
    BY <1>1, <2>1
<1> QED
  BY <1>2, <1>3, <1>4, <1>5, <1>6, <1>7, <1>8, <1>9, <1>10, <1>11, <1>12, <1>13,
     <1>14, <1>15, <1>16, <1>17, <1>18
     DEF Next, BootstrapStep, RecoverStep

LEMMA UnitTypeStep == StackAssumption /\ HostType /\ UnitType /\ [Next]_vars => UnitType'
<1> SUFFICES ASSUME StackAssumption, HostType /\ UnitType, [Next]_vars
             PROVE  UnitType'
  OBVIOUS
<1> USE DEF StackAssumption, HostType, UnitType, UnitStates, hostVars, storeVars,
            sensorVars, unitVars, resultVars, cmdVars
<1>1. CASE UNCHANGED <<unitVars>>
  BY <1>1
<1>2. ASSUME NEW b \in Bundles, BeginBootstrap(b) PROVE UnitType'
  BY <1>2 DEF BeginBootstrap, BootstrapGate, HostLayoutReady, Finish, StoreAfterNotify, Opened
<1>3. CASE StartConsole
  BY <1>3 DEF StartConsole, GoOn, Finish
<1>4. CASE StartSensor
  BY <1>4 DEF StartSensor, GoOn, Finish, SensorMayStart
<1>5. CASE StartWorker
  BY <1>5 DEF StartWorker, GoOn, Finish
<1>6. CASE RestartSensor
  BY <1>6 DEF RestartSensor, GoOn, SensorMayStart
<1>7. CASE RestartConsole
  BY <1>7 DEF RestartConsole, GoOn
<1>8. CASE RestartWorker
  BY <1>8 DEF RestartWorker, GoOn, StoreAfterNotify, Opened
<1>9. CASE Summarize
  BY <1>9 DEF Summarize
<1>10. CASE Age
  BY <1>10 DEF Age
<1>11. CASE UnitDies
  <2>1. CASE console' # console
    BY <1>11, <2>1 DEF UnitDies
  <2>2. CASE worker' # worker
    BY <1>11, <2>2 DEF UnitDies
  <2>3. CASE sensor' # sensor
    BY <1>11, <2>3 DEF UnitDies
  <2> QED
    BY <1>11, <2>1, <2>2, <2>3 DEF UnitDies
<1>12. CASE UnitRestarts
  <2>1. CASE console' # console
    BY <1>12, <2>1 DEF UnitRestarts, SensorMayStart
  <2>2. CASE worker' # worker
    BY <1>12, <2>2 DEF UnitRestarts, SensorMayStart
  <2>3. CASE sensor' # sensor
    BY <1>12, <2>3 DEF UnitRestarts, SensorMayStart
  <2> QED
    BY <1>12, <2>1, <2>2, <2>3 DEF UnitRestarts
<1>13. CASE RestoreStore
  BY <1>13 DEF RestoreStore
<1>14. CASE \/ UNCHANGED vars \/ BeginRecover \/ BeginPostRestoreCheck
            \/ PrepareLayout \/ VerifyCandidate \/ Promote \/ Migrate \/ CreateAdmin
            \/ Status \/ Smoke \/ RedriveRestored \/ FinalStatus \/ FinalSmoke \/ Kill
            \/ EditHost \/ WorkerCycle \/ RunOnce
  <2>1. UNCHANGED <<unitVars>>
    BY <1>14 DEF vars, BeginRecover, BeginPostRestoreCheck, PrepareLayout,
                 VerifyCandidate, Promote, Migrate, CreateAdmin, Status, Smoke,
                 RedriveRestored, FinalStatus, FinalSmoke, Kill, EditHost,
                 WorkerCycle, RunOnce
  <2> QED
    BY <1>1, <2>1
<1> QED
  BY <1>2, <1>3, <1>4, <1>5, <1>6, <1>7, <1>8, <1>9, <1>10, <1>11, <1>12, <1>13, <1>14
     DEF Next, BootstrapStep, RecoverStep

LEMMA NextCommand ==
    ASSUME StackAssumption, commands \in 0..MaxCommands, commands < MaxCommands,
           commands' = commands + 1
    PROVE  commands' \in 0..MaxCommands
BY DEF StackAssumption

LEMMA CommandTypeStep == StackAssumption /\ CommandType /\ [Next]_vars => CommandType'
<1> SUFFICES ASSUME StackAssumption, CommandType, [Next]_vars
             PROVE  CommandType'
  OBVIOUS
<1> USE DEF StackAssumption, CommandType, hostVars, storeVars, sensorVars, unitVars,
            resultVars, cmdVars
<1>1. CASE UNCHANGED <<cmdVars, faults>>
  BY <1>1
<1>2. ASSUME NEW b \in Bundles, BeginBootstrap(b) PROVE CommandType'
  <2>1. commands' \in 0..MaxCommands
    BY <1>2, NextCommand DEF BeginBootstrap
  <2> QED
    BY <1>2, <2>1 DEF BeginBootstrap, BootstrapGate, HostLayoutReady, Finish, StoreAfterNotify, Opened
<1>3. CASE BeginRecover
  <2>1. commands' \in 0..MaxCommands
    BY <1>3, NextCommand DEF BeginRecover
  <2>2. sound' \in BOOLEAN
    BY <1>3, Zenon DEF BeginRecover
  <2> QED
    BY <1>3, <2>1, <2>2 DEF BeginRecover
<1>4. CASE BeginPostRestoreCheck
  <2>1. commands' \in 0..MaxCommands
    BY <1>4, NextCommand DEF BeginPostRestoreCheck
  <2>2. sound' \in BOOLEAN
    BY <1>4, Zenon DEF BeginPostRestoreCheck
  <2> QED
    BY <1>4, <2>1, <2>2 DEF BeginPostRestoreCheck
<1>5. CASE PrepareLayout
  BY <1>5 DEF PrepareLayout, GoOn
<1>6. CASE VerifyCandidate
  BY <1>6 DEF VerifyCandidate, GoOn, Finish
<1>7. CASE Promote
  BY <1>7 DEF Promote, GoOn, Finish
<1>8. CASE Migrate
  BY <1>8 DEF Migrate, GoOn, Finish
<1>9. CASE CreateAdmin
  BY <1>9 DEF CreateAdmin, GoOn, Finish
<1>10. CASE StartConsole
  BY <1>10 DEF StartConsole, GoOn, Finish
<1>11. CASE StartSensor
  BY <1>11 DEF StartSensor, GoOn, Finish, SensorMayStart
<1>12. CASE StartWorker
  BY <1>12 DEF StartWorker, GoOn, Finish
<1>13. CASE RestartSensor
  BY <1>13 DEF RestartSensor, GoOn, SensorMayStart
<1>14. CASE RestartConsole
  BY <1>14 DEF RestartConsole, GoOn
<1>15. CASE RestartWorker
  BY <1>15 DEF RestartWorker, GoOn, StoreAfterNotify, Opened
<1>16. CASE Status
  BY <1>16 DEF Status, GoOn, StoreAfterStatus, Opened
<1>17. CASE Smoke
  BY <1>17 DEF Smoke, GoOn, Finish, Verdict, StoreAfterStatus, Opened
<1>18. CASE RedriveRestored
  BY <1>18 DEF RedriveRestored, GoOn, StoreAfterNotify, Opened
<1>19. CASE FinalStatus
  BY <1>19 DEF FinalStatus, GoOn, StoreAfterStatus, Opened, OperatorStatus, Readiness
<1>20. CASE FinalSmoke
  BY <1>20 DEF FinalSmoke, Finish, Verdict, StoreAfterStatus, Opened
<1>21. CASE Kill
  BY <1>21 DEF Kill, Finish
<1>22. CASE EditHost
  BY <1>22 DEF EditHost
<1>23. CASE UnitDies
  BY <1>23 DEF UnitDies
<1>24. CASE \/ UNCHANGED vars \/ Summarize \/ Age \/ WorkerCycle \/ RunOnce
            \/ UnitRestarts \/ RestoreStore
  <2>1. UNCHANGED <<cmdVars, faults>>
    BY <1>24 DEF vars, Summarize, Age, WorkerCycle, RunOnce, UnitRestarts,
                 RestoreStore
  <2> QED
    BY <1>1, <2>1
<1> QED
  BY <1>2, <1>3, <1>4, <1>5, <1>6, <1>7, <1>8, <1>9, <1>10, <1>11, <1>12, <1>13,
     <1>14, <1>15, <1>16, <1>17, <1>18, <1>19, <1>20, <1>21, <1>22, <1>23, <1>24
     DEF Next, BootstrapStep, RecoverStep

LEMMA TypeParts == TypeOK <=> HostType /\ UnitType /\ CommandType
BY DEF TypeOK, HostType, UnitType, CommandType

LEMMA TypeStep == StackAssumption /\ TypeOK /\ [Next]_vars => TypeOK'
<1> SUFFICES ASSUME StackAssumption, TypeOK, [Next]_vars
             PROVE  TypeOK'
  OBVIOUS
<1>1. HostType' /\ UnitType' /\ CommandType'
  BY TypeParts, HostTypeStep, UnitTypeStep, CommandTypeStep
<1> QED
  BY <1>1 DEF TypeOK, HostType, UnitType, CommandType

LEMMA TypeInit == StackAssumption /\ Init => TypeOK
<1> SUFFICES ASSUME StackAssumption, Init
             PROVE  TypeOK
  OBVIOUS
<1>1. HostType /\ UnitType
  BY DEF Init, HostType, UnitType, StoreStates, UnitStates, StackAssumption
<1>2. commands \in 0..MaxCommands /\ faults \in 0..MaxFaults
  BY DEF Init, StackAssumption
<1>3. notify \in BOOLEAN /\ sound \in BOOLEAN /\ seen \in BOOLEAN
  BY DEF Init
<1>4. CommandType
  BY <1>2, <1>3 DEF Init, CommandType
<1> QED
  BY <1>1, <1>4, TypeParts

(* Type correctness of the host, its units and the command under way.      *)
THEOREM HostTypeCorrect == Spec => []TypeOK
<1>1. StackAssumption
  BY StackAssumption
<1> QED
  BY <1>1, TypeInit, TypeStep, PTL DEF Spec

-----------------------------------------------------------------------------
(* What a command has established by the step it is at.                     *)

BootSteps == {"preparing", "verifying", "promoting", "migrating", "creating admin",
              "starting console", "starting sensor", "starting worker"}
RecoverSteps == {"restarting sensor", "restarting console", "restarting worker",
                 "redriving", "final status", "final smoke"}

\* Every step belongs to its command, which has not answered yet.
CommandShape ==
    /\ step \in {"none", "status", "smoke"} \cup BootSteps \cup RecoverSteps
    /\ step \in BootSteps => cmd = "bootstrap"
    /\ step \in RecoverSteps => cmd \in {"recover", "post-restore-check"}
    /\ cmd # "none" => answer = "none"

\* What a bootstrap has established by the step it is at.
BootstrapShape ==
    cmd = "bootstrap" =>
        /\ candidate \in Bundles
        /\ step # "preparing" => layout
        /\ step \notin {"preparing", "verifying", "promoting"} => active = candidate
        /\ step = "creating admin" => store \in {"current", "ready"}
        /\ step \in {"starting console", "starting sensor", "starting worker"} => store = "ready"

\* Once a recovery has restarted the sensor, a running one has the active bundle.
RecoveryShape ==
    cmd \in {"recover", "post-restore-check"} /\ step # "restarting sensor" /\ sensor = "up"
        => scoring = active

\* A sensor's own summary names the bundle it scores with.
OwnSummary == own => evidence = scoring

HostInv ==
    /\ TypeOK
    /\ CommandShape
    /\ BootstrapShape
    /\ RecoveryShape
    /\ OwnSummary

LEMMA CommandStep == StackAssumption /\ HostInv /\ [Next]_vars => CommandShape'
<1> SUFFICES ASSUME StackAssumption, HostInv, [Next]_vars
             PROVE  CommandShape'
  OBVIOUS
<1> USE DEF HostInv, TypeOK, CommandShape, BootSteps, RecoverSteps, hostVars,
            storeVars, sensorVars, unitVars, resultVars, cmdVars
<1>1. CASE UNCHANGED <<cmd, step, answer>>
  BY <1>1
<1>2. ASSUME NEW b \in Bundles, BeginBootstrap(b) PROVE CommandShape'
  BY <1>2 DEF BeginBootstrap, BootstrapGate, HostLayoutReady, Finish, StoreAfterNotify, Opened
<1>3. CASE BeginRecover
  BY <1>3 DEF BeginRecover
<1>4. CASE BeginPostRestoreCheck
  BY <1>4 DEF BeginPostRestoreCheck
<1>5. CASE PrepareLayout
  BY <1>5 DEF PrepareLayout, GoOn
<1>6. CASE VerifyCandidate
  BY <1>6 DEF VerifyCandidate, GoOn, Finish
<1>7. CASE Promote
  BY <1>7 DEF Promote, GoOn, Finish
<1>8. CASE Migrate
  BY <1>8 DEF Migrate, GoOn, Finish
<1>9. CASE CreateAdmin
  BY <1>9 DEF CreateAdmin, GoOn, Finish
<1>10. CASE StartConsole
  BY <1>10 DEF StartConsole, GoOn, Finish
<1>11. CASE StartSensor
  BY <1>11 DEF StartSensor, GoOn, Finish, SensorMayStart
<1>12. CASE StartWorker
  BY <1>12 DEF StartWorker, GoOn, Finish
<1>13. CASE RestartSensor
  BY <1>13 DEF RestartSensor, GoOn, SensorMayStart
<1>14. CASE RestartConsole
  BY <1>14 DEF RestartConsole, GoOn
<1>15. CASE RestartWorker
  BY <1>15 DEF RestartWorker, GoOn, StoreAfterNotify, Opened
<1>16. CASE Status
  BY <1>16 DEF Status, GoOn, StoreAfterStatus, Opened
<1>17. CASE Smoke
  BY <1>17 DEF Smoke, GoOn, Finish, Verdict, StoreAfterStatus, Opened
<1>18. CASE RedriveRestored
  BY <1>18 DEF RedriveRestored, GoOn, StoreAfterNotify, Opened
<1>19. CASE FinalStatus
  BY <1>19 DEF FinalStatus, GoOn, StoreAfterStatus, Opened, OperatorStatus, Readiness
<1>20. CASE FinalSmoke
  BY <1>20 DEF FinalSmoke, Finish, Verdict, StoreAfterStatus, Opened
<1>21. CASE Kill
  BY <1>21 DEF Kill, Finish
<1>22. CASE \/ UNCHANGED vars \/ EditHost \/ UnitDies \/ Summarize \/ Age
            \/ WorkerCycle \/ RunOnce \/ UnitRestarts \/ RestoreStore
  <2>1. UNCHANGED <<cmd, step, answer>>
    BY <1>22 DEF vars, EditHost, UnitDies, Summarize, Age, WorkerCycle, RunOnce,
                 UnitRestarts, RestoreStore
  <2> QED
    BY <1>1, <2>1
<1> QED
  BY <1>2, <1>3, <1>4, <1>5, <1>6, <1>7, <1>8, <1>9, <1>10, <1>11, <1>12, <1>13,
     <1>14, <1>15, <1>16, <1>17, <1>18, <1>19, <1>20, <1>21, <1>22
     DEF Next, BootstrapStep, RecoverStep

LEMMA BootstrapShapeStep == StackAssumption /\ HostInv /\ [Next]_vars => BootstrapShape'
<1> SUFFICES ASSUME StackAssumption, HostInv, [Next]_vars
             PROVE  BootstrapShape'
  OBVIOUS
<1> USE DEF HostInv, TypeOK, CommandShape, BootSteps, RecoverSteps, BootstrapShape,
            hostVars, storeVars, sensorVars, unitVars, resultVars, cmdVars
<1>1. CASE UNCHANGED <<cmd, step, candidate, layout, active, store>>
  BY <1>1
<1>2. ASSUME NEW b \in Bundles, BeginBootstrap(b) PROVE BootstrapShape'
  BY <1>2 DEF BeginBootstrap, BootstrapGate, HostLayoutReady, Finish, StoreAfterNotify, Opened
<1>3. CASE BeginRecover
  BY <1>3 DEF BeginRecover
<1>4. CASE BeginPostRestoreCheck
  BY <1>4 DEF BeginPostRestoreCheck
<1>5. CASE PrepareLayout
  BY <1>5 DEF PrepareLayout, GoOn
<1>6. CASE VerifyCandidate
  BY <1>6 DEF VerifyCandidate, GoOn, Finish
<1>7. CASE Promote
  BY <1>7 DEF Promote, GoOn, Finish
<1>8. CASE Migrate
  BY <1>8 DEF Migrate, GoOn, Finish
<1>9. CASE CreateAdmin
  BY <1>9 DEF CreateAdmin, GoOn, Finish
<1>10. CASE StartConsole
  BY <1>10 DEF StartConsole, GoOn, Finish
<1>11. CASE StartSensor
  BY <1>11 DEF StartSensor, GoOn, Finish, SensorMayStart
<1>12. CASE StartWorker
  BY <1>12 DEF StartWorker, GoOn, Finish
<1>13. CASE RestartSensor
  BY <1>13 DEF RestartSensor, GoOn, SensorMayStart
<1>14. CASE RestartConsole
  BY <1>14 DEF RestartConsole, GoOn
<1>15. CASE RestartWorker
  BY <1>15 DEF RestartWorker, GoOn, StoreAfterNotify, Opened
<1>16. CASE Status
  BY <1>16 DEF Status, GoOn, StoreAfterStatus, Opened
<1>17. CASE Smoke
  BY <1>17 DEF Smoke, GoOn, Finish, Verdict, StoreAfterStatus, Opened
<1>18. CASE RedriveRestored
  BY <1>18 DEF RedriveRestored, GoOn, StoreAfterNotify, Opened
<1>19. CASE FinalStatus
  BY <1>19 DEF FinalStatus, GoOn, StoreAfterStatus, Opened, OperatorStatus, Readiness
<1>20. CASE FinalSmoke
  BY <1>20 DEF FinalSmoke, Finish, Verdict, StoreAfterStatus, Opened
<1>21. CASE Kill
  BY <1>21 DEF Kill, Finish
<1>22. CASE RunOnce
  BY <1>22 DEF RunOnce
<1>23. CASE RestoreStore
  BY <1>23 DEF RestoreStore
<1>24. CASE \/ UNCHANGED vars \/ EditHost \/ Summarize \/ Age \/ WorkerCycle
            \/ UnitDies \/ UnitRestarts
  <2>1. UNCHANGED <<cmd, step, candidate, layout, active, store>>
    BY <1>24 DEF vars, EditHost, Summarize, Age, WorkerCycle, UnitDies, UnitRestarts
  <2> QED
    BY <1>1, <2>1
<1> QED
  BY <1>2, <1>3, <1>4, <1>5, <1>6, <1>7, <1>8, <1>9, <1>10, <1>11, <1>12, <1>13,
     <1>14, <1>15, <1>16, <1>17, <1>18, <1>19, <1>20, <1>21, <1>22, <1>23, <1>24
     DEF Next, BootstrapStep, RecoverStep

LEMMA RecoveryShapeStep == StackAssumption /\ HostInv /\ [Next]_vars => RecoveryShape'
<1> SUFFICES ASSUME StackAssumption, HostInv, [Next]_vars
             PROVE  RecoveryShape'
  OBVIOUS
<1> USE DEF HostInv, TypeOK, CommandShape, BootSteps, RecoverSteps, RecoveryShape,
            hostVars, storeVars, sensorVars, unitVars, resultVars, cmdVars
<1>1. CASE UNCHANGED <<cmd, step, sensor, scoring, active>>
  BY <1>1
<1>2. ASSUME NEW b \in Bundles, BeginBootstrap(b) PROVE RecoveryShape'
  BY <1>2 DEF BeginBootstrap, BootstrapGate, HostLayoutReady, Finish, StoreAfterNotify, Opened
<1>3. CASE BeginRecover
  BY <1>3 DEF BeginRecover
<1>4. CASE BeginPostRestoreCheck
  BY <1>4 DEF BeginPostRestoreCheck
<1>5. CASE PrepareLayout
  BY <1>5 DEF PrepareLayout, GoOn
<1>6. CASE VerifyCandidate
  BY <1>6 DEF VerifyCandidate, GoOn, Finish
<1>7. CASE Promote
  BY <1>7 DEF Promote, GoOn, Finish
<1>8. CASE Migrate
  BY <1>8 DEF Migrate, GoOn, Finish
<1>9. CASE CreateAdmin
  BY <1>9 DEF CreateAdmin, GoOn, Finish
<1>10. CASE StartConsole
  BY <1>10 DEF StartConsole, GoOn, Finish
<1>11. CASE StartSensor
  BY <1>11 DEF StartSensor, GoOn, Finish, SensorMayStart
<1>12. CASE StartWorker
  BY <1>12 DEF StartWorker, GoOn, Finish
<1>13. CASE RestartSensor
  BY <1>13 DEF RestartSensor, GoOn, SensorMayStart
<1>14. CASE RestartConsole
  BY <1>14 DEF RestartConsole, GoOn
<1>15. CASE RestartWorker
  BY <1>15 DEF RestartWorker, GoOn, StoreAfterNotify, Opened
<1>16. CASE Status
  BY <1>16 DEF Status, GoOn, StoreAfterStatus, Opened
<1>17. CASE Smoke
  BY <1>17 DEF Smoke, GoOn, Finish, Verdict, StoreAfterStatus, Opened
<1>18. CASE RedriveRestored
  BY <1>18 DEF RedriveRestored, GoOn, StoreAfterNotify, Opened
<1>19. CASE FinalStatus
  BY <1>19 DEF FinalStatus, GoOn, StoreAfterStatus, Opened, OperatorStatus, Readiness
<1>20. CASE FinalSmoke
  BY <1>20 DEF FinalSmoke, Finish, Verdict, StoreAfterStatus, Opened
<1>21. CASE Kill
  BY <1>21 DEF Kill, Finish
<1>22. CASE UnitDies
  BY <1>22 DEF UnitDies
<1>23. CASE UnitRestarts
  BY <1>23 DEF UnitRestarts, SensorMayStart
<1>24. CASE \/ UNCHANGED vars \/ EditHost \/ Summarize \/ Age \/ WorkerCycle
            \/ RunOnce \/ RestoreStore
  <2>1. UNCHANGED <<cmd, step, sensor, scoring, active>>
    BY <1>24 DEF vars, EditHost, Summarize, Age, WorkerCycle, RunOnce, RestoreStore
  <2> QED
    BY <1>1, <2>1
<1> QED
  BY <1>2, <1>3, <1>4, <1>5, <1>6, <1>7, <1>8, <1>9, <1>10, <1>11, <1>12, <1>13,
     <1>14, <1>15, <1>16, <1>17, <1>18, <1>19, <1>20, <1>21, <1>22, <1>23, <1>24
     DEF Next, BootstrapStep, RecoverStep

LEMMA OwnSummaryStep == StackAssumption /\ HostInv /\ [Next]_vars => OwnSummary'
<1> SUFFICES ASSUME StackAssumption, HostInv, [Next]_vars
             PROVE  OwnSummary'
  OBVIOUS
<1> USE DEF HostInv, OwnSummary, hostVars, storeVars, sensorVars, unitVars,
            resultVars, cmdVars
<1>1. CASE UNCHANGED <<scoring, evidence, own>>
  BY <1>1
<1>2. ASSUME NEW b \in Bundles, BeginBootstrap(b) PROVE OwnSummary'
  BY <1>2 DEF BeginBootstrap, BootstrapGate, HostLayoutReady, Finish, StoreAfterNotify, Opened
<1>3. CASE StartSensor
  BY <1>3 DEF StartSensor, GoOn, Finish, SensorMayStart
<1>4. CASE RestartSensor
  BY <1>4 DEF RestartSensor, GoOn, SensorMayStart
<1>5. CASE Summarize
  BY <1>5 DEF Summarize
<1>6. CASE Age
  BY <1>6 DEF Age
<1>7. CASE UnitDies
  BY <1>7 DEF UnitDies
<1>8. CASE UnitRestarts
  BY <1>8 DEF UnitRestarts, SensorMayStart
<1>9. CASE \/ UNCHANGED vars \/ BeginRecover \/ BeginPostRestoreCheck \/ PrepareLayout
           \/ VerifyCandidate \/ Promote \/ Migrate \/ CreateAdmin \/ StartConsole
           \/ StartWorker \/ RestartConsole \/ RestartWorker \/ Status \/ Smoke
           \/ RedriveRestored \/ FinalStatus \/ FinalSmoke \/ Kill \/ EditHost
           \/ WorkerCycle \/ RunOnce \/ RestoreStore
  <2>1. UNCHANGED <<scoring, evidence, own>>
    BY <1>9 DEF vars, BeginRecover, BeginPostRestoreCheck, PrepareLayout,
                VerifyCandidate, Promote, Migrate, CreateAdmin, StartConsole,
                StartWorker, RestartConsole, RestartWorker, Status, Smoke,
                RedriveRestored, FinalStatus, FinalSmoke, Kill, EditHost, WorkerCycle,
                RunOnce, RestoreStore
  <2> QED
    BY <1>1, <2>1
<1> QED
  BY <1>2, <1>3, <1>4, <1>5, <1>6, <1>7, <1>8, <1>9
     DEF Next, BootstrapStep, RecoverStep

LEMMA HostInvStep == StackAssumption /\ HostInv /\ [Next]_vars => HostInv'
<1> SUFFICES ASSUME StackAssumption, HostInv, [Next]_vars
             PROVE  HostInv'
  OBVIOUS
<1>1. TypeOK'
  BY TypeStep DEF HostInv
<1>2. CommandShape' /\ BootstrapShape' /\ RecoveryShape' /\ OwnSummary'
  BY CommandStep, BootstrapShapeStep, RecoveryShapeStep, OwnSummaryStep
<1> QED
  BY <1>1, <1>2 DEF HostInv

LEMMA HostInvInit == StackAssumption /\ Init => HostInv
BY TypeInit DEF Init, HostInv, CommandShape, BootstrapShape, RecoveryShape, OwnSummary,
                BootSteps, RecoverSteps

-----------------------------------------------------------------------------
(* Only the last step of a command answers ready, and it has seen the stack  *)
(* ready itself.                                                             *)
LEMMA ReadyAnswer ==
    ASSUME HostInv, [Next]_vars, cmd # "none", answer' = "ready"
    PROVE  StackReady /\ step \in {"smoke", "final smoke"}
<1> USE DEF HostInv, TypeOK, CommandShape, GoOn, Finish, hostVars, storeVars, sensorVars,
            unitVars, resultVars, cmdVars
<1>1. answer = "none"
  OBVIOUS
<1>2. CASE Smoke
  BY <1>1, <1>2 DEF Smoke, Verdict
<1>3. CASE FinalSmoke
  BY <1>1, <1>3 DEF FinalSmoke, Verdict
<1>4. CASE (\E b \in Bundles : BeginBootstrap(b)) \/ BeginRecover \/ BeginPostRestoreCheck
  BY <1>4 DEF BeginBootstrap, BeginRecover, BeginPostRestoreCheck
<1>5. CASE BootstrapStep
  BY <1>1, <1>5 DEF BootstrapStep, PrepareLayout, VerifyCandidate, Promote, Migrate, CreateAdmin,
                    StartConsole, StartSensor, StartWorker
<1>6. CASE \/ RestartSensor \/ RestartConsole \/ RestartWorker \/ Status
           \/ RedriveRestored \/ FinalStatus
  BY <1>1, <1>6 DEF RestartSensor, RestartConsole, RestartWorker, Status, RedriveRestored,
                    FinalStatus
<1>7. CASE \/ Kill \/ EditHost \/ Summarize \/ Age \/ WorkerCycle \/ RunOnce
           \/ UnitDies \/ UnitRestarts \/ RestoreStore \/ UNCHANGED vars
  BY <1>1, <1>7 DEF Kill, EditHost, Summarize, Age, WorkerCycle, RunOnce, UnitDies,
                    UnitRestarts, RestoreStore, vars
<1> QED
  BY <1>2, <1>3, <1>4, <1>5, <1>6, <1>7 DEF Next, RecoverStep

(* Whatever happens between the steps of a command, it answers ready only    *)
(* while a sensor that has written a fresh summary scores with the active    *)
(* bundle.                                                                   *)
THEOREM ReadyIsScoring == Spec => ReadyMeansScoring
<1>1. StackAssumption
  BY StackAssumption
<1>2. ASSUME HostInv, [Next]_vars
      PROVE  [cmd # "none" /\ answer' = "ready" /\ sensor = "up" /\ own
                => scoring = active]_vars
  <2> SUFFICES ASSUME cmd # "none", answer' = "ready", sensor = "up", own
               PROVE  scoring = active
    OBVIOUS
  <2>1. evidence = active
    BY <1>2, ReadyAnswer DEF StackReady, SensorOK
  <2> QED
    BY <1>2, <2>1 DEF HostInv, OwnSummary
<1> QED
  BY <1>1, <1>2, HostInvInit, HostInvStep, PTL DEF Spec, ReadyMeansScoring

(* A recovery that answers ready has restarted the sensor on the active      *)
(* bundle, whoever wrote the summary it judged by.                           *)
THEOREM RecoveryLoadsActive == Spec => RecoveryReloads
<1>1. StackAssumption
  BY StackAssumption
<1>2. ASSUME HostInv, [Next]_vars
      PROVE  [cmd # "bootstrap" /\ cmd # "none" /\ answer' = "ready" /\ sensor = "up"
                => scoring = active]_vars
  <2> SUFFICES ASSUME cmd # "bootstrap", cmd # "none", answer' = "ready", sensor = "up"
               PROVE  scoring = active
    OBVIOUS
  <2>1. step \in {"smoke", "final smoke"}
    BY <1>2, ReadyAnswer
  <2> QED
    BY <1>2, <2>1 DEF HostInv, TypeOK, RecoveryShape
<1> QED
  BY <1>1, <1>2, HostInvInit, HostInvStep, PTL DEF Spec, RecoveryReloads

-----------------------------------------------------------------------------
(* A bootstrap past its gate raises only for a bundle that does not meet the *)
(* contract, for a store left half made, or for an env file that was broken  *)
(* meanwhile: no order of faults and repetitions adds another reason.        *)
THEOREM BootstrapRepeatable == Spec => BootstrapFailsForCause
<1>1. StackAssumption
  BY StackAssumption
<1>2. ASSUME HostInv, [Next]_vars
      PROVE  [cmd = "bootstrap" /\ answer' = "failed"
                => candidate \notin valid \/ store = "half" \/ config = "broken"]_vars
  <2> SUFFICES ASSUME cmd = "bootstrap", answer' = "failed"
               PROVE  candidate \notin valid \/ store = "half" \/ config = "broken"
    OBVIOUS
  <2> USE <1>2 DEF HostInv, TypeOK, CommandShape, BootstrapShape, BootSteps, RecoverSteps, GoOn,
                   Finish, hostVars, storeVars, sensorVars, unitVars, resultVars, cmdVars
  <2>1. answer = "none"
    OBVIOUS
  <2>2. CASE PrepareLayout \/ VerifyCandidate \/ Promote \/ Migrate \/ CreateAdmin
    BY <2>1, <2>2 DEF PrepareLayout, VerifyCandidate, Promote, Migrate, CreateAdmin
  <2>3. CASE StartConsole
    BY <2>1, <2>3 DEF StartConsole, ConsoleMayStart
  <2>4. CASE StartSensor
    BY <2>1, <2>4 DEF StartSensor, SensorMayStart
  <2>5. CASE StartWorker
    BY <2>1, <2>5 DEF StartWorker, ConsoleMayStart, Tabled
  <2>6. CASE (\E b \in Bundles : BeginBootstrap(b)) \/ BeginRecover \/ BeginPostRestoreCheck
    BY <2>6 DEF BeginBootstrap, BeginRecover, BeginPostRestoreCheck
  <2>7. CASE RecoverStep
    BY <2>1, <2>7 DEF RecoverStep, RestartSensor, RestartConsole, RestartWorker, Status, Smoke,
                      RedriveRestored, FinalStatus, FinalSmoke, Verdict
  <2>8. CASE \/ Kill \/ EditHost \/ Summarize \/ Age \/ WorkerCycle \/ RunOnce
             \/ UnitDies \/ UnitRestarts \/ RestoreStore \/ UNCHANGED vars
    BY <2>1, <2>8 DEF Kill, EditHost, Summarize, Age, WorkerCycle, RunOnce, UnitDies,
                      UnitRestarts, RestoreStore, vars
  <2> QED
    BY <2>2, <2>3, <2>4, <2>5, <2>6, <2>7, <2>8 DEF Next, BootstrapStep
<1> QED
  BY <1>1, <1>2, HostInvInit, HostInvStep, PTL DEF Spec, BootstrapFailsForCause
=============================================================================
