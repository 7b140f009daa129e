----------------------------- MODULE Installation -----------------------------
(***************************************************************************)
(* ops/install.sh, run again and again on one host.  It stops where a        *)
(* command fails, or where it is killed, and what stood there stays; a file  *)
(* written by redirection is empty until the writer fills it.  Between the   *)
(* runs the operator edits the environment files, and the host reboots.      *)
(*                                                                         *)
(* A file is in `present` or not; what it says is reduced to the settings    *)
(* the rest depends on, "" for a setting that is not there.                  *)
(***************************************************************************)
EXTENDS Naturals

CONSTANTS
    OperatorEdits,  \* BOUND: the environment files the operator leaves
    LiveEdits,
    MaxRuns,        \* BOUND: runs of the script
    MaxFaults       \* BOUND: commands that fail for reasons of their own, and kills

\* The shipped templates: where the console's database is, whose directory the
\* sensor's output is in, and whether the (blank) token file is named; the
\* capture interface, the sensor's paths and the capture binary.
OperatorTemplate == [db |-> "default", inputs |-> "sensor_log", token |-> "file"]
LiveTemplate == [iface |-> "eth0", paths |-> "default", dumpcap |-> "default"]
Emptied(env) == [k \in DOMAIN env |-> ""]

ASSUME EditsAssumption ==
    /\ \A e \in OperatorEdits : DOMAIN e = DOMAIN OperatorTemplate
    /\ \A e \in LiveEdits : DOMAIN e = DOMAIN LiveTemplate

Arguments == [full : BOOLEAN, bootstrap : BOOLEAN, create : BOOLEAN, skip : BOOLEAN,
              password : BOOLEAN, dumpcap : BOOLEAN]

VARIABLES
    args, ipc,   \* the arguments and the place of the run: "idle", a step, "ended"
    outcome,     \* of the last run: "none", "refused", "failed", "complete"
    present,     \* files: "operator", "live", "secret", "password", "token"
    operator, live,     \* what the environment files say
    filled,      \* of the secret and password files, the ones that are not blank
    rewrite,     \* the content on its way into an environment file, or <<>>
    venv,        \* "none", "cleared" or "ready"
    enabled,     \* the console's units are enabled
    schema, admin,
    console,     \* "down": not started, "up", or "failing": started again and again
    runs, faults,
    edited, cut, broken \* history: what the operator last wrote; the environment
                        \* files a fault fell in; a fault in this run

envVars == <<operator, live, rewrite>>
fileVars == <<present, filled, envVars>>
hostVars == <<venv, enabled, schema, admin, console>>
histVars == <<runs, faults, edited, cut, broken>>
installVars == <<args, ipc, outcome, fileVars, hostVars, histVars>>

InstallInit ==
    /\ args \in {a \in Arguments : a = [k \in DOMAIN a |-> FALSE]} /\ ipc = "idle"
    /\ outcome = "none" /\ present = {} /\ filled = {} /\ rewrite = <<>>
    /\ operator = OperatorTemplate /\ live = LiveTemplate
    /\ venv = "none" /\ enabled = FALSE /\ schema = FALSE /\ admin = FALSE /\ console = "down"
    /\ runs = 0 /\ faults = 0 /\ cut = {} /\ broken = FALSE
    /\ edited = [operator |-> OperatorTemplate, live |-> LiveTemplate]

-----------------------------------------------------------------------------
(* The services.                                                           *)

\* validate_preflight, run as ids-operator: it may not write in the sensor's log
\* directory, which install.sh makes 0750 ids-sensor ids-sensor.
Preflight(migrated, staffed) ==
    /\ venv = "ready" /\ operator.db # "" /\ operator.inputs \notin {"", "sensor_log"}
    /\ "secret" \in filled /\ migrated /\ staffed

\* The console as systemd has it after starting it.  Loading the configuration
\* rejects a blank token file, which the preflight takes for no token.
Started(migrated, staffed) ==
    IF Preflight(migrated, staffed) /\ operator.token # "file" THEN "up" ELSE "failing"

Reboot ==
    /\ ipc = "idle" /\ console' = IF enabled THEN Started(schema, admin) ELSE "down"
    /\ UNCHANGED <<args, ipc, outcome, fileVars, venv, enabled, schema, admin, histVars>>

\* Restart=on-failure: the next attempt reads the environment anew.
Supervise ==
    /\ console = "failing" /\ console' = Started(schema, admin)
    /\ UNCHANGED <<args, ipc, outcome, fileVars, venv, enabled, schema, admin, histVars>>

Edit ==
    /\ ipc = "idle" /\ runs < MaxRuns
    /\ \/ \E e \in OperatorEdits : /\ operator' = e /\ edited' = [edited EXCEPT !.operator = e]
                                   /\ present' = present \cup {"operator"}
                                   /\ cut' = cut \ {"operator"} /\ UNCHANGED live
       \/ \E e \in LiveEdits : /\ live' = e /\ edited' = [edited EXCEPT !.live = e]
                               /\ present' = present \cup {"live"}
                               /\ cut' = cut \ {"live"} /\ UNCHANGED operator
    /\ UNCHANGED <<args, ipc, outcome, filled, rewrite, hostVars, runs, faults, broken>>

\* The operator puts a secret or password file in place, for an absent or blank one.
Provide ==
    /\ ipc = "idle" /\ runs < MaxRuns
    /\ \E f \in {"secret", "password"} \ filled :
         present' = present \cup {f} /\ filled' = filled \cup {f}
    /\ UNCHANGED <<args, ipc, outcome, envVars, hostVars, histVars>>

-----------------------------------------------------------------------------
(* The script.                                                             *)

End(how) == ipc' = "idle" /\ outcome' = how
Goto(step) == ipc' = step /\ UNCHANGED outcome

\* require_mode and ensure_mode_contract, before anything is touched.
Start ==
    /\ ipc = "idle" /\ runs < MaxRuns /\ runs' = runs + 1 /\ broken' = FALSE
    /\ args' \in Arguments
    /\ IF (args'.full <=> args'.bootstrap) /\ ~(args'.full /\ args'.skip)
       THEN ipc' = "venv" /\ outcome' = "none" ELSE End("refused")
    /\ UNCHANGED <<fileVars, hostVars, faults, edited, cut>>

\* The users and directories are there; install_python_product clears the
\* virtual environment and then fills it.
Python ==
    /\ ipc = "venv" /\ venv' = IF venv = "cleared" THEN "ready" ELSE "cleared"
    /\ IF venv = "cleared" THEN Goto("operator_env") ELSE Goto("venv")
    /\ UNCHANGED <<args, fileVars, enabled, schema, admin, console, histVars>>

\* SLIP: the template is copied every time.
SeedOperatorEnv_Always ==
    /\ ipc = "operator_env" /\ Goto("live_env")
    /\ present' = present \cup {"operator"} /\ operator' = OperatorTemplate
    /\ UNCHANGED <<args, filled, live, rewrite, hostVars, histVars>>

SeedOperatorEnv ==
    /\ ipc = "operator_env" /\ Goto("live_env")
    /\ present' = present \cup {"operator"}
    /\ operator' = IF "operator" \in present THEN operator ELSE OperatorTemplate
    /\ UNCHANGED <<args, filled, live, rewrite, hostVars, histVars>>

SeedLiveEnv ==
    /\ ipc = "live_env" /\ UNCHANGED <<args, filled, operator, hostVars, histVars>>
    /\ IF ~args.full THEN Goto("secret") /\ UNCHANGED <<present, live, rewrite>>
       ELSE LET base == IF "live" \in present THEN live ELSE LiveTemplate
            IN  /\ Goto("live_rewrite") /\ present' = present \cup {"live"} /\ live' = base
                /\ rewrite' = [base EXCEPT !.paths = "canonical",
                                 !.dumpcap = IF args.dumpcap THEN "given" ELSE @]

\* set_env_value: the file is truncated and then written over.  The rewrites of
\* one file are one here, each as exposed as any other.
Rewrite ==
    /\ ipc \in {"live_rewrite", "db_rewrite"}
    /\ LET old == IF ipc = "live_rewrite" THEN live ELSE operator
           new == IF old = Emptied(old) THEN rewrite ELSE Emptied(old)
       IN  /\ IF ipc = "live_rewrite" THEN live' = new /\ UNCHANGED operator
              ELSE operator' = new /\ UNCHANGED live
           /\ IF old # Emptied(old) THEN UNCHANGED <<ipc, outcome, rewrite>>
              ELSE /\ rewrite' = <<>>
                   /\ IF ipc = "live_rewrite" THEN Goto("live_check") ELSE Goto("password")
    /\ UNCHANGED <<args, present, filled, hostVars, histVars>>

\* require_single_token_value, require_nonempty_env_value
CheckLiveEnv ==
    /\ ipc = "live_check"
    /\ IF \E k \in DOMAIN live : live[k] = "" THEN End("failed") ELSE Goto("secret")
    /\ UNCHANGED <<args, fileVars, hostVars, histVars>>

Filling(file) == IF file = "secret" THEN "fill_secret" ELSE "fill_password"

\* A secret is created empty and then filled; one that is there is kept.
Create(file, next) ==
    \/ /\ file \in present /\ Goto(next) /\ UNCHANGED <<present, filled>>
    \/ /\ file \notin present /\ args.create
       /\ present' = present \cup {file} /\ Goto(Filling(file)) /\ UNCHANGED filled

Fill(file, next) ==
    ipc = Filling(file) /\ filled' = filled \cup {file} /\ Goto(next) /\ UNCHANGED present

SeedSecret ==
    /\ \/ Fill("secret", "units")
       \/ ipc = "secret" /\ Create("secret", "units")
       \/ ipc = "secret" /\ "secret" \notin present /\ ~args.create /\ Goto("units")
          /\ UNCHANGED <<present, filled>>
    /\ UNCHANGED <<args, envVars, hostVars, histVars>>

\* The token file, the units and their enabling.
Units ==
    /\ ipc = "units" /\ present' = present \cup {"token"}
    /\ enabled' = (enabled \/ ~args.skip)
    /\ IF args.full THEN Goto("stack") ELSE Goto("db_path")
    /\ UNCHANGED <<args, filled, envVars, venv, schema, admin, console, histVars>>

-----------------------------------------------------------------------------
(* run_bootstrap.                                                          *)

DatabasePath ==
    /\ ipc = "db_path"
    /\ IF operator.db # "" THEN Goto("password") /\ UNCHANGED rewrite
       ELSE Goto("db_rewrite") /\ rewrite' = [operator EXCEPT !.db = "default"]
    /\ UNCHANGED <<args, present, filled, operator, live, hostVars, histVars>>

SeedPassword ==
    /\ \/ Fill("password", "migrate")
       \/ ipc = "password" /\ Create("password", "migrate")
       \/ ipc = "password" /\ "password" \notin present /\ ~args.create /\ End("failed")
          /\ UNCHANGED <<present, filled>>
    /\ UNCHANGED <<args, envVars, hostVars, histVars>>

Migrate ==
    /\ ipc = "migrate" /\ schema' = TRUE /\ Goto("admin")
    /\ UNCHANGED <<args, fileVars, venv, enabled, admin, console, histVars>>

\* SLIP: an admin who is there is an error.
SeedAdmin_Once ==
    /\ ipc = "admin"
    /\ IF "password" \in filled /\ ~admin THEN admin' = TRUE /\ Goto("start")
       ELSE End("failed") /\ UNCHANGED admin
    /\ UNCHANGED <<args, fileVars, venv, enabled, schema, console, histVars>>

\* bootstrap-admin creates the user or sets the password; a blank one raises.
SeedAdmin ==
    /\ ipc = "admin"
    /\ IF "password" \in filled THEN admin' = TRUE /\ Goto("start")
       ELSE End("failed") /\ UNCHANGED admin
    /\ UNCHANGED <<args, fileVars, venv, enabled, schema, console, histVars>>

\* SLIP: whether the units started is not looked at.
StartServices_Unchecked ==
    /\ ipc = "start" /\ Goto("checks")
    /\ console' = IF args.skip \/ console = "up" THEN console ELSE Started(schema, admin)
    /\ UNCHANGED <<args, fileVars, venv, enabled, schema, admin, histVars>>

\* systemctl start: nothing for a unit that runs; an error if its preflight fails.
StartServices ==
    /\ ipc = "start"
    /\ IF args.skip \/ console = "up" THEN Goto("checks") /\ UNCHANGED console
       ELSE /\ console' = Started(schema, admin)
            /\ IF Preflight(schema, admin) THEN Goto("checks") ELSE End("failed")
    /\ UNCHANGED <<args, fileVars, venv, enabled, schema, admin, histVars>>

\* status, smoke and notify-status ask the database and an application of their
\* own, under the environment of the shell and not of the units.
Checks ==
    /\ ipc = "checks" /\ IF schema /\ admin THEN End("complete") ELSE End("failed")
    /\ UNCHANGED <<args, fileVars, hostVars, histVars>>

\* ids-stack bootstrap (HostStack): what it does, as far as it goes, and whether
\* it calls that ready.  The password file is asked for only here.
StackBootstrap ==
    /\ ipc = "stack"
    /\ IF ~args.password \/ "password" \notin present
       THEN End("failed") /\ UNCHANGED <<schema, admin, console>>
       ELSE /\ schema' \in {schema, TRUE}
            /\ admin' \in {admin, admin \/ ("password" \in filled /\ schema')}
            /\ console' \in {console} \cup {Started(schema', admin')}
            /\ IF schema' /\ admin' /\ console' = "up" THEN End("complete") ELSE End("failed")
    /\ UNCHANGED <<args, fileVars, venv, enabled, histVars>>

-----------------------------------------------------------------------------
\* A command fails for a reason of its own, or the script is killed.
Fault ==
    /\ ipc # "idle" /\ faults < MaxFaults /\ faults' = faults + 1 /\ End("failed")
    /\ rewrite' = <<>> /\ broken' = TRUE
    /\ cut' = cut \cup {f \in {"operator", "live"} :
                          LET env == IF f = "live" THEN live ELSE operator
                          IN  env = Emptied(env)}
    /\ UNCHANGED <<args, present, filled, operator, live, hostVars, runs, edited>>

ScriptStep ==
    \/ Python \/ SeedOperatorEnv \/ SeedLiveEnv \/ Rewrite \/ CheckLiveEnv \/ SeedSecret
    \/ Units \/ DatabasePath \/ SeedPassword \/ Migrate \/ SeedAdmin \/ StartServices
    \/ Checks \/ StackBootstrap

InstallNext == Start \/ ScriptStep \/ Fault \/ Edit \/ Provide \/ Reboot \/ Supervise

InstallSpec == InstallInit /\ [][InstallNext]_installVars

-----------------------------------------------------------------------------
\* What the operator wrote into the environment files outlives every run of the
\* installer, except for the settings the installer owns or was given: the only
\* way to lose the rest is a fault in the middle of a rewrite.
EditsSurvive ==
    ipc = "idle" =>
        /\ "operator" \notin cut =>
             \A k \in DOMAIN operator :
                operator[k] = edited.operator[k] \/ (k = "db" /\ edited.operator[k] = "")
        /\ "live" \notin cut =>
             /\ live.iface = edited.live.iface
             /\ live.dumpcap \in {edited.live.dumpcap, "given"}

\* "Install complete" in console mode means a console that systemd accepts: its
\* secret, database and admin are in place whatever runs came before, and it is
\* up, unless its environment names the token file that the installer leaves
\* blank.
CompleteMeansReady ==
    [][outcome' = "complete" /\ ipc = "checks" /\ ~args.skip =>
         /\ schema /\ admin /\ "secret" \in filled
         /\ console = "up" \/ operator.token = "file"]_installVars

\* A run that fails has a cause: a fault of its own, arguments that leave out a
\* file it needs, a blank file or an emptied environment that an earlier fault left
\* behind, or an environment that cannot work.  Where an earlier run stopped is
\* no cause in itself: the next one carries on.
InstallFailsForCause ==
    [][outcome' = "failed" /\ ipc # "idle" =>
         \/ broken' \/ cut # {}
         \/ ~args.create /\ ~({"secret", "password"} \subseteq present)
         \/ ({"secret", "password"} \cap present) \ filled # {}
         \/ ipc = "live_check" /\ \E k \in DOMAIN live : edited.live[k] = ""
         \/ ipc = "stack"
         \/ ipc = "start" /\ edited.operator.inputs \in {"", "sensor_log"}]_installVars
=============================================================================
