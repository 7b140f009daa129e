----------------------------- MODULE AdapterRun -----------------------------
(***************************************************************************)
(* A run of the adapter's command line over a stream of lines.  In file     *)
(* mode it writes two temporary files and moves them into place together;   *)
(* whatever stood there is renamed aside first and put back if anything     *)
(* raises.  In stdin mode it writes its sinks as it goes.  Any step may     *)
(* raise (a full disk, an undecodable line, Ctrl-C), and the process may be *)
(* killed.                                                                 *)
(*                                                                         *)
(* What a sink holds is reduced to "old", what an earlier run left, "new",  *)
(* what this one wrote, or "absent".                                       *)
(***************************************************************************)
EXTENDS RecordAdapter, FiniteSets

CONSTANTS
    Profiles,    \* the registry
    Inputs,      \* BOUND: the streams of lines tried
    MaxFaults    \* BOUND: exceptions and kills

ASSUME ProfilesAssumption ==
    \A p \in Profiles : IsProfile(p) /\ IsClosed(p) /\ IsFiniteSet(Accepted(p))

Sinks == {"adapted", "quarantine"}

\* A line: its form, whether it is longer than the adapter reads, and the record
\* of a JSON object.
Fields == {Field(key, numeric) : key \in DOMAIN Strip, numeric \in BOOLEAN}
LineType == [form : {"blank", "not_json", "not_object", "record"}, long : BOOLEAN,
             record : Seq(Fields)]

ASSUME InputsAssumption == Inputs \subseteq Seq(LineType) /\ MaxFaults \in Nat

VARIABLES
    profile, mode,  \* --profile, and "file", "stdin", "bridge": called by the live
                    \* flow bridge on CSV rows, or "none": not run
    raw,            \* the lines upstream wrote
    taken,          \* how many the adapter has read
    adapted,        \* adapted records: [line, record]
    refused,        \* lines quarantined, in order
    had,            \* the sinks that held an earlier run's output
    sink,           \* what each final path holds
    temp,           \* the temporary files there are
    backup,         \* backup files: "none", "reserved" (empty) or "old"
    todo,           \* file operations still to do
    noted, moved,   \* backup_paths and promoted_final_paths
    apc, faults,
    excused         \* history: an exception fell between a rename and its note,
                    \* or a step of the recovery failed as well

streamVars == <<taken, adapted, refused>>
sinkVars == <<sink, temp, backup>>
adapterVars == <<profile, mode, raw, streamVars, had, sinkVars, todo, noted, moved, apc,
                 faults, excused>>

\* ops for those of the sinks that are in S, in their order.
Each(S, ops) ==
    LET Of(o) == IF o \in S THEN [k \in DOMAIN ops |-> <<ops[k], o>>] ELSE <<>>
    IN  Of("adapted") \o Of("quarantine")

Swap(s) == [k \in DOMAIN s |-> s[Len(s) + 1 - k]]

Existing == {o \in Sinks : sink[o] # "absent"}

-----------------------------------------------------------------------------
AdapterInit ==
    /\ profile \in Profiles /\ mode \in {"file", "stdin", "bridge", "none"}
    /\ IF mode = "bridge" THEN raw = <<>> ELSE raw \in Inputs
    /\ taken = 0 /\ refused = <<>>
    /\ apc = CASE mode = "none" -> "done" [] mode = "bridge" -> "bridging" [] OTHER -> "opening"
    /\ adapted = IF mode # "none" THEN <<>> ELSE [n \in DOMAIN raw |-> [line |-> n]]
    /\ had \in SUBSET Sinks /\ (mode \in {"none", "bridge"} => had = {})
    /\ sink = [o \in Sinks |-> IF o \in had THEN "old" ELSE "absent"]
    /\ temp = {} /\ backup = [o \in Sinks |-> "none"]
    /\ todo = <<>> /\ noted = {} /\ moved = {} /\ faults = 0 /\ excused = FALSE

\* _open_staged_file_mode_sink_handles opens two temporary files, and
\* _open_redirected_stdin_sink_handles truncates its sinks once both are open.
Open ==
    /\ apc = "opening"
    /\ IF mode = "file" THEN temp' = Sinks /\ UNCHANGED sink
       ELSE sink' = [o \in Sinks |-> "new"] /\ UNCHANGED temp
    /\ apc' = "reading"
    /\ UNCHANGED <<profile, mode, raw, streamVars, had, backup, todo, noted, moved, faults,
                   excused>>

\* The paths collide or are directories, or one of the two cannot be opened:
\* what was created is unlinked, nothing is truncated.
OpenFails ==
    /\ apc = "opening" /\ faults < MaxFaults
    /\ faults' = faults + 1 /\ apc' = "unopened"
    /\ UNCHANGED <<profile, mode, raw, streamVars, had, sinkVars, todo, noted, moved, excused>>

\* run_adapter_cli takes the next line.
ReadLine ==
    /\ apc = "reading" /\ taken < Len(raw)
    /\ taken' = taken + 1
    /\ LET line == raw[taken + 1]
           good == /\ ~line.long /\ line.form = "record"
                   /\ Adapt(profile, line.record).verdict = "valid"
       IN  /\ adapted' = IF ~good THEN adapted
                         ELSE Append(adapted, [line |-> taken + 1,
                                               record |-> AdapterInput(profile, line.record)])
           /\ refused' = IF good \/ (line.form = "blank" /\ ~line.long) THEN refused
                         ELSE Append(refused, taken + 1)
    /\ UNCHANGED <<profile, mode, raw, had, sinkVars, todo, noted, moved, apc, faults, excused>>

\* The end of the input: _promote_staged_output_paths_transactionally plans to
\* move aside what exists and then to move the temporary files into place.
EndOfInput ==
    /\ apc = "reading" /\ taken = Len(raw)
    /\ apc' = IF mode = "file" THEN "promoting" ELSE "done"
    /\ todo' = IF mode # "file" THEN <<>>
               ELSE Each(Existing, <<"reserve", "aside", "note">>)
                      \o Each(Sinks, <<"replace", "record">>)
    /\ UNCHANGED <<profile, mode, raw, streamVars, had, sinkVars, noted, moved, faults, excused>>

\* One file operation, or the note of one that was done.
Do(op, o) ==
    CASE op = "reserve" -> backup' = [backup EXCEPT ![o] = "reserved"]
                           /\ UNCHANGED <<sink, temp, noted, moved>>
      [] op = "aside"   -> backup' = [backup EXCEPT ![o] = "old"]
                           /\ sink' = [sink EXCEPT ![o] = "absent"]
                           /\ UNCHANGED <<temp, noted, moved>>
      [] op = "note"    -> noted' = noted \cup {o} /\ UNCHANGED <<sinkVars, moved>>
      [] op = "replace" -> sink' = [sink EXCEPT ![o] = "new"] /\ temp' = temp \ {o}
                           /\ UNCHANGED <<backup, noted, moved>>
      [] op = "record"  -> moved' = moved \cup {o} /\ UNCHANGED <<sinkVars, noted>>
      [] op = "restore" -> sink' = [sink EXCEPT ![o] = "old"]
                           /\ backup' = [backup EXCEPT ![o] = "none"]
                           /\ UNCHANGED <<temp, noted, moved>>
      [] op = "remove"  -> sink' = [sink EXCEPT ![o] = "absent"]
                           /\ UNCHANGED <<temp, backup, noted, moved>>
      [] op = "untemp"  -> temp' = temp \ {o} /\ UNCHANGED <<sink, backup, noted, moved>>
      [] op = "discard" -> backup' = [backup EXCEPT ![o] = "none"]
                           /\ UNCHANGED <<sink, temp, noted, moved>>

\* What follows once nothing is left to do.
After(state) == CASE state = "promoting" -> "cleaning"
                  [] state = "cleaning" -> "done"
                  [] state = "recovering" -> "failed"

FileStep ==
    /\ apc \in {"promoting", "cleaning", "recovering"}
    /\ IF todo # <<>>
       THEN /\ Do(Head(todo)[1], Head(todo)[2])
            /\ todo' = Tail(todo) /\ UNCHANGED apc
       ELSE /\ apc' = After(apc)
            /\ todo' = IF apc = "promoting" THEN Each(noted, <<"discard">>) ELSE <<>>
            /\ UNCHANGED <<sinkVars, noted, moved>>
    /\ UNCHANGED <<profile, mode, raw, streamVars, had, faults, excused>>

\* SLIP: the backups are cleaned up here too, as after a success.
Recovery_CleansUp ==
    Each(noted, <<"discard">>) \o Each(moved \ noted, <<"remove">>) \o Each(temp, <<"untemp">>)

\* The handler: backups back into place, last first; outputs that had no backup
\* removed; temporary files removed.
Recovery ==
    Swap(Each(noted, <<"restore">>)) \o Each(moved \ noted, <<"remove">>)
        \o Each(temp, <<"untemp">>)

\* A step raises.  While reading, the temporary files go; while promoting, the
\* handler undoes; the removal of backups is not undone; and in the recovery a
\* backup that cannot be put back is skipped, a file that cannot be removed ends it.
Raise ==
    /\ apc \in {"reading", "promoting", "cleaning", "recovering"} /\ faults < MaxFaults
    /\ apc = "recovering" => todo # <<>>
    /\ faults' = faults + 1
    /\ CASE apc = "reading"    -> apc' = "failed" /\ todo' = <<>> /\ temp' = {}
         [] apc = "promoting"  -> apc' = "recovering" /\ todo' = Recovery /\ UNCHANGED temp
         [] apc = "cleaning"   -> apc' = "failed" /\ todo' = <<>> /\ UNCHANGED temp
         [] apc = "recovering" -> /\ todo' = IF Head(todo)[1] = "restore" THEN Tail(todo) ELSE <<>>
                                  /\ UNCHANGED <<apc, temp>>
    /\ excused' = (excused \/ apc \in {"cleaning", "recovering"}
                     \/ (todo # <<>> /\ Head(todo)[1] \in {"note", "record"}))
    /\ UNCHANGED <<profile, mode, raw, streamVars, had, sink, backup, noted, moved>>

Kill ==
    /\ apc \in {"reading", "promoting", "cleaning", "recovering"} /\ faults < MaxFaults
    /\ faults' = faults + 1 /\ apc' = "killed" /\ todo' = <<>>
    /\ UNCHANGED <<profile, mode, raw, streamVars, had, sinkVars, noted, moved, excused>>

AdapterNext ==
    \/ Open \/ OpenFails \/ ReadLine \/ EndOfInput \/ FileStep \/ Raise \/ Kill

-----------------------------------------------------------------------------
\* An earlier run's output is never gone before this run's two outputs stand in
\* its place: it is at its path or, whole, in a backup file.
OldOutputSurvives ==
    \A o \in had : \/ sink[o] = "old" \/ backup[o] = "old"
                   \/ \A other \in Sinks : sink[other] = "new"

\* A run that succeeds leaves two new files and nothing beside them.
SuccessIsClean ==
    apc = "done" => \A o \in Sinks : sink[o] = "new" /\ backup[o] = "none" /\ o \notin temp

\* A run that cannot open its sinks, or raises in file mode, leaves every sink as
\* it found it, unless the exception fell between a rename and its note or the
\* recovery failed too.
FailureUndoes ==
    apc = "unopened" \/ (apc = "failed" /\ ~excused /\ mode = "file") =>
        \A o \in Sinks : sink[o] = (IF o \in had THEN "old" ELSE "absent") /\ o \notin temp

\* The two outputs of a run change together and an earlier run's are never lost
\* on the way, wherever a step raises or the process is killed.
OutputsSurvive ==
    (mode = "file" => OldOutputSurvives /\ SuccessIsClean) /\ FailureUndoes
=============================================================================
