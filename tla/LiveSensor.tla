------------------------------ MODULE LiveSensor ------------------------------
(***************************************************************************)
(* The live sensor: dumpcap (external) writes a ring of capture windows and *)
(* prints the name of each file it opens; the daemon (runtime/live_sensor,  *)
(* with the capture manager, the flow bridge and the pipeline runner)       *)
(* turns closed windows into flow records, scores them in batches and       *)
(* appends the outcomes to the local sink.  The daemon is one thread;       *)
(* dumpcap, the clock and whatever kills the process run beside it.         *)
(*                                                                         *)
(* A window is its number.  A record that leaves the bridge is "valid",     *)
(* "invalid" (quarantined by the runtime contract) or "unadapted"           *)
(* (quarantined by the adapter).                                            *)
(***************************************************************************)
EXTENDS Naturals, Sequences, Functions

CONSTANTS
    MaxWindows,     \* BOUND: files dumpcap opens, over all sessions
    MaxRecords,     \* BOUND: records of one window
    FileCount,      \* --capture-window-file-count
    MaxPending,     \* --max-pending-windows
    MaxBatch,       \* --max-batch-size
    FlushInterval,  \* --flush-interval-seconds, in ticks
    MaxFailures     \* BOUND: exceptions and kills

Windows == 1..MaxWindows
Kinds == {"valid", "invalid", "unadapted"}
Records == [window : Windows, index : 1..MaxRecords, kind : Kinds]

ASSUME SensorAssumption ==
    /\ MaxWindows \in Nat /\ MaxRecords \in Nat /\ MaxFailures \in Nat
    /\ {FileCount, MaxPending, MaxBatch, FlushInterval} \subseteq Nat \ {0}

VARIABLES
    opened,     \* the last window dumpcap opened
    base,       \* the last window of earlier sessions
    spool,      \* windows on disk
    printed,    \* names dumpcap has printed and the daemon has not read
    dumpcap,    \* "running", or how it exited
    active,     \* RollingDumpcapCaptureManager._active_window_path, 0 for None
    pending,    \* RollingDumpcapCaptureManager._pending_windows
    queue,      \* LiveSensorDaemon._pending_windows
    hand,       \* the window being processed, 0 for none
    todo,       \* adapted records of that window not yet ingested
    buffer,     \* RealtimePipelineRunner._buffer
    age,        \* time since _buffer_started_at
    results,    \* quarantines and predictions not yet recorded
    sink,       \* what the sink recorded
    pc, failures,
    extracted   \* history: records the bridge delivered, lost ones removed

dumpcapVars == <<opened, base, printed, dumpcap>>
queueVars == <<active, pending, queue>>
runnerVars == <<buffer, age>>
vars == <<dumpcapVars, spool, queueVars, hand, todo, runnerVars, results, sink, pc,
          failures, extracted>>

\* Capture order: by window, and by row of the extractor's output within one.
Before(r, q) == r.window < q.window \/ (r.window = q.window /\ r.index < q.index)

-----------------------------------------------------------------------------
Init ==
    /\ opened = 0 /\ base = 0 /\ spool = {} /\ printed = <<>> /\ dumpcap = "running"
    /\ active = 0 /\ pending = <<>> /\ queue = <<>> /\ hand = 0 /\ todo = <<>>
    /\ buffer = <<>> /\ age = 0 /\ results = <<>> /\ sink = <<>>
    /\ pc = "reading" /\ failures = 0 /\ extracted = {}

(* dumpcap -b files:FileCount -b printname:stderr.                         *)

Rotate ==
    /\ dumpcap = "running" /\ pc # "failed" /\ opened < MaxWindows
    /\ opened' = opened + 1
    /\ spool' = (spool \cup {opened + 1})
                   \ {w \in Windows : w > base /\ w + FileCount = opened + 1}
    /\ printed' = Append(printed, opened + 1)
    /\ UNCHANGED <<base, dumpcap, queueVars, hand, todo, runnerVars, results, sink, pc,
                   failures, extracted>>

DumpcapExit ==
    /\ dumpcap = "running" /\ pc # "failed"
    /\ dumpcap' \in {"recoverable", "fatal"}
    /\ UNCHANGED <<opened, base, printed, spool, queueVars, hand, todo, runnerVars, results,
                   sink, pc, failures, extracted>>

(* The daemon.                                                             *)

\* SLIP: the printed window is taken to be the closed one.
ReadLine_TakesOpened ==
    /\ pc = "reading" /\ printed # <<>>
    /\ printed' = Tail(printed) /\ active' = Head(printed)
    /\ pending' = Append(pending, Head(printed)) /\ queue' = Append(queue, Head(printed))
    /\ pc' = "processing"
    /\ UNCHANGED <<opened, base, dumpcap, spool, hand, todo, runnerVars, results, sink,
                   failures, extracted>>

\* record_closed_window_notification: the name of a window just opened closes the one
\* before it; the manager raises when as many as it may hold are pending.
Backlogged == active # 0 /\ Len(pending) >= MaxPending
Closed == IF active = 0 \/ Backlogged THEN <<>> ELSE <<active>>

\* enqueue_notification_line.  What the manager raises ends the session, and nothing
\* closes it.
ReadLine ==
    /\ pc = "reading" /\ printed # <<>>
    /\ printed' = Tail(printed)
    /\ active' = Head(printed)
    /\ pending' = pending \o Closed
    /\ queue' = queue \o Closed
    /\ pc' = IF Backlogged THEN "failed" ELSE "processing"
    /\ UNCHANGED <<opened, base, dumpcap, spool, hand, todo, runnerVars, results, sink,
                   failures, extracted>>

\* Rows of window w of the given kinds, in some order.
Rows(w, kinds) ==
    UNION {[1..n -> {r \in Records : r.window = w /\ r.kind \in kinds}] : n \in 0..MaxRecords}

InOrder(records) == \A i, j \in DOMAIN records : i < j => Before(records[i], records[j])

\* Everything the extractor and the adapter can make of window w: its rows in order,
\* adapted ones apart from refused ones; a window the ring has overwritten is a
\* window error.
Flows(w) ==
    {f \in Rows(w, {"valid", "invalid"}) \X Rows(w, {"unadapted"}) :
       /\ InOrder(f[1]) /\ InOrder(f[2])
       /\ \A r \in Range(f[1]), q \in Range(f[2]) : r.index # q.index
       /\ \A r \in Range(f[1]) \cup Range(f[2]) : r.index <= Len(f[1]) + Len(f[2])
       /\ w \notin spool => f = <<<<>>, <<>>>>}

\* process_pending_windows takes the next window and bridges it.
BridgeWindow ==
    /\ pc = "processing" /\ queue # <<>>
    /\ hand' = Head(queue)
    /\ queue' = Tail(queue)
    /\ \E flows \in Flows(Head(queue)) :
         /\ results' = flows[2]
         /\ todo' = flows[1]
         /\ extracted' = extracted \cup Range(flows[1]) \cup Range(flows[2])
    /\ pc' = "applying"
    /\ UNCHANGED <<dumpcapVars, spool, active, pending, runnerVars, sink, failures>>

\* The sink appends one quarantine event, alert or benign count.
Record ==
    /\ pc # "failed" /\ results # <<>>
    /\ sink' = Append(sink, Head(results))
    /\ results' = Tail(results)
    /\ UNCHANGED <<dumpcapVars, spool, queueVars, hand, todo, runnerVars, pc, failures,
                   extracted>>

FlushDue == buffer # <<>> /\ age >= FlushInterval

\* SLIP: an invalid record returns without the batch that was flushed.
IngestRecord_DropsBatch ==
    /\ pc = "applying" /\ results = <<>> /\ todo # <<>>
    /\ LET held == IF FlushDue THEN <<>> ELSE buffer
           grown == Append(held, Head(todo))
       IN  IF Head(todo).kind = "invalid"
           THEN results' = <<Head(todo)>> /\ buffer' = held /\ UNCHANGED age
           ELSE /\ results' = IF FlushDue THEN buffer
                              ELSE IF Len(grown) >= MaxBatch THEN grown ELSE <<>>
                /\ buffer' = IF Len(grown) >= MaxBatch THEN <<>> ELSE grown
                /\ age' = 0
    /\ todo' = Tail(todo)
    /\ UNCHANGED <<dumpcapVars, spool, queueVars, hand, sink, pc, failures, extracted>>

\* ingest_record: flush what is due, then quarantine the record or buffer it,
\* then flush a full batch.
IngestRecord ==
    /\ pc = "applying" /\ results = <<>> /\ todo # <<>>
    /\ LET record == Head(todo)
           due == IF FlushDue THEN buffer ELSE <<>>
           held == IF FlushDue THEN <<>> ELSE buffer
           grown == Append(held, record)
           full == Len(grown) >= MaxBatch
       IN  IF record.kind = "invalid"
           THEN /\ results' = <<record>> \o due
                /\ buffer' = held
                /\ age' = IF held = <<>> THEN 0 ELSE age
           ELSE /\ results' = due \o (IF full THEN grown ELSE <<>>)
                /\ buffer' = IF full THEN <<>> ELSE grown
                /\ age' = IF full \/ held = <<>> THEN 0 ELSE age
    /\ todo' = Tail(todo)
    /\ UNCHANGED <<dumpcapVars, spool, queueVars, hand, sink, pc, failures, extracted>>

\* flush_if_due at the end of _apply_bridge_result.
ApplyEnd ==
    /\ pc = "applying" /\ results = <<>> /\ todo = <<>>
    /\ IF FlushDue THEN results' = buffer /\ buffer' = <<>> /\ age' = 0
                   ELSE UNCHANGED <<results, buffer, age>>
    /\ pc' = "cleaning"
    /\ UNCHANGED <<dumpcapVars, spool, queueVars, hand, todo, sink, failures, extracted>>

\* The finally clause: unlink the window and acknowledge it, which drops the first
\* pending window of that name; the KeyError of one that is not pending is caught.
Cleanup ==
    /\ pc = "cleaning" /\ results = <<>>
    /\ spool' = spool \ {hand}
    /\ IF hand \in Range(pending)
       THEN \E k \in DOMAIN pending :
              /\ pending[k] = hand /\ \A j \in 1..(k - 1) : pending[j] # hand
              /\ pending' = SubSeq(pending, 1, k - 1) \o SubSeq(pending, k + 1, Len(pending))
       ELSE UNCHANGED pending
    /\ hand' = 0
    /\ pc' = "processing"
    /\ UNCHANGED <<dumpcapVars, active, queue, todo, runnerVars, results, sink, failures,
                   extracted>>

QueueDrained ==
    /\ pc = "processing" /\ queue = <<>>
    /\ pc' = "reading"
    /\ UNCHANGED <<dumpcapVars, spool, queueVars, hand, todo, runnerVars, results, sink,
                   failures, extracted>>

\* SLIP: the reader waits for the window that is still open.
EndOfStream_WaitsForActive ==
    /\ pc = "reading" /\ printed = <<>> /\ dumpcap # "running" /\ active = 0
    /\ results' = buffer /\ buffer' = <<>> /\ age' = 0
    /\ pc' = "closing"
    /\ UNCHANGED <<dumpcapVars, spool, queueVars, hand, todo, sink, failures, extracted>>

\* dumpcap's stderr ends: close() drains the runner.  The window that was
\* still open is not processed.
EndOfStream ==
    /\ pc = "reading" /\ printed = <<>> /\ dumpcap # "running"
    /\ results' = buffer /\ buffer' = <<>> /\ age' = 0
    /\ pc' = "closing"
    /\ UNCHANGED <<dumpcapVars, spool, queueVars, hand, todo, sink, failures, extracted>>

\* sink.close; a fatal exit of dumpcap is then raised.
CloseSession ==
    /\ pc = "closing" /\ results = <<>>
    /\ pc' = IF dumpcap = "fatal" THEN "failed" ELSE "closed"
    /\ UNCHANGED <<dumpcapVars, spool, queueVars, hand, todo, runnerVars, results, sink,
                   failures, extracted>>

\* predict or the sink raises: the finally clause still removes the window in
\* hand, and nothing drains the runner.
Raise ==
    /\ pc \in {"applying", "cleaning", "closing"} /\ failures < MaxFailures
    /\ buffer \o results # <<>>
    /\ failures' = failures + 1
    /\ spool' = spool \ {hand}
    /\ pc' = "failed"
    /\ UNCHANGED <<dumpcapVars, queueVars, hand, todo, runnerVars, results, sink, extracted>>

Kill ==
    /\ pc \notin {"closed", "failed"} /\ failures < MaxFailures
    /\ failures' = failures + 1
    /\ pc' = "failed"
    /\ UNCHANGED <<dumpcapVars, spool, queueVars, hand, todo, runnerVars, results, sink,
                   extracted>>

\* Restart=on-failure: a new process and a new dumpcap.  What the old one held
\* in memory is lost, and its windows stay on disk.
Restart ==
    /\ pc = "failed"
    /\ base' = opened /\ printed' = <<>> /\ dumpcap' = "running"
    /\ active' = 0 /\ pending' = <<>> /\ queue' = <<>> /\ hand' = 0 /\ todo' = <<>>
    /\ buffer' = <<>> /\ age' = 0 /\ results' = <<>>
    /\ pc' = "reading"
    /\ extracted' = Range(sink)
    /\ UNCHANGED <<opened, spool, sink, failures>>

Tick ==
    /\ buffer # <<>> /\ age < FlushInterval /\ pc # "failed"
    /\ age' = age + 1
    /\ UNCHANGED <<dumpcapVars, spool, queueVars, hand, todo, buffer, results, sink, pc,
                   failures, extracted>>

DaemonStep == \/ ReadLine \/ BridgeWindow \/ Record \/ IngestRecord \/ ApplyEnd \/ Cleanup
              \/ QueueDrained \/ EndOfStream \/ CloseSession

Next == Rotate \/ DumpcapExit \/ DaemonStep \/ Raise \/ Kill \/ Restart \/ Tick

Spec == Init /\ [][Next]_vars

\* The daemon is a running process that systemd restarts when it fails; nothing
\* is promised of dumpcap.
FairSpec == Spec /\ WF_vars(DaemonStep) /\ WF_vars(Restart)

-----------------------------------------------------------------------------
\* Every record of a bridged window reaches the sink once: valid ones in capture
\* order, whichever of the batch-size, interval and final flushes takes them,
\* quarantined ones without waiting for a batch; and a session that ends with
\* dumpcap, well or badly, has handed on all there was.
RecordsAccounted ==
    /\ LET line == sink \o results \o buffer \o todo
       IN  /\ Range(line) = extracted
           /\ \A i, j \in DOMAIN line : i < j =>
                /\ line[i] # line[j]
                /\ line[i].kind = "valid" /\ line[j].kind = "valid" => Before(line[i], line[j])
    /\ \A k \in DOMAIN buffer : buffer[k].kind = "valid"
    /\ pc \in {"closing", "closed"} => buffer = <<>> /\ todo = <<>> /\ queue = <<>>

\* What the manager counts against its ceiling is what the daemon still has to
\* process, in its order, and all of it is behind the window dumpcap writes: what
\* is bridged and then unlinked is never the file being written.
WindowsAreClosed ==
    /\ pc # "failed" => pending = (IF hand = 0 THEN <<>> ELSE <<hand>>) \o queue
    /\ \A k \in DOMAIN pending : pending[k] < opened

\* When dumpcap is gone the session ends, and a failed one starts over.
SessionEnds == dumpcap # "running" ~> (pc = "closed" \/ dumpcap = "running")
=============================================================================
