--------------------------- MODULE RecordPipeline ---------------------------
(***************************************************************************)
(* The micro-batching scorer (runtime/realtime_pipeline.py and              *)
(* runtime/inference.py) behind the record adapter, behind the live flow    *)
(* bridge, or fed by upstream directly.  From a file it starts when the     *)
(* adapter's output is in place; from a pipe a reader thread queues what    *)
(* has left the adapter's output buffer, and the main loop wakes up at      *)
(* every poll interval as well.                                             *)
(*                                                                         *)
(* What the models answer is chosen at the start: the lines stage 1 calls   *)
(* attacks, and the lines without a usable value for a stage-2 column.      *)
(***************************************************************************)
EXTENDS FlowWindow

CONSTANTS
    BatchSize,     \* --max-batch-size
    MaxLacking,    \* BOUND: lines stage 2 cannot take
    MaxRows        \* BOUND: of a window's rows, the ones that may be attacks

ASSUME BatchSizeAssumption == BatchSize \in Nat \ {0}

VARIABLES
    feed,       \* the scorer's input: "file" or "stdin"
    attacks,    \* lines scored at or above the threshold
    lacking,    \* lines with a stage-2 column missing or not numeric
    handed,     \* adapted records that have reached the pipe
    queued,     \* of those, the ones the reader thread has put on the queue
    closed,     \* it has put _STREAM_END
    consumed,   \* records the main loop has taken
    buffer,     \* records waiting to be scored: [line, from]
    due,        \* flush_interval_seconds have passed since the first of them
    alerts,     \* scored records written, with the verdict
    anomalies,  \* lines written to the scorer's own quarantine
    ppc         \* "running", "done" or "raised"

pipeVars == <<handed, queued, closed>>
batchVars == <<buffer, due, alerts>>
scorerVars == <<feed, attacks, lacking, pipeVars, consumed, batchVars, anomalies, ppc>>
upstreamVars == <<adapterVars, windowVars>>
vars == <<upstreamVars, scorerVars>>

Lines(seq) == [k \in DOMAIN seq |-> seq[k].line]

\* What the scorer can read of its input, and whether that is all of it.
Readable == IF feed = "stdin" THEN queued ELSE IF apc = "done" THEN Len(adapted) ELSE 0
AtEnd == consumed = Readable /\ (IF feed = "stdin" THEN closed ELSE apc = "done")

Init ==
    /\ AdapterInit /\ WindowInit
    /\ feed \in {"file", "stdin"} /\ (mode \in {"file", "bridge"} => feed = "file")
    /\ LET lines == IF mode = "bridge" THEN 1..MaxRows ELSE DOMAIN raw
       IN  attacks \in SUBSET lines /\ lacking \in SUBSET lines
    /\ Cardinality(lacking) <= MaxLacking
    /\ handed = 0 /\ queued = 0 /\ closed = FALSE /\ consumed = 0
    /\ buffer = <<>> /\ due = FALSE /\ alerts = <<>> /\ anomalies = <<>> /\ ppc = "running"

-----------------------------------------------------------------------------
(* The pipe.  _write_jsonl_record does not flush: a record leaves the       *)
(* adapter when its output buffer fills up or the process exits.            *)

Hand ==
    /\ mode # "file" /\ apc # "killed" /\ handed < Len(adapted)
    /\ \E n \in handed + 1..Len(adapted) : handed' = n
    /\ UNCHANGED <<upstreamVars, feed, attacks, lacking, queued, closed, consumed, batchVars,
                   anomalies, ppc>>

Reader ==
    /\ feed = "stdin" /\ ~closed /\ queued < handed
    /\ queued' = queued + 1
    /\ UNCHANGED <<upstreamVars, feed, attacks, lacking, handed, closed, consumed, batchVars,
                   anomalies, ppc>>

\* Upstream closes the pipe: everything still buffered has been handed over,
\* unless the adapter was killed.
ReaderEnds ==
    /\ feed = "stdin" /\ ~closed /\ queued = handed
    /\ \/ apc = "killed"
       \/ /\ apc \in {"done", "failed", "unopened"}
          /\ mode # "file" => handed = Len(adapted)
    /\ closed' = TRUE
    /\ UNCHANGED <<upstreamVars, feed, attacks, lacking, handed, queued, consumed, batchVars,
                   anomalies, ppc>>

-----------------------------------------------------------------------------
(* Scoring.                                                                *)

\* IDSInferencer.score_frame aligns the stage-2 columns of the attack rows
\* only, and raises for the whole frame if one of them has no number there.
Raises(batch) == \E k \in DOMAIN batch : batch[k].line \in attacks \cap lacking

\* The prediction events of a batch, in its order.
Scored(batch) ==
    [k \in DOMAIN batch |-> [line |-> batch[k].line, from |-> batch[k].from,
                             alert |-> batch[k].line \in attacks]]

\* flush_buffer of a batch; then `rest` is what is buffered.  What it raises
\* nobody catches.
Flush(batch, rest) ==
    /\ due' = FALSE
    /\ IF Raises(batch) THEN ppc' = "raised" /\ buffer' = batch /\ UNCHANGED alerts
       ELSE alerts' = alerts \o Scored(batch) /\ buffer' = rest /\ UNCHANGED ppc

\* The next line as the scorer reads it: what the adapter wrote is a record.
Incoming ==
    LET entry == adapted[consumed + 1]
    IN  IF mode = "none" THEN raw[entry.line]
        ELSE [form |-> "record", record |-> entry.record]

Taking ==
    /\ ppc = "running" /\ consumed < Readable /\ consumed' = consumed + 1
    /\ UNCHANGED <<upstreamVars, feed, attacks, lacking, pipeVars>>

\* run_pipeline_stream takes a line that is blank, or not a JSON object.
TakeUnparsed ==
    /\ Taking /\ Incoming.form # "record"
    /\ anomalies' = IF Incoming.form = "blank" THEN anomalies
                    ELSE Append(anomalies, adapted[consumed + 1].line)
    /\ UNCHANGED <<batchVars, ppc>>

\* ingest_record: a buffer that is due is flushed before the record is looked
\* at, a full one with it.
TakeRecord ==
    /\ Taking /\ Incoming.form = "record"
    /\ LET result == Validate(Incoming.record)
           line == adapted[consumed + 1].line
           entries == IF result.verdict = "valid"
                      THEN <<[line |-> line, from |-> result.aligned]>> ELSE <<>>
           grown == buffer \o entries
       IN  /\ CASE due -> Flush(buffer, entries)
                [] ~due /\ Len(grown) < BatchSize -> buffer' = grown
                                                     /\ UNCHANGED <<due, alerts, ppc>>
                [] OTHER -> Flush(grown, <<>>)
           /\ anomalies' = IF entries = <<>> /\ ppc' = "running" THEN Append(anomalies, line)
                           ELSE anomalies

\* The interval passes.
Tick ==
    /\ buffer # <<>> /\ ~due /\ ppc = "running" /\ due' = TRUE
    /\ UNCHANGED <<upstreamVars, feed, attacks, lacking, pipeVars, consumed, buffer, alerts,
                   anomalies, ppc>>

\* The daemon calls flush_if_due after every window, one without records too.
Quiet == ppc = "running" /\ consumed = Readable
         /\ (IF feed = "stdin" THEN ~closed ELSE mode = "bridge" /\ apc = "done")
         /\ UNCHANGED <<upstreamVars, feed, attacks, lacking, pipeVars, consumed, anomalies>>

\* SLIP: the poll interval ends and the loop goes round.
Poll_Idle == Quiet /\ due /\ UNCHANGED <<batchVars, ppc>>

\* line_queue.get times out: flush_if_due.
Poll == Quiet /\ due /\ Flush(buffer, <<>>)

Ending ==
    /\ ppc = "running" /\ AtEnd
    /\ UNCHANGED <<upstreamVars, feed, attacks, lacking, pipeVars, consumed, anomalies>>

\* SLIP: only a buffer that is due is flushed at the end.
Finalize_IfDue ==
    /\ Ending
    /\ IF due /\ Raises(buffer) THEN ppc' = "raised" /\ UNCHANGED batchVars
       ELSE /\ ppc' = "done" /\ due' = FALSE /\ buffer' = <<>>
            /\ alerts' = IF due THEN alerts \o Scored(buffer) ELSE alerts

\* The end of the stream: finalize flushes what is left.
Finalize ==
    /\ Ending
    /\ IF Raises(buffer) THEN ppc' = "raised" /\ UNCHANGED batchVars
       ELSE /\ ppc' = "done" /\ due' = FALSE /\ buffer' = <<>>
            /\ alerts' = alerts \o Scored(buffer)

-----------------------------------------------------------------------------
Adapting == AdapterNext /\ UNCHANGED <<windowVars, scorerVars>>
Windowing == WindowNext /\ UNCHANGED scorerVars

Next == \/ Adapting \/ Windowing \/ Hand \/ Reader \/ ReaderEnds
        \/ TakeUnparsed \/ TakeRecord \/ Tick \/ Poll \/ Finalize

\* The scorer's main loop and the clock go on; upstream, the adapter and its
\* output buffer may stay silent for good with the pipe open, and so may the
\* link behind the bridge: no window then closes, and no session.
FairSpec ==
    /\ Init /\ [][Next]_vars
    /\ WF_vars(TakeUnparsed \/ TakeRecord) /\ WF_vars(mode # "bridge" /\ Finalize)
    /\ WF_vars(feed = "stdin" /\ Poll) /\ WF_vars(Tick)

-----------------------------------------------------------------------------
\* ns is S in order, each member once.
Lists(ns, S) == Range(ns) = S /\ \A i, j \in DOMAIN ns : i < j => ns[i] < ns[j]

\* What line n is to the scorer: what it is written as, whether it can be scored,
\* and whether it belongs into the scorer's quarantine.
Form(n) == IF mode = "none" THEN raw[n].form ELSE "record"
Valid(n) == Form(n) = "record" /\ (mode = "none" => Validate(raw[n].record).verdict = "valid")
Odd(n) == ~Valid(n) /\ Form(n) # "blank"

\* The outputs account for the first `count` records of the input.
Complete(count) ==
    LET ns == {adapted[k].line : k \in 1..count}
    IN  /\ Lists(Lines(alerts) \o Lines(buffer), {n \in ns : Valid(n)})
        /\ Lists(anomalies, {n \in ns : Odd(n)})

\* Micro-batching and the timer cannot be seen in the output: of the lines the
\* scorer has taken, the valid ones are scored, or about to be, once each and in
\* order, and every other one is in the quarantine; nothing is left behind at
\* the end; and what the adapter let through is always valid.  A run stops short
\* only when an attack in the batch has no number for stage 2, and then it loses
\* that batch and the line in hand, no more.
BatchingIsInvisible ==
    /\ ppc # "raised" => Complete(consumed)
    /\ ppc = "raised" => Raises(buffer) /\ (Complete(consumed) \/ Complete(consumed - 1))
    /\ ppc = "done" => buffer = <<>>

\* The value scored in a column is the one upstream gave under the key that the
\* profile names for it: no other key of the record can stand in, and no field
\* is dropped or renamed twice on the way through the two validations.
FeaturesHaveOneSource ==
    \A k \in DOMAIN alerts :
        LET record == raw[alerts[k].line].record
            Names(c) == IF mode = "none"
                        THEN {key \in {c} \cup DOMAIN Aliases : Name(Aliases, key) = c}
                        ELSE {key \in DOMAIN profile.features : profile.features[key] = c}
            Under(keys) == {i \in DOMAIN record :
                              (IF mode = "none" THEN record[i].key ELSE Strip[record[i].key])
                                \in keys}
        IN  \A c \in Columns :
                \E i \in DOMAIN record :
                    Under(Names(c)) = {i} /\ alerts[k].from[c] = record[i].origin

\* A record waiting for company is scored when the stream falls silent, with the
\* pipe open: the poll timeout looks at the buffer.
QuietStreamFlushes == (buffer # <<>> /\ mode # "bridge") ~> (buffer = <<>> \/ ppc = "raised")
=============================================================================
