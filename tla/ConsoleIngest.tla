---------------------------- MODULE ConsoleIngest ----------------------------
(***************************************************************************)
(* How the operator console follows the sensor's JSONL files                *)
(* (console/ingest.py, and the offset row of console/db.py).  The sensor    *)
(* appends lines, log rotation removes or truncates files, and any number   *)
(* of processes (the notify-worker, a notify-run-once) read them stream     *)
(* after stream before they queue and dispatch notifications.               *)
(*                                                                         *)
(* A file is a sequence of cells: the body of a line, written as the line's *)
(* number, or NL.  A segment is what stands between two NLs: one line, or,  *)
(* after a sensor died in the middle of a write, several run together.      *)
(***************************************************************************)
EXTENDS Naturals, Sequences, FiniteSets

CONSTANTS
    StreamCount,   \* streams are read in the order 1, 2, ...
    KindOf,        \* "alert", "anomaly" or "summary", by stream
    MaxLines,      \* BOUND: lines the sensor writes
    ClassOf,       \* "identified", "anonymous", "malformed" or "undecodable"
    Ingestors,     \* processes that run maintenance cycles
    MaxFiles,      \* BOUND: inodes used
    MaxTruncates,  \* BOUND: truncations in place
    MaxTears,      \* BOUND: writes the sensor leaves unfinished
    MaxCrashes     \* BOUND: crashes of ingestors

Streams == 1..StreamCount
Lines == 1..MaxLines
NL == 0

ASSUME IngestAssumption ==
    /\ StreamCount \in Nat \ {0} /\ MaxLines \in Nat
    /\ KindOf \in [Streams -> {"alert", "anomaly", "summary"}]
    /\ ClassOf \in [Lines -> {"identified", "anonymous", "malformed", "undecodable"}]
    /\ {MaxFiles, MaxTruncates, MaxTears, MaxCrashes} \subseteq Nat

VARIABLES
    file,      \* content of each stream's file
    inode,     \* its inode, 0 while there is no file
    writing,   \* whether the sensor is in the middle of a line
    row,       \* ingest_offsets, by stream
    rows,      \* rows of alerts, anomalies or summaries that hold each line
    pc,        \* where each ingestor is in its cycle
    stream,    \* the stream it is reading
    seen,      \* the inode its stat found
    content,   \* what it read (kept whole; it reads from pos on)
    pos,       \* how far it is
    written, inodes, tears, truncated, crashes

fileVars == <<file, inode, writing, written, inodes, tears, truncated>>
dbVars == <<row, rows>>
localVars == <<pc, stream, seen, content, pos>>
vars == <<fileVars, dbVars, localVars, crashes>>

OffsetRows == [known : BOOLEAN, inode : Nat, offset : Nat]
NoOffset == [known |-> FALSE, inode |-> 0, offset |-> 0]

-----------------------------------------------------------------------------
(* The reader's decisions.                                                 *)

\* Where a cycle that starts now resumes: at the recorded offset, unless the
\* file is gone, is shorter, or is another file.
StartOffset(s) ==
    IF /\ row[s].known /\ inode[s] # 0
       /\ row[s].offset <= Len(file[s])
       /\ row[s].inode = inode[s]
    THEN row[s].offset ELSE 0

\* The segment of c after position p that the NL at q ends.
Ends(c, p, q) == c[q] = NL /\ \A i \in (p + 1)..(q - 1) : c[i] # NL
Segment(c, p, q) == {c[i] : i \in (p + 1)..(q - 1)}

\* SLIP: a line that is not JSON raises out of the loop as well.
Undecodable_Malformed(segment) ==
    \E l \in segment : ClassOf[l] \in {"malformed", "undecodable"}

Undecodable(segment) == \E l \in segment : ClassOf[l] = "undecodable"

\* SLIP: identified lines are inserted like the others.
Upserted_Never(s, segment) == FALSE

\* upsert_alert by (sensor_id, source_event_id) and store_summary by
\* summary_ts update the row that is there; every other line is an INSERT, and
\* one that does not parse is an "ingest_parse_error" anomaly.
Upserted(s, segment) ==
    /\ KindOf[s] \in {"alert", "summary"}
    /\ \E l \in segment : segment = {l} /\ ClassOf[l] = "identified"

-----------------------------------------------------------------------------
Init ==
    /\ file = [s \in Streams |-> <<>>] /\ inode = [s \in Streams |-> 0]
    /\ writing = [s \in Streams |-> FALSE]
    /\ row = [s \in Streams |-> NoOffset] /\ rows = [l \in Lines |-> 0]
    /\ pc = [i \in Ingestors |-> "idle"] /\ stream = [i \in Ingestors |-> 1]
    /\ seen = [i \in Ingestors |-> 0] /\ content = [i \in Ingestors |-> <<>>]
    /\ pos = [i \in Ingestors |-> 0]
    /\ written = 0 /\ inodes = 0 /\ tears = 0 /\ truncated = {} /\ crashes = 0

(* The sensor's sink and log rotation.                                      *)

\* _append_jsonl_record opens by path and appends, creating the file.
BeginLine(s) ==
    /\ ~writing[s] /\ written < MaxLines
    /\ \/ inode[s] # 0 /\ UNCHANGED <<inode, inodes>>
       \/ /\ inode[s] = 0 /\ inodes < MaxFiles
          /\ inodes' = inodes + 1
          /\ inode' = [inode EXCEPT ![s] = inodes + 1]
    /\ written' = written + 1
    /\ file' = [file EXCEPT ![s] = Append(@, written + 1)]
    /\ writing' = [writing EXCEPT ![s] = TRUE]
    /\ UNCHANGED <<tears, truncated, dbVars, localVars, crashes>>

EndLine(s) ==
    /\ writing[s]
    /\ file' = [file EXCEPT ![s] = Append(@, NL)]
    /\ writing' = [writing EXCEPT ![s] = FALSE]
    /\ UNCHANGED <<inode, written, inodes, tears, truncated, dbVars, localVars, crashes>>

\* The sensor dies between the body and its newline.
Tear(s) ==
    /\ writing[s] /\ tears < MaxTears
    /\ tears' = tears + 1
    /\ writing' = [writing EXCEPT ![s] = FALSE]
    /\ UNCHANGED <<file, inode, written, inodes, truncated, dbVars, localVars, crashes>>

\* The file is renamed or deleted; a line being written ends in the old file.
Remove(s) ==
    /\ inode[s] # 0 /\ inodes < MaxFiles
    /\ file' = [file EXCEPT ![s] = <<>>]
    /\ inode' = [inode EXCEPT ![s] = 0]
    /\ writing' = [writing EXCEPT ![s] = FALSE]
    /\ UNCHANGED <<written, inodes, tears, truncated, dbVars, localVars, crashes>>

\* The file is emptied in place.
Truncate(s) ==
    /\ inode[s] # 0 /\ Len(file[s]) > 0 /\ ~writing[s]
    /\ Cardinality(truncated) < MaxTruncates
    /\ truncated' = truncated \cup {inode[s]}
    /\ file' = [file EXCEPT ![s] = <<>>]
    /\ UNCHANGED <<inode, writing, written, inodes, tears, dbVars, localVars, crashes>>

(* A cycle of ingestor i.                                                  *)

\* Path.stat and get_ingest_offset: a missing file is recorded as offset 0.
Stat(i) ==
    /\ pc[i] = "idle"
    /\ LET s == stream[i]
       IN  /\ seen' = [seen EXCEPT ![i] = inode[s]]
           /\ pos' = [pos EXCEPT ![i] = StartOffset(s)]
           /\ pc' = [pc EXCEPT ![i] = IF inode[s] = 0 THEN "recording" ELSE "opening"]
    /\ UNCHANGED <<fileVars, dbVars, stream, content, crashes>>

\* A cycle that raises ends; the supervisor starts the process again.
Restarted(i) ==
    /\ pc' = [pc EXCEPT ![i] = "idle"] /\ stream' = [stream EXCEPT ![i] = 1]
    /\ seen' = [seen EXCEPT ![i] = 0] /\ content' = [content EXCEPT ![i] = <<>>]
    /\ pos' = [pos EXCEPT ![i] = 0]
    /\ UNCHANGED <<fileVars, dbVars>>

\* The path is opened again, and may name another file than the stat saw.
Read(i) ==
    /\ pc[i] = "opening" /\ inode[stream[i]] # 0
    /\ content' = [content EXCEPT ![i] = file[stream[i]]]
    /\ pc' = [pc EXCEPT ![i] = "storing"]
    /\ UNCHANGED <<fileVars, dbVars, stream, seen, pos, crashes>>

ReadFails(i) ==
    /\ pc[i] = "opening" /\ inode[stream[i]] = 0
    /\ Restarted(i) /\ UNCHANGED crashes

\* Where the next complete segment ends, if there is one.
NextSegmentEnd(i) ==
    {q \in (pos[i] + 1)..Len(content[i]) : Ends(content[i], pos[i], q)}

\* One line, one transaction.
StoreLine(i) ==
    /\ pc[i] = "storing"
    /\ \E q \in NextSegmentEnd(i) :
         LET s == stream[i]
             segment == Segment(content[i], pos[i], q)
         IN  /\ ~Undecodable(segment)
             /\ rows' = [l \in Lines |->
                           IF l \notin segment THEN rows[l]
                           ELSE IF Upserted(s, segment) THEN 1 ELSE rows[l] + 1]
             /\ pos' = [pos EXCEPT ![i] = q]
    /\ UNCHANGED <<fileVars, row, pc, stream, seen, content, crashes>>

\* raw_line.decode stands before the try block: the exception ends the cycle.
DecodeFails(i) ==
    /\ pc[i] = "storing"
    /\ \E q \in NextSegmentEnd(i) : Undecodable(Segment(content[i], pos[i], q))
    /\ Restarted(i) /\ UNCHANGED crashes

\* SLIP: the offset is the end of the chunk, an unfinished line included.
RecordedOffset_EndOfChunk(i) ==
    IF Len(content[i]) > pos[i] THEN Len(content[i]) ELSE pos[i]

RecordedOffset(i) == pos[i]

\* record_ingest_offset, once the chunk holds no further complete line.
RecordOffset(i) ==
    /\ \/ pc[i] = "recording"
       \/ pc[i] = "storing" /\ NextSegmentEnd(i) = {}
    /\ row' = [row EXCEPT ![stream[i]] =
                 [known |-> TRUE, inode |-> seen[i], offset |-> RecordedOffset(i)]]
    /\ pc' = [pc EXCEPT ![i] = IF stream[i] = StreamCount THEN "maintaining" ELSE "idle"]
    /\ stream' = [stream EXCEPT ![i] = IF @ = StreamCount THEN 1 ELSE @ + 1]
    /\ seen' = [seen EXCEPT ![i] = 0] /\ content' = [content EXCEPT ![i] = <<>>]
    /\ pos' = [pos EXCEPT ![i] = 0]
    /\ UNCHANGED <<fileVars, rows, crashes>>

\* The rest of the cycle, NotificationDelivery: queue and dispatch.
Maintain(i) ==
    /\ pc[i] = "maintaining"
    /\ pc' = [pc EXCEPT ![i] = "idle"]
    /\ UNCHANGED <<fileVars, dbVars, stream, seen, content, pos, crashes>>

Crash(i) ==
    /\ pc[i] # "idle" /\ crashes < MaxCrashes
    /\ crashes' = crashes + 1
    /\ Restarted(i)

CycleStep(i) == \/ Stat(i) \/ Read(i) \/ ReadFails(i) \/ StoreLine(i)
                \/ DecodeFails(i) \/ RecordOffset(i) \/ Maintain(i)

Next ==
    \/ \E s \in Streams : BeginLine(s) \/ EndLine(s) \/ Tear(s) \/ Remove(s) \/ Truncate(s)
    \/ \E i \in Ingestors : CycleStep(i) \/ Crash(i)

Spec == Init /\ [][Next]_vars

\* The worker runs cycle after cycle and is restarted when one raises.
Fairness == \A i \in Ingestors : WF_vars(CycleStep(i))

FairSpec == Spec /\ Fairness

-----------------------------------------------------------------------------
Cells == 0..MaxLines

TypeOK ==
    /\ file \in [Streams -> Seq(Cells)] /\ inode \in [Streams -> Nat]
    /\ writing \in [Streams -> BOOLEAN]
    /\ row \in [Streams -> OffsetRows] /\ rows \in [Lines -> Nat]
    /\ pc \in [Ingestors -> {"idle", "opening", "storing", "recording", "maintaining"}]
    /\ stream \in [Ingestors -> Streams] /\ seen \in [Ingestors -> Nat]
    /\ content \in [Ingestors -> Seq(Cells)] /\ pos \in [Ingestors -> Nat]
    /\ written \in 0..MaxLines /\ inodes \in Nat /\ tears \in Nat
    /\ truncated \subseteq Nat /\ crashes \in Nat

\* Every line that ends within the first n cells of c is in the database.
Stored(c, n) == \A q \in 1..n : q <= Len(c) =>
                  \A p \in 0..(q - 1) :
                     Ends(c, p, q) => \A l \in Segment(c, p, q) : rows[l] > 0

\* The next cycle resumes behind stored lines only: with crashes between any
\* two transactions, several ingestors overwriting each other's offsets,
\* half-written lines and files replaced between the stat and the read, no
\* complete line is skipped.  A file truncated in place is the exception:
\* regrown past the offset it cannot be told from the old one.
ResumeIsSafe ==
    \A s \in Streams :
        inode[s] \in truncated \/ Stored(file[s], StartOffset(s))

\* An alert with a source_event_id and a summary are stored once, whatever is
\* replayed and by however many ingestors (unless a torn write ran them into
\* another line).
IdentifiedOnce ==
    tears = 0 /\ (\A s \in Streams : KindOf[s] # "anomaly")
        => \A l \in Lines : ClassOf[l] = "identified" => rows[l] <= 1

Complete(s, l) ==
    \E p, q \in 1..Len(file[s]) : p < q /\ file[s][p] = l /\ file[s][q] = NL

\* A complete line that stays in its file is in the end stored, as a record or
\* as a parse-error anomaly, as the handler in ingest_jsonl_file intends; it
\* is not when the line does not decode.
EveryLineLands ==
    \A s \in Streams, l \in Lines : <>[]Complete(s, l) => <>(rows[l] > 0)

\* Stream s holds nothing that the two exceptions above are about.
Legible(s) ==
    /\ inode[s] \notin truncated
    /\ \A q \in 1..Len(file[s]) : file[s][q] # NL => ClassOf[file[s][q]] # "undecodable"

\* Once its file is legible the readers keep up: however their cycles
\* interleave, crash and overwrite each other's offsets, a complete line that
\* stays in its file is in the end stored, and no reader is kept for good from
\* going on to queue and dispatch.
ReadersKeepUp ==
    /\ \A s \in Streams, l \in Lines :
          <>[](Complete(s, l) /\ Legible(s)) => <>(rows[l] > 0)
    /\ \A i \in Ingestors :
          <>[](\A s \in Streams : Legible(s)) => []<>(pc[i] = "maintaining")
=============================================================================
