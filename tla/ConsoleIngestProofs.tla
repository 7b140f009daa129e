------------------------- MODULE ConsoleIngestProofs -------------------------
(***************************************************************************)
(* The ingest cursor is safe for any number of streams, ingestors, lines,   *)
(* files, crashes, torn writes and truncations: ResumeIsSafe.  What makes   *)
(* it inductive is that an offset, in the database or in a reader's hands,  *)
(* stands right behind an NL, with every line before it stored, as long as  *)
(* its inode is the one the file still has (Covered).                       *)
(***************************************************************************)
EXTENDS ConsoleIngest, TLAPS

\* The first n cells of c end with an NL and their lines are in the rows r.
Covered(c, n, r) ==
    /\ n \in 0..Len(c)
    /\ n = 0 \/ c[n] = NL
    /\ \A q \in 1..n : \A p \in 0..(q - 1) :
         Ends(c, p, q) => \A l \in Segment(c, p, q) : r[l] > 0

Extends(d, c) == Len(c) <= Len(d) /\ \A k \in 1..Len(c) : d[k] = c[k]

InodesKnown ==
    /\ \A s \in Streams : inode[s] <= inodes /\ row[s].inode <= inodes
    /\ \A i \in Ingestors : seen[i] <= inodes

RowCovers ==
    \A s \in Streams :
        row[s].known /\ inode[s] # 0 /\ row[s].inode = inode[s] /\ inode[s] \notin truncated
            => Covered(file[s], row[s].offset, rows)

ReaderCovers ==
    \A i \in Ingestors :
        /\ pc[i] \in {"opening", "storing"}
        /\ inode[stream[i]] # 0 /\ seen[i] = inode[stream[i]]
        /\ inode[stream[i]] \notin truncated
        => /\ Covered(file[stream[i]], pos[i], rows)
           /\ pc[i] = "storing" => Extends(file[stream[i]], content[i])

\* A cycle records an offset it read behind, or the offset 0 of no file.
ReaderShape ==
    \A i \in Ingestors :
        /\ pc[i] = "recording" => seen[i] = 0
        /\ pc[i] \in {"opening", "storing"} => seen[i] # 0

IInv == TypeOK /\ InodesKnown /\ RowCovers /\ ReaderCovers /\ ReaderShape

-----------------------------------------------------------------------------
(* Lemmas about Covered.                                                   *)

LEMMA CoveredNone ==
    ASSUME NEW c \in Seq(Cells), NEW r PROVE Covered(c, 0, r)
BY DEF Covered

LEMMA CoveredGrows ==
    ASSUME NEW c \in Seq(Cells), NEW d \in Seq(Cells), NEW n \in Nat, NEW r,
           Covered(c, n, r), Extends(d, c)
    PROVE  Covered(d, n, r)
<1>1. n \in 0..Len(c) /\ n \in 0..Len(d) BY DEF Covered, Extends
<1>2. \A k \in 1..n : d[k] = c[k] BY <1>1 DEF Extends
<1>3. n = 0 \/ d[n] = NL BY <1>1, <1>2 DEF Covered
<1>4. ASSUME NEW q \in 1..n, NEW p \in 0..(q - 1), Ends(d, p, q)
      PROVE  \A l \in Segment(d, p, q) : r[l] > 0
  <2>1. \A k \in (p + 1)..q : d[k] = c[k] BY <1>1, <1>2
  <2>2. Ends(c, p, q) BY <2>1, <1>4 DEF Ends
  <2>3. Segment(c, p, q) = Segment(d, p, q) BY <2>1 DEF Segment
  <2> QED BY <2>2, <2>3, <1>1 DEF Covered
<1> QED BY <1>1, <1>3, <1>4 DEF Covered

LEMMA SegmentLines ==
    ASSUME NEW c \in Seq(Cells), NEW p \in Nat, NEW q \in 1..Len(c), Ends(c, p, q)
    PROVE  Segment(c, p, q) \subseteq Lines
<1>1. ASSUME NEW k \in (p + 1)..(q - 1) PROVE c[k] \in Lines
  <2>1. k \in 1..Len(c) OBVIOUS
  <2>2. c[k] \in Cells BY <2>1
  <2> QED BY <2>2, IngestAssumption DEF Cells, Lines, Ends, NL
<1> QED BY <1>1 DEF Segment

LEMMA CoveredKept ==
    ASSUME NEW c \in Seq(Cells), NEW n \in Nat, NEW r, NEW t,
           \A l \in Lines : r[l] > 0 => t[l] > 0, Covered(c, n, r)
    PROVE  Covered(c, n, t)
<1>1. ASSUME NEW q \in 1..n, NEW p \in 0..(q - 1), Ends(c, p, q)
      PROVE  \A l \in Segment(c, p, q) : t[l] > 0
  <2>1. p \in Nat /\ q \in 1..Len(c) BY DEF Covered
  <2>2. Segment(c, p, q) \subseteq Lines BY <1>1, <2>1, SegmentLines
  <2> QED BY <2>2, <1>1 DEF Covered
<1> QED BY <1>1 DEF Covered

\* Storing the segment that ends at q moves the covered prefix there.
LEMMA CoveredSegment ==
    ASSUME NEW c \in Seq(Cells), NEW n \in Nat, NEW q \in (n + 1)..Len(c), NEW r,
           Covered(c, n, r), Ends(c, n, q), \A l \in Segment(c, n, q) : r[l] > 0
    PROVE  Covered(c, q, r)
<1>1. q \in 0..Len(c) /\ c[q] = NL BY DEF Ends
<1>2. ASSUME NEW k \in 1..q, NEW p \in 0..(k - 1), Ends(c, p, k)
      PROVE  \A l \in Segment(c, p, k) : r[l] > 0
  <2>1. CASE k <= n BY <2>1, <1>2 DEF Covered
  <2>2. CASE k > n
    <3>1. k = q BY <2>2, <1>2 DEF Ends
    <3>2. p >= n
      <4>1. SUFFICES ASSUME p < n PROVE FALSE OBVIOUS
      <4>2. n \in (p + 1)..(k - 1) /\ n # 0 BY <4>1, <2>2
      <4>3. c[n] = NL BY <4>2 DEF Covered
      <4> QED BY <4>2, <4>3, <1>2 DEF Ends
    <3>3. Segment(c, p, k) \subseteq Segment(c, n, q) BY <3>1, <3>2 DEF Segment
    <3> QED BY <3>3
  <2> QED BY <2>1, <2>2
<1> QED BY <1>1, <1>2 DEF Covered

LEMMA ExtendsSelf == ASSUME NEW c \in Seq(Cells) PROVE Extends(c, c)
BY DEF Extends

LEMMA ExtendsAppend ==
    ASSUME NEW c \in Seq(Cells), NEW d \in Seq(Cells), NEW x \in Cells, Extends(d, c)
    PROVE  Append(d, x) \in Seq(Cells) /\ Extends(Append(d, x), c)
BY DEF Extends

-----------------------------------------------------------------------------
(* The invariant holds initially and every step keeps it.                  *)

LEMMA InitIInv == Init => IInv
<1> SUFFICES ASSUME Init PROVE IInv OBVIOUS
<1> USE IngestAssumption DEF Init
<1>1. TypeOK BY DEF TypeOK, OffsetRows, NoOffset, Streams, Cells
<1>2. InodesKnown BY DEF InodesKnown, NoOffset
<1>3. RowCovers BY DEF RowCovers
<1>4. ReaderCovers /\ ReaderShape BY DEF ReaderCovers, ReaderShape
<1> QED BY <1>1, <1>2, <1>3, <1>4 DEF IInv

\* What a step of the database or of nobody leaves alone: with the files and
\* the offsets unchanged and no row lost, the offsets stay covered.
LEMMA RowCoversKept ==
    ASSUME IInv, UNCHANGED <<file, inode, truncated, row>>,
           \A l \in Lines : rows[l] > 0 => rows'[l] > 0
    PROVE  RowCovers'
<1> SUFFICES ASSUME NEW s \in Streams,
                    row[s].known /\ inode[s] # 0 /\ row[s].inode = inode[s]
                      /\ inode[s] \notin truncated
             PROVE  Covered(file[s], row[s].offset, rows')
  BY DEF RowCovers
<1>1. file[s] \in Seq(Cells) /\ row[s].offset \in Nat BY DEF IInv, TypeOK, OffsetRows
<1>2. Covered(file[s], row[s].offset, rows) BY DEF IInv, RowCovers
<1> QED BY <1>1, <1>2, CoveredKept

\* A reader that a step leaves alone, with the files unchanged and no row lost.
LEMMA ReaderKept ==
    ASSUME IInv, UNCHANGED <<file, inode, truncated>>,
           \A l \in Lines : rows[l] > 0 => rows'[l] > 0,
           NEW i \in Ingestors,
           pc[i] \in {"opening", "storing"}, inode[stream[i]] # 0,
           seen[i] = inode[stream[i]], inode[stream[i]] \notin truncated
    PROVE  /\ Covered(file[stream[i]], pos[i], rows')
           /\ pc[i] = "storing" => Extends(file[stream[i]], content[i])
<1>1. file[stream[i]] \in Seq(Cells) /\ pos[i] \in Nat BY DEF IInv, TypeOK
<1>2. /\ Covered(file[stream[i]], pos[i], rows)
      /\ pc[i] = "storing" => Extends(file[stream[i]], content[i])
  BY DEF IInv, ReaderCovers
<1> QED BY <1>1, <1>2, CoveredKept

\* The sensor and log rotation: a file grows, or its inode is gone, or it
\* counts as truncated.
LEMMA FileStep ==
    ASSUME IInv, UNCHANGED <<dbVars, localVars, crashes>>,
           file' \in [Streams -> Seq(Cells)], inode' \in [Streams -> Nat], inodes' \in Nat,
           inodes <= inodes', truncated \subseteq truncated',
           \A s \in Streams : inode'[s] <= inodes',
           \A s \in Streams :
              \/ inode'[s] = inode[s] /\ Extends(file'[s], file[s])
              \/ inode'[s] > inodes
              \/ inode'[s] = 0
              \/ inode'[s] \in truncated'
    PROVE  InodesKnown' /\ RowCovers' /\ ReaderCovers' /\ ReaderShape'
<1> USE DEF dbVars, localVars
<1>1. InodesKnown' BY DEF IInv, TypeOK, InodesKnown, OffsetRows
<1>2. RowCovers'
  <2> SUFFICES ASSUME NEW s \in Streams,
                      row[s].known /\ inode'[s] # 0 /\ row[s].inode = inode'[s]
                        /\ inode'[s] \notin truncated'
               PROVE  Covered(file'[s], row[s].offset, rows)
    BY DEF RowCovers
  <2>1. row[s].inode <= inodes /\ row[s].inode \in Nat /\ row[s].offset \in Nat /\ inodes \in Nat
    BY DEF IInv, TypeOK, InodesKnown, OffsetRows
  <2>2. inode'[s] = inode[s] /\ Extends(file'[s], file[s]) BY <2>1
  <2>3. Covered(file[s], row[s].offset, rows) BY <2>2 DEF IInv, RowCovers
  <2>4. file[s] \in Seq(Cells) /\ file'[s] \in Seq(Cells) BY DEF IInv, TypeOK
  <2> QED BY <2>1, <2>2, <2>3, <2>4, CoveredGrows
<1>3. ReaderCovers'
  <2> SUFFICES ASSUME NEW i \in Ingestors,
                      pc[i] \in {"opening", "storing"},
                      inode'[stream[i]] # 0, seen[i] = inode'[stream[i]],
                      inode'[stream[i]] \notin truncated'
               PROVE  /\ Covered(file'[stream[i]], pos[i], rows)
                      /\ pc[i] = "storing" => Extends(file'[stream[i]], content[i])
    BY DEF ReaderCovers
  <2> DEFINE s == stream[i]
  <2>1. s \in Streams /\ pos[i] \in Nat /\ content[i] \in Seq(Cells) /\ seen[i] \in Nat
        /\ seen[i] <= inodes /\ inodes \in Nat
    BY DEF IInv, TypeOK, InodesKnown
  <2>2. inode'[s] = inode[s] /\ Extends(file'[s], file[s]) BY <2>1
  <2>3. /\ Covered(file[s], pos[i], rows)
        /\ pc[i] = "storing" => Extends(file[s], content[i])
    BY <2>1, <2>2 DEF IInv, ReaderCovers
  <2>4. file[s] \in Seq(Cells) /\ file'[s] \in Seq(Cells) BY <2>1 DEF IInv, TypeOK
  <2>5. Covered(file'[s], pos[i], rows) BY <2>1, <2>2, <2>3, <2>4, CoveredGrows
  <2>6. pc[i] = "storing" => Extends(file'[s], content[i])
    BY <2>1, <2>2, <2>3, <2>4 DEF Extends
  <2> QED BY <2>5, <2>6
<1>4. ReaderShape' BY DEF IInv, ReaderShape
<1> QED BY <1>1, <1>2, <1>3, <1>4

LEMMA SensorStep ==
    ASSUME IInv, NEW s \in Streams,
           BeginLine(s) \/ EndLine(s) \/ Tear(s) \/ Remove(s) \/ Truncate(s)
    PROVE  IInv'
<1> USE IngestAssumption DEF fileVars, dbVars, localVars
<1>1. /\ file \in [Streams -> Seq(Cells)] /\ inode \in [Streams -> Nat] /\ inodes \in Nat
      /\ truncated \subseteq Nat /\ written \in 0..MaxLines /\ tears \in Nat
      /\ \A t \in Streams : inode[t] <= inodes
  BY DEF IInv, TypeOK, InodesKnown
<1>2. \A t \in Streams : Extends(file[t], file[t]) BY <1>1, ExtendsSelf
<1>3. \A x \in Cells : Append(file[s], x) \in Seq(Cells) /\ Extends(Append(file[s], x), file[s])
  BY <1>1, <1>2, ExtendsAppend
<1> DEFINE Reached ==
      /\ UNCHANGED <<dbVars, localVars, crashes>>
      /\ file' \in [Streams -> Seq(Cells)] /\ inode' \in [Streams -> Nat] /\ inodes' \in Nat
      /\ inodes <= inodes' /\ truncated \subseteq truncated' /\ truncated' \subseteq Nat
      /\ written' \in 0..MaxLines /\ tears' \in Nat /\ writing' \in [Streams -> BOOLEAN]
      /\ \A t \in Streams : inode'[t] <= inodes'
      /\ \A t \in Streams :
            \/ inode'[t] = inode[t] /\ Extends(file'[t], file[t])
            \/ inode'[t] > inodes
            \/ inode'[t] = 0
            \/ inode'[t] \in truncated'
<1>4. writing \in [Streams -> BOOLEAN] BY DEF IInv, TypeOK
<1>5. Reached
  <2>1. CASE BeginLine(s)
    <3>1. written + 1 \in Cells /\ written + 1 \in 0..MaxLines
      BY <1>1, <2>1 DEF BeginLine, Cells
    <3>2. /\ file' = [file EXCEPT ![s] = Append(file[s], written + 1)]
          /\ UNCHANGED <<dbVars, localVars, crashes, truncated, tears>>
          /\ written' = written + 1 /\ writing' \in [Streams -> BOOLEAN]
      BY <1>4, <2>1 DEF BeginLine
    <3>3. /\ file' \in [Streams -> Seq(Cells)]
          /\ \A t \in Streams : Extends(file'[t], file[t])
      BY <3>1, <3>2, <1>1, <1>2, <1>3
    <3>4. /\ inode' \in [Streams -> Nat] /\ inodes' \in Nat /\ inodes <= inodes'
          /\ \A t \in Streams : inode'[t] <= inodes' /\ (inode'[t] = inode[t] \/ inode'[t] > inodes)
      <4>1. CASE UNCHANGED <<inode, inodes>> BY <4>1, <1>1
      <4>2. CASE inodes' = inodes + 1 /\ inode' = [inode EXCEPT ![s] = inodes + 1]
        BY <4>2, <1>1
      <4> QED BY <4>1, <4>2, <2>1 DEF BeginLine
    <3> QED BY <1>1, <3>1, <3>2, <3>3, <3>4
  <2>2. CASE EndLine(s)
    <3>1. NL \in Cells BY DEF NL, Cells
    <3> QED BY <3>1, <1>1, <1>2, <1>3, <1>4, <2>2 DEF EndLine
  <2>3. CASE Tear(s) BY <1>1, <1>2, <1>4, <2>3 DEF Tear
  <2>4. CASE Remove(s)
    <3>1. <<>> \in Seq(Cells) OBVIOUS
    <3> QED BY <3>1, <1>1, <1>2, <1>4, <2>4 DEF Remove
  <2>5. CASE Truncate(s)
    <3>1. <<>> \in Seq(Cells) OBVIOUS
    <3>2. file' \in [Streams -> Seq(Cells)] BY <3>1, <1>1, <2>5 DEF Truncate
    <3>3. truncated' = truncated \cup {inode[s]} /\ inode[s] \in Nat BY <1>1, <2>5 DEF Truncate
    <3>4. \A t \in Streams : inode'[t] = inode[t] /\ (t = s \/ file'[t] = file[t])
      BY <1>1, <2>5 DEF Truncate
    <3>5. UNCHANGED <<dbVars, localVars, crashes, inodes, inode, written, tears, writing>>
      BY <2>5 DEF Truncate
    <3>6. \A t \in Streams : \/ inode'[t] = inode[t] /\ Extends(file'[t], file[t])
                             \/ inode'[t] \in truncated'
      BY <3>3, <3>4, <1>2
    <3>7. truncated \subseteq truncated' /\ truncated' \subseteq Nat BY <3>3, <1>1
    <3> QED BY <3>2, <3>5, <3>6, <3>7, <1>1, <1>4
  <2> QED BY <2>1, <2>2, <2>3, <2>4, <2>5
<1>6. InodesKnown' /\ RowCovers' /\ ReaderCovers' /\ ReaderShape' BY <1>5, FileStep
<1>7. TypeOK' BY <1>5 DEF IInv, TypeOK
<1> QED BY <1>6, <1>7 DEF IInv

\* A reader starts over: whatever ended its cycle, it claims nothing.
LEMMA RestartedStep ==
    ASSUME IInv, NEW i \in Ingestors, Restarted(i), crashes' \in Nat
    PROVE  IInv'
<1> USE IngestAssumption DEF Restarted, fileVars, dbVars
<1>1. TypeOK'
  <2>1. <<>> \in Seq(Cells) /\ 1 \in Streams BY DEF Streams
  <2> QED BY <2>1 DEF IInv, TypeOK
<1>2. InodesKnown' BY DEF IInv, TypeOK, InodesKnown
<1>3. RowCovers' BY RowCoversKept
<1>4. ReaderShape' BY DEF IInv, TypeOK, ReaderShape
<1>5. ReaderCovers'
  <2> SUFFICES ASSUME NEW j \in Ingestors,
                      pc'[j] \in {"opening", "storing"}, inode[stream'[j]] # 0,
                      seen'[j] = inode[stream'[j]], inode[stream'[j]] \notin truncated
               PROVE  /\ Covered(file[stream'[j]], pos'[j], rows)
                      /\ pc'[j] = "storing" => Extends(file[stream'[j]], content'[j])
    BY DEF ReaderCovers
  <2>1. j # i BY DEF IInv, TypeOK
  <2>2. pc'[j] = pc[j] /\ stream'[j] = stream[j] /\ seen'[j] = seen[j]
        /\ pos'[j] = pos[j] /\ content'[j] = content[j]
    BY <2>1 DEF IInv, TypeOK
  <2> QED BY <2>2 DEF IInv, ReaderCovers
<1> QED BY <1>1, <1>2, <1>3, <1>4, <1>5 DEF IInv

\* What the next cycle of a stream resumes behind is covered.
LEMMA StartCovered ==
    ASSUME IInv, NEW s \in Streams, inode[s] \notin truncated
    PROVE  Covered(file[s], StartOffset(s), rows)
<1>1. file[s] \in Seq(Cells) BY DEF IInv, TypeOK
<1> QED BY <1>1, CoveredNone DEF IInv, RowCovers, StartOffset

LEMMA StatStep ==
    ASSUME IInv, NEW i \in Ingestors, Stat(i) PROVE IInv'
<1> USE DEF Stat, fileVars, dbVars
<1> DEFINE s == stream[i]
<1>1. /\ s \in Streams /\ inode[s] \in Nat /\ inode[s] <= inodes
      /\ StartOffset(s) \in Nat
  BY DEF IInv, TypeOK, InodesKnown, StartOffset, OffsetRows
<1>2. TypeOK' BY <1>1 DEF IInv, TypeOK
<1>3. InodesKnown' BY <1>1 DEF IInv, TypeOK, InodesKnown
<1>4. RowCovers' BY RowCoversKept
<1>5. ReaderShape' BY DEF IInv, TypeOK, ReaderShape
<1>6. ReaderCovers'
  <2> SUFFICES ASSUME NEW j \in Ingestors,
                      pc'[j] \in {"opening", "storing"}, inode[stream[j]] # 0,
                      seen'[j] = inode[stream[j]], inode[stream[j]] \notin truncated
               PROVE  /\ Covered(file[stream[j]], pos'[j], rows)
                      /\ pc'[j] = "storing" => Extends(file[stream[j]], content[j])
    BY DEF ReaderCovers
  <2>1. CASE j = i
    <3>1. pos'[i] = StartOffset(s) /\ pc'[i] # "storing" BY DEF IInv, TypeOK
    <3>2. inode[s] \notin truncated BY <2>1
    <3>3. Covered(file[s], StartOffset(s), rows) BY <1>1, <3>2, StartCovered
    <3> QED BY <2>1, <3>1, <3>3
  <2>2. CASE j # i
    <3>1. pc'[j] = pc[j] /\ seen'[j] = seen[j] /\ pos'[j] = pos[j] BY <2>2 DEF IInv, TypeOK
    <3> QED BY <3>1 DEF IInv, ReaderCovers
  <2> QED BY <2>1, <2>2
<1> QED BY <1>2, <1>3, <1>4, <1>5, <1>6 DEF IInv

LEMMA ReadStep ==
    ASSUME IInv, NEW i \in Ingestors, Read(i) PROVE IInv'
<1> USE DEF Read, fileVars, dbVars
<1>1. stream[i] \in Streams /\ file[stream[i]] \in Seq(Cells) BY DEF IInv, TypeOK
<1>2. TypeOK' BY <1>1 DEF IInv, TypeOK
<1>3. InodesKnown' BY DEF IInv, TypeOK, InodesKnown
<1>4. RowCovers' BY RowCoversKept
<1>5. ReaderCovers'
  <2> SUFFICES ASSUME NEW j \in Ingestors,
                      pc'[j] \in {"opening", "storing"}, inode[stream[j]] # 0,
                      seen[j] = inode[stream[j]], inode[stream[j]] \notin truncated
               PROVE  /\ Covered(file[stream[j]], pos[j], rows)
                      /\ pc'[j] = "storing" => Extends(file[stream[j]], content'[j])
    BY DEF ReaderCovers
  <2>1. CASE j = i
    <3>1. content'[i] = file[stream[i]] /\ pc[i] = "opening" BY DEF IInv, TypeOK
    <3> QED BY <2>1, <3>1, <1>1, ExtendsSelf DEF IInv, ReaderCovers
  <2>2. CASE j # i
    <3>1. pc'[j] = pc[j] /\ content'[j] = content[j] BY <2>2 DEF IInv, TypeOK
    <3> QED BY <3>1 DEF IInv, ReaderCovers
  <2> QED BY <2>1, <2>2
<1>6. ReaderShape'
  <2>1. seen[i] # 0
    BY DEF IInv, ReaderShape
  <2> QED BY <2>1 DEF IInv, TypeOK, ReaderShape
<1> QED BY <1>2, <1>3, <1>4, <1>5, <1>6 DEF IInv

LEMMA StoreLineStep ==
    ASSUME IInv, NEW i \in Ingestors, StoreLine(i) PROVE IInv'
<1> USE IngestAssumption DEF fileVars
<1> DEFINE s == stream[i]
           c == content[i]
<1>1. /\ s \in Streams /\ c \in Seq(Cells) /\ pos[i] \in Nat /\ file[s] \in Seq(Cells)
      /\ rows \in [Lines -> Nat] /\ pc[i] = "storing"
  BY DEF IInv, TypeOK, StoreLine
<1>2. PICK q \in NextSegmentEnd(i) :
        /\ rows' = [l \in Lines |->
                      IF l \notin Segment(c, pos[i], q) THEN rows[l]
                      ELSE IF Upserted(s, Segment(c, pos[i], q)) THEN 1 ELSE rows[l] + 1]
        /\ pos' = [pos EXCEPT ![i] = q]
        /\ UNCHANGED <<fileVars, row, pc, stream, seen, content, crashes>>
  BY DEF StoreLine
<1>3. q \in (pos[i] + 1)..Len(c) /\ Ends(c, pos[i], q) /\ q \in Nat
  BY <1>1, <1>2 DEF NextSegmentEnd
<1>4. /\ rows' \in [Lines -> Nat]
      /\ \A l \in Lines : rows[l] > 0 => rows'[l] > 0
      /\ \A l \in Segment(c, pos[i], q) : l \in Lines => rows'[l] > 0
  BY <1>1, <1>2
<1>5. \A l \in Segment(c, pos[i], q) : rows'[l] > 0
  BY <1>1, <1>3, <1>4, SegmentLines
<1>6. TypeOK' BY <1>2, <1>3, <1>4 DEF IInv, TypeOK
<1>7. InodesKnown' BY <1>2 DEF IInv, InodesKnown
<1>8. RowCovers' BY <1>2, <1>4, RowCoversKept
<1>9. ReaderShape' BY <1>2 DEF IInv, ReaderShape
<1>10. ReaderCovers'
  <2> SUFFICES ASSUME NEW j \in Ingestors,
                      pc[j] \in {"opening", "storing"}, inode[stream[j]] # 0,
                      seen[j] = inode[stream[j]], inode[stream[j]] \notin truncated
               PROVE  /\ Covered(file[stream[j]], pos'[j], rows')
                      /\ pc[j] = "storing" => Extends(file[stream[j]], content[j])
    BY <1>2 DEF ReaderCovers
  <2>1. /\ Covered(file[stream[j]], pos[j], rows')
        /\ pc[j] = "storing" => Extends(file[stream[j]], content[j])
    BY <1>2, <1>4, ReaderKept
  <2>2. CASE j = i
    <3>1. pos'[i] = q BY <1>2 DEF IInv, TypeOK
    <3>2. Extends(file[s], c) BY <2>1, <2>2, <1>1
    <3>3. q \in (pos[i] + 1)..Len(file[s]) /\ \A k \in 1..q : file[s][k] = c[k]
      BY <1>1, <1>3, <3>2 DEF Extends
    <3>4. Ends(file[s], pos[i], q)
      <4>1. \A k \in (pos[i] + 1)..q : file[s][k] = c[k] BY <1>1, <1>3, <3>3
      <4>2. q \in (pos[i] + 1)..q /\ (pos[i] + 1)..(q - 1) \subseteq (pos[i] + 1)..q
        BY <1>1, <1>3
      <4> QED BY <4>1, <4>2, <1>3 DEF Ends
    <3>5. Segment(file[s], pos[i], q) = Segment(c, pos[i], q)
      <4>1. \A k \in (pos[i] + 1)..(q - 1) : file[s][k] = c[k] BY <1>1, <1>3, <3>3
      <4> QED BY <4>1 DEF Segment
    <3>6. Covered(file[s], q, rows') BY <1>1, <1>5, <2>1, <2>2, <3>3, <3>4, <3>5, CoveredSegment
    <3> QED BY <2>1, <2>2, <3>1, <3>6
  <2>3. CASE j # i
    <3>1. pos'[j] = pos[j] BY <1>2, <2>3 DEF IInv, TypeOK
    <3> QED BY <2>1, <3>1
  <2> QED BY <2>2, <2>3
<1> QED BY <1>6, <1>7, <1>8, <1>9, <1>10 DEF IInv

LEMMA RecordOffsetStep ==
    ASSUME IInv, NEW i \in Ingestors, RecordOffset(i) PROVE IInv'
<1> USE IngestAssumption DEF RecordOffset, RecordedOffset, fileVars
<1> DEFINE s == stream[i]
<1>1. /\ s \in Streams /\ seen[i] \in Nat /\ seen[i] <= inodes /\ pos[i] \in Nat
      /\ row \in [Streams -> OffsetRows] /\ file[s] \in Seq(Cells)
  BY DEF IInv, TypeOK, InodesKnown
<1>2. row' = [row EXCEPT ![s] = [known |-> TRUE, inode |-> seen[i], offset |-> pos[i]]]
  OBVIOUS
<1>3. row' \in [Streams -> OffsetRows] BY <1>1, <1>2 DEF OffsetRows
<1>4. /\ pc' \in [Ingestors -> {"idle", "opening", "storing", "recording", "maintaining"}]
      /\ stream' \in [Ingestors -> Streams] /\ seen' \in [Ingestors -> Nat]
      /\ content' \in [Ingestors -> Seq(Cells)] /\ pos' \in [Ingestors -> Nat]
  <2>1. <<>> \in Seq(Cells) /\ (s = StreamCount => 1 \in Streams)
        /\ (s # StreamCount => s + 1 \in Streams)
    BY <1>1 DEF Streams
  <2> QED BY <2>1 DEF IInv, TypeOK
<1>5. TypeOK' BY <1>3, <1>4 DEF IInv, TypeOK
<1>6. InodesKnown' BY <1>1, <1>2 DEF IInv, TypeOK, InodesKnown
<1>7. RowCovers'
  <2> SUFFICES ASSUME NEW t \in Streams,
                      row'[t].known, inode[t] # 0, row'[t].inode = inode[t],
                      inode[t] \notin truncated
               PROVE  Covered(file[t], row'[t].offset, rows)
    BY DEF RowCovers
  <2>1. CASE t = s
    <3>1. row'[t].inode = seen[i] /\ row'[t].offset = pos[i] BY <2>1, <1>1, <1>2
    <3>2. pc[i] = "storing" BY <2>1, <3>1 DEF IInv, ReaderShape
    <3> QED BY <2>1, <3>1, <3>2 DEF IInv, ReaderCovers
  <2>2. CASE t # s
    <3>1. row'[t] = row[t] BY <2>2, <1>1, <1>2
    <3> QED BY <3>1 DEF IInv, RowCovers
  <2> QED BY <2>1, <2>2
<1>8. ReaderShape' BY DEF IInv, TypeOK, ReaderShape
<1>9. ReaderCovers'
  <2> SUFFICES ASSUME NEW j \in Ingestors,
                      pc'[j] \in {"opening", "storing"}, inode[stream'[j]] # 0,
                      seen'[j] = inode[stream'[j]], inode[stream'[j]] \notin truncated
               PROVE  /\ Covered(file[stream'[j]], pos'[j], rows)
                      /\ pc'[j] = "storing" => Extends(file[stream'[j]], content'[j])
    BY DEF ReaderCovers
  <2>1. j # i BY DEF IInv, TypeOK
  <2>2. pc'[j] = pc[j] /\ stream'[j] = stream[j] /\ seen'[j] = seen[j]
        /\ pos'[j] = pos[j] /\ content'[j] = content[j]
    BY <2>1 DEF IInv, TypeOK
  <2> QED BY <2>2 DEF IInv, ReaderCovers
<1> QED BY <1>5, <1>6, <1>7, <1>8, <1>9 DEF IInv

LEMMA MaintainStep ==
    ASSUME IInv, NEW i \in Ingestors, Maintain(i) PROVE IInv'
<1> USE DEF Maintain, fileVars, dbVars
<1>1. TypeOK' BY DEF IInv, TypeOK
<1>2. InodesKnown' BY DEF IInv, InodesKnown
<1>3. RowCovers' BY RowCoversKept
<1>4. ReaderShape' BY DEF IInv, TypeOK, ReaderShape
<1>5. ReaderCovers' BY DEF IInv, TypeOK, ReaderCovers
<1> QED BY <1>1, <1>2, <1>3, <1>4, <1>5 DEF IInv

LEMMA NextIInv == IInv /\ [Next]_vars => IInv'
<1> SUFFICES ASSUME IInv, [Next]_vars PROVE IInv' OBVIOUS
<1>1. CASE \E s \in Streams :
             BeginLine(s) \/ EndLine(s) \/ Tear(s) \/ Remove(s) \/ Truncate(s)
  BY <1>1, SensorStep
<1>2. ASSUME NEW i \in Ingestors, CycleStep(i) \/ Crash(i) PROVE IInv'
  <2>1. crashes \in Nat BY DEF IInv, TypeOK
  <2>2. CASE Stat(i) BY <2>2, StatStep
  <2>3. CASE Read(i) BY <2>3, ReadStep
  <2>4. CASE ReadFails(i) BY <2>1, <2>4, RestartedStep DEF ReadFails
  <2>5. CASE StoreLine(i) BY <2>5, StoreLineStep
  <2>6. CASE DecodeFails(i) BY <2>1, <2>6, RestartedStep DEF DecodeFails
  <2>7. CASE RecordOffset(i) BY <2>7, RecordOffsetStep
  <2>8. CASE Maintain(i) BY <2>8, MaintainStep
  <2>9. CASE Crash(i) BY <2>1, <2>9, RestartedStep DEF Crash
  <2> QED BY <1>2, <2>2, <2>3, <2>4, <2>5, <2>6, <2>7, <2>8, <2>9 DEF CycleStep
<1>3. CASE UNCHANGED vars
  <2> USE <1>3 DEF vars, fileVars, dbVars, localVars
  <2>1. TypeOK' BY DEF IInv, TypeOK
  <2>2. InodesKnown' BY DEF IInv, InodesKnown
  <2>3. RowCovers' BY DEF IInv, RowCovers
  <2>4. ReaderCovers' /\ ReaderShape' BY DEF IInv, ReaderCovers, ReaderShape
  <2> QED BY <2>1, <2>2, <2>3, <2>4 DEF IInv
<1> QED BY <1>1, <1>2, <1>3 DEF Next

\* The cursor variables keep their types (with any number of ingestors).
THEOREM IngestTypeCorrect == Spec => []TypeOK
<1>1. IInv => TypeOK BY DEF IInv
<1> QED BY <1>1, InitIInv, NextIInv, PTL DEF Spec

\* No complete line is ever behind the offset a next cycle resumes at without
\* being stored, whatever number of ingestors, crashes, torn writes and
\* rotations: _ingest_stream may record its offset last, in a transaction of
\* its own, and restart from stale or overwritten offsets.
THEOREM ResumeSound == Spec => []ResumeIsSafe
<1>1. ASSUME IInv PROVE ResumeIsSafe
  <2> SUFFICES ASSUME NEW s \in Streams, inode[s] \notin truncated
               PROVE  Stored(file[s], StartOffset(s))
    BY DEF ResumeIsSafe
  <2>1. Covered(file[s], StartOffset(s), rows) BY <1>1, StartCovered
  <2> QED BY <2>1 DEF Covered, Stored
<1> QED BY <1>1, InitIInv, NextIInv, PTL DEF Spec

-----------------------------------------------------------------------------
(* A record with an id is stored once.                                     *)

\* No two lines run together.
Apart(c) == \A k \in 1..Len(c) : c[k] # NL /\ k < Len(c) => c[k + 1] = NL

\* Until a write is torn, a file the sensor is not writing to ends with an NL, and
\* no file, and nothing read from one, holds two lines that run together.
LinesApart ==
    tears = 0 =>
        /\ \A s \in Streams :
             /\ Apart(file[s])
             /\ ~writing[s] => Len(file[s]) = 0 \/ file[s][Len(file[s])] = NL
        /\ \A i \in Ingestors : Apart(content[i])

OnceInv == LinesApart /\ IdentifiedOnce

\* A segment of such a file is one line at most.
LEMMA SegmentOfOne ==
    ASSUME NEW c \in Seq(Cells), Apart(c), NEW p \in Nat, NEW q \in (p + 1)..Len(c),
           Ends(c, p, q), NEW l \in Segment(c, p, q)
    PROVE  Segment(c, p, q) = {l}
<1>1. ASSUME NEW k \in (p + 1)..(q - 1)
      PROVE  k = q - 1
  <2>1. SUFFICES ASSUME k # q - 1 PROVE FALSE
    OBVIOUS
  <2>2. k + 1 \in (p + 1)..(q - 1) /\ k \in 1..Len(c) /\ k < Len(c)
    BY <2>1
  <2>3. c[k] # NL /\ c[k + 1] # NL
    BY <2>2 DEF Ends
  <2> QED
    BY <2>2, <2>3 DEF Apart
<1> QED
  BY <1>1 DEF Segment

LEMMA AppendApart ==
    ASSUME NEW c \in Seq(Cells), Apart(c), NEW x \in Cells,
           x = NL \/ Len(c) = 0 \/ c[Len(c)] = NL
    PROVE  /\ Apart(Append(c, x))
           /\ Append(c, x)[Len(Append(c, x))] = x
<1>1. /\ Len(c) \in Nat /\ Len(Append(c, x)) = Len(c) + 1
      /\ \A k \in 1..Len(c) : Append(c, x)[k] = c[k]
      /\ Append(c, x)[Len(c) + 1] = x
  OBVIOUS
<1>2. ASSUME NEW k \in 1..(Len(c) + 1), k < Len(c) + 1, c[k] # NL
      PROVE  Append(c, x)[k + 1] = NL
  <2>1. CASE k = Len(c)
    BY <1>1, <1>2, <2>1
  <2>2. CASE k # Len(c)
    <3>1. k \in 1..Len(c) /\ k + 1 \in 1..Len(c) /\ k < Len(c)
      BY <1>1, <1>2, <2>2
    <3> QED
      BY <1>1, <1>2, <3>1 DEF Apart
  <2> QED
    BY <2>1, <2>2
<1> QED
  BY <1>1, <1>2 DEF Apart

LEMMA OnceInit == Init => OnceInv
  BY DEF Init, OnceInv, LinesApart, Apart, IdentifiedOnce

LEMMA OnceNext == TypeOK /\ OnceInv /\ [Next]_vars => OnceInv'
<1> SUFFICES ASSUME TypeOK, OnceInv, [Next]_vars PROVE OnceInv'
  OBVIOUS
<1> USE DEF fileVars, dbVars, localVars
<1>0. /\ file \in [Streams -> Seq(Cells)] /\ writing \in [Streams -> BOOLEAN]
      /\ rows \in [Lines -> Nat] /\ content \in [Ingestors -> Seq(Cells)]
      /\ pos \in [Ingestors -> Nat] /\ stream \in [Ingestors -> Streams]
      /\ tears \in Nat /\ written \in 0..MaxLines /\ NL \in Cells /\ MaxLines \in Nat
      /\ Apart(<<>>) /\ Len(<<>>) = 0
  BY IngestAssumption DEF TypeOK, NL, Cells, Apart
<1>r. ASSUME rows' = rows, tears' = 0 => tears = 0
      PROVE  IdentifiedOnce'
  BY <1>r DEF OnceInv, IdentifiedOnce
<1>l. ASSUME UNCHANGED <<tears, file, writing>>,
             \A i \in Ingestors : content'[i] \in {content[i], <<>>}
                                  \/ \E s \in Streams : content'[i] = file[s]
      PROVE  LinesApart'
  BY <1>0, <1>l DEF OnceInv, LinesApart
<1>f. ASSUME NEW s \in Streams, UNCHANGED <<tears, content, rows>>,
             \A t \in Streams : t # s => file'[t] = file[t] /\ writing'[t] = writing[t],
             tears = 0 => /\ Apart(file'[s])
                          /\ ~writing'[s] => \/ Len(file'[s]) = 0
                                             \/ file'[s][Len(file'[s])] = NL
      PROVE  OnceInv'
  BY <1>f, <1>r DEF OnceInv, LinesApart
<1>1. ASSUME NEW s \in Streams, BeginLine(s) PROVE OnceInv'
  <2>1. written + 1 \in Cells /\ file' = [file EXCEPT ![s] = Append(file[s], written + 1)]
        /\ ~writing[s] /\ writing' = [writing EXCEPT ![s] = TRUE]
        /\ UNCHANGED <<tears, content, rows>>
    BY <1>0, <1>1 DEF BeginLine, Cells
  <2>2. tears = 0 => Apart(file'[s])
    BY <1>0, <2>1, AppendApart DEF OnceInv, LinesApart
  <2> QED
    BY <1>0, <1>f, <2>1, <2>2
<1>2. ASSUME NEW s \in Streams, EndLine(s) PROVE OnceInv'
  <2>1. /\ file' = [file EXCEPT ![s] = Append(file[s], NL)]
        /\ writing' = [writing EXCEPT ![s] = FALSE] /\ UNCHANGED <<tears, content, rows>>
    BY <1>2 DEF EndLine
  <2>2. tears = 0 => Apart(file'[s]) /\ file'[s][Len(file'[s])] = NL
    BY <1>0, <2>1, AppendApart DEF OnceInv, LinesApart
  <2> QED
    BY <1>0, <1>f, <2>1, <2>2
<1>3. ASSUME NEW s \in Streams, Tear(s) PROVE OnceInv'
  <2>1. tears' # 0 /\ rows' = rows
    BY <1>0, <1>3 DEF Tear
  <2> QED
    BY <2>1 DEF OnceInv, LinesApart, IdentifiedOnce
<1>4. ASSUME NEW s \in Streams, Remove(s) \/ Truncate(s) PROVE OnceInv'
  <2>1. /\ file' = [file EXCEPT ![s] = <<>>] /\ UNCHANGED <<tears, content, rows>>
        /\ \A t \in Streams : t # s => writing'[t] = writing[t]
    <3>1. CASE Remove(s)
      BY <1>0, <3>1 DEF Remove
    <3>2. CASE Truncate(s)
      BY <1>0, <3>2 DEF Truncate
    <3> QED
      BY <1>4, <3>1, <3>2
  <2> QED
    BY <1>0, <1>f, <2>1
<1>5. ASSUME NEW i \in Ingestors, Stat(i) \/ Maintain(i) PROVE OnceInv'
  BY <1>5, <1>l, <1>r DEF Stat, Maintain, OnceInv
<1>6. ASSUME NEW i \in Ingestors, Restarted(i) PROVE OnceInv'
  BY <1>0, <1>6, <1>l, <1>r DEF Restarted, OnceInv
<1>7. ASSUME NEW i \in Ingestors, Read(i) PROVE OnceInv'
  BY <1>0, <1>7, <1>l, <1>r DEF Read, OnceInv
<1>8. ASSUME NEW i \in Ingestors, RecordOffset(i) PROVE OnceInv'
  BY <1>0, <1>8, <1>l, <1>r DEF RecordOffset, OnceInv
<1>9. ASSUME NEW i \in Ingestors, StoreLine(i) PROVE OnceInv'
  <2>1. PICK q \in NextSegmentEnd(i) :
          rows' = [l \in Lines |->
                     IF l \notin Segment(content[i], pos[i], q) THEN rows[l]
                     ELSE IF Upserted(stream[i], Segment(content[i], pos[i], q)) THEN 1
                     ELSE rows[l] + 1]
    BY <1>9 DEF StoreLine
  <2>2. q \in (pos[i] + 1)..Len(content[i]) /\ Ends(content[i], pos[i], q)
    BY <2>1 DEF NextSegmentEnd
  <2>3. LinesApart'
    BY <1>9, <1>l DEF StoreLine
  <2>4. IdentifiedOnce'
    <3> SUFFICES ASSUME tears' = 0, \A s \in Streams : KindOf[s] # "anomaly",
                        NEW l \in Lines, ClassOf[l] = "identified"
                 PROVE  rows'[l] <= 1
      BY DEF IdentifiedOnce
    <3>1. tears = 0
      BY <1>9 DEF StoreLine
    <3>2. rows[l] <= 1
      BY <3>1 DEF OnceInv, IdentifiedOnce
    <3>3. CASE l \in Segment(content[i], pos[i], q)
      <4>1. Apart(content[i])
        BY <3>1 DEF OnceInv, LinesApart
      <4>2. Segment(content[i], pos[i], q) = {l}
        BY <1>0, <2>2, <3>3, <4>1, SegmentOfOne
      <4>3. KindOf[stream[i]] \in {"alert", "summary"}
        BY <1>0, IngestAssumption DEF IngestAssumption
      <4>4. Upserted(stream[i], Segment(content[i], pos[i], q))
        BY <4>2, <4>3 DEF Upserted
      <4> QED
        BY <2>1, <3>3, <4>4
    <3>4. CASE l \notin Segment(content[i], pos[i], q)
      BY <2>1, <3>2, <3>4
    <3> QED
      BY <3>3, <3>4
  <2> QED
    BY <2>3, <2>4 DEF OnceInv
<1>10. CASE UNCHANGED vars
  BY <1>10, <1>l, <1>r DEF vars, OnceInv
<1> QED
  BY <1>1, <1>2, <1>3, <1>4, <1>5, <1>6, <1>7, <1>8, <1>9, <1>10
     DEF Next, CycleStep, ReadFails, DecodeFails, Crash

\* An alert with a source_event_id, or a summary, has one row at most, whatever is
\* replayed and by however many ingestors, as long as no torn write ran it into
\* another line.
THEOREM IdentifiedStoredOnce == Spec => []IdentifiedOnce
<1>1. OnceInv => IdentifiedOnce
  BY DEF OnceInv
<1> QED
  BY <1>1, OnceInit, OnceNext, IngestTypeCorrect, PTL DEF Spec
=============================================================================
