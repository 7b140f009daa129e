--------------------------- MODULE LiveSensorProofs ---------------------------
(***************************************************************************)
(* Theorems about LiveSensor, for any number of windows and records, any   *)
(* ring, ceiling, batch size and flush interval, and any number of         *)
(* exceptions, kills and restarts.                                         *)
(***************************************************************************)
EXTENDS LiveSensor, SequenceTheorems, TLAPS

TypeOK ==
    /\ opened \in 0..MaxWindows /\ base \in Nat
    /\ dumpcap \in {"running", "recoverable", "fatal"}
    /\ printed \in Seq(Windows) /\ pending \in Seq(Windows) /\ queue \in Seq(Windows)
    /\ active \in Windows \cup {0} /\ hand \in Windows \cup {0}
    /\ todo \in Seq(Records) /\ buffer \in Seq(Records)
    /\ results \in Seq(Records) /\ sink \in Seq(Records) /\ extracted \subseteq Records
    /\ age \in Nat /\ failures \in Nat
    /\ pc \in {"reading", "processing", "applying", "cleaning", "closing", "closed", "failed"}

\* The names the daemon has not read are the last ones dumpcap opened; the active one
\* comes before them, the queue before that, the window in hand before the queue.
NamesInv ==
    /\ base <= opened - Len(printed)
    /\ \A k \in DOMAIN printed : printed[k] = opened - Len(printed) + k
    /\ active # 0 => active = opened - Len(printed)
    /\ \A k \in DOMAIN queue : queue[k] < active
    /\ \A i, j \in DOMAIN queue : i < j => queue[i] < queue[j]
    /\ hand # 0 => hand < active /\ \A k \in DOMAIN queue : hand < queue[k]
    /\ pending = (IF hand = 0 THEN <<>> ELSE <<hand>>) \o queue

\* What each point of the daemon's loop has already emptied.
ControlInv ==
    /\ pc \in {"reading", "processing"} => results = <<>> /\ todo = <<>> /\ hand = 0
    /\ pc \in {"applying", "cleaning"} => hand # 0
    /\ pc = "cleaning" => todo = <<>>
    /\ pc \in {"closing", "closed"} => buffer = <<>> /\ todo = <<>> /\ hand = 0
    /\ pc \in {"reading", "closing", "closed"} => queue = <<>>

\* What was bridged is behind every window that still will be.
FrontInv ==
    \A r \in extracted : /\ r.window <= opened - Len(printed)
                         /\ active # 0 => r.window < active
                         /\ \A k \in DOMAIN queue : r.window < queue[k]

\* r may stand before q in the line from the bridge to the sink.
MayPrecede(r, q) ==
    /\ r # q
    /\ r.kind = "valid" /\ q.kind = "valid" => Before(r, q)

Lined(s) == \A i, j \in DOMAIN s : i < j => MayPrecede(s[i], s[j])
Precede(s, t) == \A r \in Range(s), q \in Range(t) : MayPrecede(r, q)

\* The line, segment by segment.
LineInv ==
    /\ extracted = Range(sink) \cup Range(results) \cup Range(buffer) \cup Range(todo)
    /\ Lined(sink) /\ Lined(results) /\ Lined(buffer) /\ Lined(todo)
    /\ Precede(sink, results) /\ Precede(sink, buffer) /\ Precede(sink, todo)
    /\ Precede(results, buffer) /\ Precede(results, todo) /\ Precede(buffer, todo)
    /\ \A r \in Range(buffer) : r.kind = "valid"
    /\ \A r \in Range(todo) : r.kind \in {"valid", "invalid"}

SessionInv == NamesInv /\ ControlInv /\ FrontInv /\ LineInv

-----------------------------------------------------------------------------
(* Segments of the line.                                                   *)

LEMMA NoneLined == Range(<<>>) = {} /\ Lined(<<>>)
  BY DEF Range, Lined

LEMMA OneLined ==
    ASSUME NEW r
    PROVE  Range(<<r>>) = {r} /\ Lined(<<r>>)
  BY DEF Range, Lined

LEMMA TailLined ==
    ASSUME NEW S, NEW s \in Seq(S), s # <<>>, Lined(s)
    PROVE  /\ Head(s) \in S /\ Tail(s) \in Seq(S)
           /\ Range(s) = {Head(s)} \cup Range(Tail(s))
           /\ Lined(Tail(s))
           /\ \A r \in Range(Tail(s)) : MayPrecede(Head(s), r)
<1>1. Len(s) \in Nat /\ Len(s) > 0 /\ DOMAIN s = 1..Len(s)
  BY EmptySeq, LenProperties
<1>2. /\ Head(s) \in S /\ Tail(s) \in Seq(S) /\ DOMAIN Tail(s) = 1..(Len(s) - 1)
      /\ \A i \in 1..(Len(s) - 1) : Tail(s)[i] = s[i + 1]
  BY <1>1, HeadTailProperties, LenProperties
<1>3. Head(s) = s[1]
  BY <1>1
<1>4. Range(s) = {Head(s)} \cup Range(Tail(s))
  <2>1. ASSUME NEW i \in DOMAIN s
        PROVE  s[i] \in {Head(s)} \cup Range(Tail(s))
    <3>1. CASE i = 1
      BY <3>1, <1>3
    <3>2. CASE i # 1
      <4>1. i - 1 \in DOMAIN Tail(s) /\ Tail(s)[i - 1] = s[i]
        BY <3>2, <2>1, <1>1, <1>2
      <4> QED
        BY <4>1 DEF Range
    <3> QED
      BY <3>1, <3>2
  <2>2. ASSUME NEW i \in DOMAIN Tail(s)
        PROVE  Tail(s)[i] \in Range(s)
    <3>1. i + 1 \in DOMAIN s /\ Tail(s)[i] = s[i + 1]
      BY <2>2, <1>1, <1>2
    <3> QED
      BY <3>1 DEF Range
  <2>3. Head(s) \in Range(s)
    BY <1>1, <1>3 DEF Range
  <2> QED
    BY <2>1, <2>2, <2>3 DEF Range
<1>5. Lined(Tail(s))
  <2> SUFFICES ASSUME NEW i \in DOMAIN Tail(s), NEW j \in DOMAIN Tail(s), i < j
               PROVE  MayPrecede(Tail(s)[i], Tail(s)[j])
    BY DEF Lined
  <2>1. i + 1 \in DOMAIN s /\ j + 1 \in DOMAIN s /\ i + 1 < j + 1
    BY <1>1, <1>2
  <2> QED
    BY <2>1, <1>2 DEF Lined
<1>6. \A r \in Range(Tail(s)) : MayPrecede(Head(s), r)
  <2> SUFFICES ASSUME NEW i \in DOMAIN Tail(s)
               PROVE  MayPrecede(Head(s), Tail(s)[i])
    BY DEF Range
  <2>1. 1 \in DOMAIN s /\ i + 1 \in DOMAIN s /\ 1 < i + 1
    BY <1>1, <1>2
  <2> QED
    BY <2>1, <1>2, <1>3 DEF Lined
<1> QED
  BY <1>2, <1>4, <1>5, <1>6

LEMMA ConcatLined ==
    ASSUME NEW S, NEW s \in Seq(S), NEW t \in Seq(S)
    PROVE  /\ s \o t \in Seq(S)
           /\ Range(s \o t) = Range(s) \cup Range(t)
           /\ Lined(s \o t) <=> Lined(s) /\ Lined(t) /\ Precede(s, t)
<1>1. /\ s \o t \in Seq(S) /\ DOMAIN (s \o t) = 1..(Len(s) + Len(t))
      /\ \A i \in 1..(Len(s) + Len(t)) :
           (s \o t)[i] = IF i <= Len(s) THEN s[i] ELSE t[i - Len(s)]
  BY ConcatProperties, LenProperties
<1>2. /\ Len(s) \in Nat /\ DOMAIN s = 1..Len(s)
      /\ Len(t) \in Nat /\ DOMAIN t = 1..Len(t)
  BY LenProperties
<1>3. \A i \in DOMAIN s : i \in DOMAIN (s \o t) /\ (s \o t)[i] = s[i]
  BY <1>1, <1>2
<1>4. \A i \in DOMAIN t : /\ Len(s) + i \in DOMAIN (s \o t)
                          /\ (s \o t)[Len(s) + i] = t[i]
  BY <1>1, <1>2
<1>5. ASSUME Lined(s \o t)
      PROVE  Lined(s) /\ Lined(t) /\ Precede(s, t)
  <2>1. Lined(s)
    BY <1>3, <1>5 DEF Lined
  <2>2. Lined(t)
    <3> SUFFICES ASSUME NEW i \in DOMAIN t, NEW j \in DOMAIN t, i < j
                 PROVE  MayPrecede(t[i], t[j])
      BY DEF Lined
    <3>1. Len(s) + i < Len(s) + j
      BY <1>2
    <3> QED
      BY <3>1, <1>4, <1>5 DEF Lined
  <2>3. Precede(s, t)
    <3> SUFFICES ASSUME NEW i \in DOMAIN s, NEW j \in DOMAIN t
                 PROVE  MayPrecede(s[i], t[j])
      BY DEF Precede, Range
    <3>1. i < Len(s) + j
      BY <1>2
    <3> QED
      BY <3>1, <1>3, <1>4, <1>5 DEF Lined
  <2> QED
    BY <2>1, <2>2, <2>3
<1>6. ASSUME Lined(s), Lined(t), Precede(s, t)
      PROVE  Lined(s \o t)
  <2> SUFFICES ASSUME NEW i \in DOMAIN (s \o t), NEW j \in DOMAIN (s \o t), i < j
               PROVE  MayPrecede((s \o t)[i], (s \o t)[j])
    BY DEF Lined
  <2>1. CASE j <= Len(s)
    <3>1. /\ i \in DOMAIN s /\ (s \o t)[i] = s[i]
          /\ j \in DOMAIN s /\ (s \o t)[j] = s[j]
      BY <2>1, <1>1, <1>2
    <3> QED
      BY <3>1, <1>6 DEF Lined
  <2>2. CASE i > Len(s)
    <3>1. /\ i - Len(s) \in DOMAIN t /\ (s \o t)[i] = t[i - Len(s)]
          /\ j - Len(s) \in DOMAIN t /\ (s \o t)[j] = t[j - Len(s)]
          /\ i - Len(s) < j - Len(s)
      BY <2>2, <1>1, <1>2
    <3> QED
      BY <3>1, <1>6 DEF Lined
  <2>3. CASE i <= Len(s) /\ j > Len(s)
    <3>1. /\ i \in DOMAIN s /\ (s \o t)[i] = s[i]
          /\ j - Len(s) \in DOMAIN t /\ (s \o t)[j] = t[j - Len(s)]
      BY <2>3, <1>1, <1>2
    <3> QED
      BY <3>1, <1>6 DEF Precede, Range
  <2> QED
    BY <2>1, <2>2, <2>3, <1>1, <1>2
<1> QED
  BY <1>1, <1>5, <1>6, RangeConcatenation

LEMMA AppendLined ==
    ASSUME NEW S, NEW s \in Seq(S), NEW r \in S
    PROVE  /\ Append(s, r) \in Seq(S)
           /\ Range(Append(s, r)) = Range(s) \cup {r}
           /\ Lined(Append(s, r)) <=> Lined(s) /\ \A q \in Range(s) : MayPrecede(q, r)
<1>1. <<r>> \in Seq(S) /\ Append(s, r) = s \o <<r>>
  BY AppendIsConcat
<1>2. /\ s \o <<r>> \in Seq(S)
      /\ Range(s \o <<r>>) = Range(s) \cup Range(<<r>>)
      /\ Lined(s \o <<r>>) <=> Lined(s) /\ Lined(<<r>>) /\ Precede(s, <<r>>)
  BY <1>1, ConcatLined
<1>3. Range(<<r>>) = {r} /\ Lined(<<r>>)
  BY OneLined
<1>4. Precede(s, <<r>>) <=> \A q \in Range(s) : MayPrecede(q, r)
  BY <1>3 DEF Precede
<1> QED
  BY <1>1, <1>2, <1>3, <1>4

LEMMA PrependLined ==
    ASSUME NEW S, NEW s \in Seq(S), NEW r \in S
    PROVE  /\ Range(<<r>> \o s) = {r} \cup Range(s)
           /\ Lined(<<r>> \o s) <=> Lined(s) /\ \A q \in Range(s) : MayPrecede(r, q)
<1>1. <<r>> \in Seq(S)
  OBVIOUS
<1>2. /\ Range(<<r>> \o s) = Range(<<r>>) \cup Range(s)
      /\ Lined(<<r>> \o s) <=> Lined(<<r>>) /\ Lined(s) /\ Precede(<<r>>, s)
  BY ZenonT(60), <1>1, ConcatLined
<1>3. Range(<<r>>) = {r} /\ Lined(<<r>>)
  BY OneLined
<1>4. Precede(<<r>>, s) <=> \A q \in Range(s) : MayPrecede(r, q)
  BY <1>3 DEF Precede
<1> QED
  BY <1>2, <1>3, <1>4

-----------------------------------------------------------------------------
(* Type correctness.                                                       *)

\* What the extractor and the adapter make of a window: records of that window, the
\* adapted and the refused ones each in order and none of them both.
LEMMA FlowsType ==
    ASSUME NEW w \in Windows, NEW f \in Flows(w)
    PROVE  /\ f[1] \in Seq(Records) /\ f[2] \in Seq(Records)
           /\ \A r \in Range(f[1]) : r \in Records /\ r.window = w /\ r.kind # "unadapted"
           /\ \A r \in Range(f[2]) : r \in Records /\ r.window = w /\ r.kind = "unadapted"
           /\ InOrder(f[1]) /\ InOrder(f[2])
<1>1. ASSUME NEW kinds, NEW s \in Rows(w, kinds)
      PROVE  /\ s \in Seq(Records)
             /\ \A r \in Range(s) : r \in Records /\ r.window = w /\ r.kind \in kinds
  <2>1. PICK n \in 0..MaxRecords :
          s \in [1..n -> {r \in Records : r.window = w /\ r.kind \in kinds}]
    BY <1>1 DEF Rows
  <2>2. n \in Nat
    BY SensorAssumption DEF SensorAssumption
  <2>3. s \in [1..n -> Records]
    BY <2>1
  <2>4. s \in Seq(Records)
    BY <2>2, <2>3, SeqDef
  <2> QED
    BY <2>1, <2>4 DEF Range
<1>2. /\ f[1] \in Rows(w, {"valid", "invalid"}) /\ f[2] \in Rows(w, {"unadapted"})
      /\ InOrder(f[1]) /\ InOrder(f[2])
  BY DEF Flows
<1> QED
  BY <1>1, <1>2

LEMMA OrderLined ==
    ASSUME NEW s \in Seq(Records), InOrder(s)
    PROVE  Lined(s)
<1> SUFFICES ASSUME NEW i \in DOMAIN s, NEW j \in DOMAIN s, i < j
             PROVE  MayPrecede(s[i], s[j])
  BY DEF Lined
<1>1. Before(s[i], s[j])
  BY DEF InOrder
<1>2. s[i] \in Records /\ s[j] \in Records
  BY LenProperties, ElementOfSeq
<1>3. /\ s[i].window \in Nat /\ s[j].window \in Nat
      /\ s[i].index \in Nat /\ s[j].index \in Nat
  BY SMTT(30), <1>2, SensorAssumption DEF Records, Windows, SensorAssumption
<1>4. s[i] # s[j]
  BY <1>1, <1>3 DEF Before
<1> QED
  BY <1>1, <1>4 DEF MayPrecede

LEMMA TypeInit == Init => TypeOK
  BY SensorAssumption, EmptySeq DEF Init, TypeOK, Windows, SensorAssumption

LEMMA RangeType ==
    ASSUME NEW S, NEW s \in Seq(S)
    PROVE  Range(s) \subseteq S
  BY RangeOfSeq

LEMMA TypeNext == TypeOK /\ [Next]_vars => TypeOK'
<1> SUFFICES ASSUME TypeOK, [Next]_vars PROVE TypeOK'
  OBVIOUS
<1> USE DEF TypeOK, dumpcapVars, queueVars, runnerVars
<1>0. Windows \subseteq Nat /\ <<>> \in Seq(Windows) /\ <<>> \in Seq(Records)
  BY EmptySeq DEF Windows
<1>1. CASE Rotate
  <2>1. opened + 1 \in Windows
    BY <1>1, SensorAssumption DEF Rotate, Windows, SensorAssumption
  <2>2. printed' \in Seq(Windows)
    BY <1>1, <2>1, AppendProperties DEF Rotate
  <2> QED
    BY <1>1, <2>1, <2>2 DEF Rotate, Windows
<1>2. CASE DumpcapExit
  BY <1>2 DEF DumpcapExit
<1>3. CASE ReadLine
  <2>1. Head(printed) \in Windows /\ Tail(printed) \in Seq(Windows)
    BY <1>3, HeadTailProperties DEF ReadLine
  <2>2. Closed \in Seq(Windows)
    BY <1>0 DEF Closed
  <2>3. pending \o Closed \in Seq(Windows) /\ queue \o Closed \in Seq(Windows)
    BY <2>2, ConcatProperties
  <2> QED
    BY <1>3, <2>1, <2>3 DEF ReadLine
<1>4. CASE BridgeWindow
  <2>1. Head(queue) \in Windows /\ Tail(queue) \in Seq(Windows)
    BY <1>4, HeadTailProperties DEF BridgeWindow
  <2>2. PICK flows \in Flows(Head(queue)) :
          /\ results' = flows[2] /\ todo' = flows[1]
          /\ extracted' = extracted \cup Range(flows[1]) \cup Range(flows[2])
    BY <1>4 DEF BridgeWindow
  <2>3. /\ todo' \in Seq(Records) /\ results' \in Seq(Records)
        /\ extracted' \subseteq Records
    BY <2>1, <2>2, FlowsType, RangeType
  <2> QED
    BY <1>4, <2>1, <2>3 DEF BridgeWindow
<1>5. CASE Record
  <2>1. Head(results) \in Records /\ Tail(results) \in Seq(Records)
    BY <1>5, HeadTailProperties DEF Record
  <2>2. Append(sink, Head(results)) \in Seq(Records)
    BY <2>1, AppendProperties
  <2> QED
    BY <1>5, <2>1, <2>2 DEF Record
<1>6. CASE IngestRecord
  <2>1. Head(todo) \in Records /\ Tail(todo) \in Seq(Records)
    BY <1>6, HeadTailProperties DEF IngestRecord
  <2> DEFINE due == IF FlushDue THEN buffer ELSE <<>>
             held == IF FlushDue THEN <<>> ELSE buffer
             grown == Append(held, Head(todo))
  <2>2. due \in Seq(Records) /\ held \in Seq(Records) /\ <<Head(todo)>> \in Seq(Records)
    BY <1>0, <2>1
  <2>3. grown \in Seq(Records)
    BY <2>1, <2>2, AppendProperties
  <2>4. /\ <<Head(todo)>> \o due \in Seq(Records)
        /\ due \o grown \in Seq(Records) /\ due \o <<>> \in Seq(Records)
    BY <1>0, <2>2, <2>3, ConcatProperties
  <2>5. results' \in Seq(Records) /\ buffer' \in Seq(Records) /\ age' \in Nat
    <3>1. /\ results' \in {<<Head(todo)>> \o due, due \o grown, due \o <<>>}
          /\ buffer' \in {held, <<>>, grown} /\ age' \in {0, age}
      BY <1>6 DEF IngestRecord
    <3>2. age \in Nat /\ 0 \in Nat
      OBVIOUS
    <3> HIDE DEF due, held, grown
    <3> QED
      BY <1>0, <2>2, <2>3, <2>4, <3>1, <3>2
  <2> QED
    BY <1>6, <2>1, <2>5 DEF IngestRecord
<1>7. CASE ApplyEnd
  <2>1. results' \in {buffer, results} /\ buffer' \in {<<>>, buffer} /\ age' \in {0, age}
    BY <1>7 DEF ApplyEnd
  <2>2. results' \in Seq(Records) /\ buffer' \in Seq(Records)
    BY <1>0, <2>1
  <2>3. age' \in Nat
    BY <2>1
  <2> QED
    BY <1>7, <2>2, <2>3 DEF ApplyEnd
<1>8. CASE Cleanup
  <2>1. ASSUME NEW k \in DOMAIN pending
        PROVE  SubSeq(pending, 1, k - 1) \o SubSeq(pending, k + 1, Len(pending)) \in Seq(Windows)
    <3>1. /\ Len(pending) \in Nat /\ k \in 1..Len(pending)
          /\ \A i \in 1..Len(pending) : pending[i] \in Windows
      BY <2>1, LenProperties, ElementOfSeq
    <3>2. /\ SubSeq(pending, 1, k - 1) \in Seq(Windows)
          /\ SubSeq(pending, k + 1, Len(pending)) \in Seq(Windows)
      BY <3>1, SubSeqProperties
    <3> QED
      BY <3>2, ConcatProperties
  <2>2. pending' \in Seq(Windows)
    BY <1>8, <2>1 DEF Cleanup
  <2> QED
    BY <1>8, <2>2 DEF Cleanup
<1>9. CASE QueueDrained
  BY <1>9 DEF QueueDrained
<1>10. CASE EndOfStream
  BY <1>0, <1>10 DEF EndOfStream
<1>11. CASE CloseSession
  BY <1>11 DEF CloseSession
<1>12. CASE Raise
  BY <1>12 DEF Raise
<1>13. CASE Kill
  BY <1>13 DEF Kill
<1>14. CASE Restart
  <2>1. Range(sink) \subseteq Records
    BY RangeType
  <2> QED
    BY <1>0, <1>14, <2>1 DEF Restart
<1>15. CASE Tick
  BY <1>15 DEF Tick
<1>16. CASE UNCHANGED vars
  BY <1>16 DEF vars
<1> QED
  BY <1>1, <1>2, <1>3, <1>4, <1>5, <1>6, <1>7, <1>8, <1>9, <1>10, <1>11, <1>12, <1>13,
     <1>14, <1>15, <1>16 DEF Next, DaemonStep

\* Windows, queues and segments have their types.
THEOREM SensorTyped == Spec => []TypeOK
  BY TypeInit, TypeNext, PTL DEF Spec

-----------------------------------------------------------------------------
(* The names of the windows.                                               *)

LEMMA NamesInit == Init => NamesInv /\ ControlInv /\ FrontInv
  BY EmptySeq, ConcatEmptySeq DEF Init, NamesInv, ControlInv, FrontInv

\* Dropping the first occurrence of the head of a sequence leaves its tail.
LEMMA DropHead ==
    ASSUME NEW S, NEW q \in Seq(S), NEW h \in S, \A i \in DOMAIN q : q[i] # h
    PROVE  \A p, k : p = <<h>> \o q /\ k \in DOMAIN p /\ p[k] = h
             => SubSeq(p, 1, k - 1) \o SubSeq(p, k + 1, Len(p)) = q
<1> SUFFICES ASSUME NEW p, NEW k, p = <<h>> \o q, k \in DOMAIN p, p[k] = h
             PROVE  SubSeq(p, 1, k - 1) \o SubSeq(p, k + 1, Len(p)) = q
  OBVIOUS
<1>1. /\ <<h>> \in Seq(S) /\ Len(<<h>>) = 1 /\ <<h>>[1] = h
      /\ Len(q) \in Nat /\ DOMAIN q = 1..Len(q)
  BY LenProperties
<1>2. /\ p \in Seq(S) /\ Len(p) = Len(q) + 1 /\ DOMAIN p = 1..(Len(q) + 1)
      /\ \A i \in 2..(Len(q) + 1) : p[i] = q[i - 1]
  BY <1>1, ConcatProperties, LenProperties
<1>3. k = 1
  <2>1. ASSUME k # 1 PROVE FALSE
    <3>1. k - 1 \in DOMAIN q /\ p[k] = q[k - 1]
      BY <2>1, <1>1, <1>2
    <3> QED
      BY <3>1
  <2> QED
    BY <2>1
<1>4. SubSeq(p, 1, k - 1) = <<>>
  BY <1>3, SubSeqEmpty
<1>5. /\ SubSeq(p, 2, Len(p)) \in Seq(S) /\ Len(SubSeq(p, 2, Len(p))) = Len(q)
      /\ \A i \in 1..Len(q) : SubSeq(p, 2, Len(p))[i] = q[i]
  <2>1. \A i \in 2..Len(p) : p[i] \in S
    BY <1>2, ElementOfSeq
  <2>2. /\ SubSeq(p, 2, Len(p)) \in Seq(S)
        /\ Len(SubSeq(p, 2, Len(p))) = IF 2 <= Len(p) THEN Len(p) - 2 + 1 ELSE 0
        /\ \A i \in 1..(Len(p) - 2 + 1) : SubSeq(p, 2, Len(p))[i] = p[2 + i - 1]
    BY <2>1, <1>1, <1>2, SubSeqProperties
  <2>3. \A i \in 1..Len(q) : 2 + i - 1 \in 2..(Len(q) + 1) /\ 2 + i - 1 - 1 = i
    BY <1>1
  <2> QED
    BY <1>1, <1>2, <2>2, <2>3
<1>6. SubSeq(p, 2, Len(p)) = q
  BY <1>5, SeqEqual
<1> QED
  BY <1>3, <1>4, <1>6, ConcatEmptySeq
\* One element off a sequence of windows, and one more.
LEMMA TailWindows ==
    ASSUME NEW q \in Seq(Windows), q # <<>>
    PROVE  /\ Head(q) = q[1] /\ Head(q) \in Windows /\ Tail(q) \in Seq(Windows)
           /\ Len(q) \in Nat \ {0} /\ DOMAIN q = 1..Len(q)
           /\ Len(Tail(q)) = Len(q) - 1 /\ DOMAIN Tail(q) = 1..(Len(q) - 1)
           /\ \A k \in DOMAIN Tail(q) : Tail(q)[k] = q[k + 1]
           /\ q = <<Head(q)>> \o Tail(q)
<1>1. /\ Len(q) \in Nat /\ Len(q) # 0 /\ DOMAIN q = 1..Len(q)
      /\ Head(q) \in Windows /\ Tail(q) \in Seq(Windows)
      /\ Len(Tail(q)) = Len(q) - 1 /\ DOMAIN Tail(q) = 1..Len(Tail(q))
      /\ \A k \in 1..Len(Tail(q)) : Tail(q)[k] = q[k + 1]
  BY EmptySeq, LenProperties, HeadTailProperties
<1>2. Head(q) = q[1]
  BY <1>1
<1>3. /\ <<Head(q)>> \o Tail(q) \in Seq(Windows)
      /\ Len(<<Head(q)>> \o Tail(q)) = Len(q)
      /\ \A k \in 1..Len(q) : (<<Head(q)>> \o Tail(q))[k] = q[k]
  <2>1. <<Head(q)>> \in Seq(Windows) /\ Len(<<Head(q)>>) = 1 /\ <<Head(q)>>[1] = q[1]
    BY <1>1, <1>2
  <2>2. /\ <<Head(q)>> \o Tail(q) \in Seq(Windows)
        /\ Len(<<Head(q)>> \o Tail(q)) = 1 + Len(Tail(q))
        /\ \A k \in 1..(1 + Len(Tail(q))) :
             (<<Head(q)>> \o Tail(q))[k]
               = IF k <= 1 THEN <<Head(q)>>[k] ELSE Tail(q)[k - 1]
    BY <1>1, <2>1, ConcatProperties
  <2>3. ASSUME NEW k \in 1..Len(q), k # 1
        PROVE  k - 1 \in 1..Len(Tail(q)) /\ Tail(q)[k - 1] = q[k]
    BY <1>1, <2>3
  <2> QED
    BY <1>1, <2>1, <2>2, <2>3
<1>4. q = <<Head(q)>> \o Tail(q)
  BY <1>3, SeqEqual
<1> QED
  BY <1>1, <1>2, <1>4

LEMMA NamesNext == TypeOK /\ NamesInv /\ ControlInv /\ [Next]_vars => NamesInv'
<1> SUFFICES ASSUME TypeOK, NamesInv, ControlInv, [Next]_vars PROVE NamesInv'
  OBVIOUS
<1> USE DEF dumpcapVars, queueVars, runnerVars
<1>0. /\ opened \in Nat /\ base \in Nat /\ active \in Nat /\ hand \in Nat
      /\ Len(printed) \in Nat /\ Len(queue) \in Nat
      /\ DOMAIN printed = 1..Len(printed) /\ DOMAIN queue = 1..Len(queue)
      /\ \A k \in DOMAIN queue : queue[k] \in Windows /\ queue[k] \in Nat /\ queue[k] > 0
      /\ <<>> \in Seq(Windows) /\ queue \in Seq(Windows) /\ printed \in Seq(Windows)
  BY SMTT(30), SensorAssumption, LenProperties, ElementOfSeq, EmptySeq
     DEF TypeOK, Windows, SensorAssumption
<1>b. /\ base <= opened - Len(printed)
      /\ active # 0 => active = opened - Len(printed)
      /\ \A k \in 1..Len(printed) : printed[k] = opened - Len(printed) + k
  BY <1>0 DEF NamesInv
<1>c. /\ \A k \in 1..Len(queue) : queue[k] < active
      /\ \A i, j \in 1..Len(queue) : i < j => queue[i] < queue[j]
  BY <1>0 DEF NamesInv
<1>a. ASSUME UNCHANGED <<opened, base, printed, active, queue, hand, pending>>
      PROVE  NamesInv'
  BY <1>a DEF NamesInv
<1>1. CASE Rotate
  <2>1. /\ opened' = opened + 1 /\ Len(printed') = Len(printed) + 1
        /\ DOMAIN printed' = 1..(Len(printed) + 1)
        /\ \A k \in DOMAIN printed : printed'[k] = printed[k]
        /\ printed'[Len(printed) + 1] = opened + 1
    <3>1. opened + 1 \in Windows
      BY <1>0, <1>1, SensorAssumption DEF Rotate, Windows, SensorAssumption
    <3>2. printed' \in Seq(Windows)
      BY <1>0, <1>1, <3>1, AppendProperties DEF Rotate
    <3> QED
      BY <1>0, <1>1, <3>1, <3>2, AppendProperties, LenProperties DEF Rotate
  <2>a. opened' - Len(printed') = opened - Len(printed)
    BY <1>0, <2>1
  <2>2. \A k \in DOMAIN printed' : printed'[k] = opened' - Len(printed') + k
    <3> SUFFICES ASSUME NEW k \in 1..(Len(printed) + 1)
                 PROVE  printed'[k] = opened - Len(printed) + k
      BY <2>1, <2>a
    <3>1. CASE k = Len(printed) + 1
      BY <1>0, <2>1, <3>1
    <3>2. CASE k # Len(printed) + 1
      <4>1. k \in 1..Len(printed)
        BY <1>0, <3>2
      <4>2. printed'[k] = opened - Len(printed) + k
        BY <1>0, <1>b, <2>1, <4>1
      <4> QED
        BY <1>0, <4>1, <4>2
    <3> QED
      BY <3>1, <3>2
  <2>3. UNCHANGED <<base, active, queue, hand, pending>>
    BY <1>1 DEF Rotate
  <2>4. base' <= opened' - Len(printed') /\ (active' # 0 => active' = opened' - Len(printed'))
    BY <1>b, <2>a, <2>3
  <2> QED
    BY <2>2, <2>3, <2>4 DEF NamesInv
<1>2. CASE DumpcapExit
  BY <1>2, <1>a DEF DumpcapExit
<1>3. CASE ReadLine
  <2>1. /\ Head(printed) = printed[1] /\ Len(printed) > 0
        /\ Len(Tail(printed)) = Len(printed) - 1
        /\ DOMAIN Tail(printed) = 1..(Len(printed) - 1)
        /\ \A k \in DOMAIN Tail(printed) : Tail(printed)[k] = printed[k + 1]
    BY <1>0, <1>3, TailWindows DEF ReadLine
  <2>2. printed' = Tail(printed) /\ active' = Head(printed) /\ hand' = hand
        /\ opened' = opened /\ base' = base
    BY <1>3 DEF ReadLine
  <2>3. /\ base' <= opened' - Len(printed') /\ active' = opened' - Len(printed')
        /\ active' # 0 /\ active' > active
        /\ \A k \in DOMAIN printed' : printed'[k] = opened' - Len(printed') + k
    <3>1. printed[1] = opened - Len(printed) + 1 /\ 1 \in 1..Len(printed)
      BY <1>0, <1>b, <2>1
    <3>2. Len(printed') = Len(printed) - 1
      BY <2>1, <2>2
    <3>3. ASSUME NEW k \in 1..(Len(printed) - 1)
          PROVE  printed'[k] = opened - (Len(printed) - 1) + k
      <4>1. k + 1 \in 1..Len(printed)
        BY <1>0
      <4>2. printed'[k] = opened - Len(printed) + (k + 1)
        BY <1>b, <2>1, <2>2, <4>1
      <4> QED
        BY <1>0, <4>2
    <3>4. active' > active
      BY <1>0, <1>b, <2>1, <2>2, <3>1
    <3> QED
      BY <1>0, <1>b, <2>1, <2>2, <3>1, <3>2, <3>3, <3>4
  <2>4. pc = "reading" /\ queue = <<>> /\ hand = 0 /\ pending = <<>>
    <3>1. pc = "reading" /\ queue = <<>> /\ hand = 0
      BY <1>3 DEF ReadLine, ControlInv
    <3>2. pending = <<>> \o queue
      BY <3>1 DEF NamesInv
    <3> QED
      BY <1>0, <3>1, <3>2, ConcatEmptySeq
  <2>5. Closed = <<>> \/ (Closed = <<active>> /\ active \in Windows)
    BY DEF Closed, TypeOK
  <2>6. queue' = Closed /\ pending' = Closed
    <3>1. <<>> \o Closed = Closed
      BY <1>0, <2>5, ConcatEmptySeq
    <3> QED
      BY <1>3, <2>4, <3>1 DEF ReadLine
  <2>7. <<>> \o queue' = queue'
    BY <1>0, <2>5, <2>6, ConcatEmptySeq
  <2>8. \A k \in DOMAIN queue' : k = 1 /\ queue'[k] = active
    BY <2>5, <2>6
  <2> QED
    BY <1>0, <2>2, <2>3, <2>4, <2>6, <2>7, <2>8 DEF NamesInv
<1>4. CASE BridgeWindow
  <2>1. /\ queue' = Tail(queue) /\ hand' = Head(queue)
        /\ UNCHANGED <<opened, base, printed, active, pending>> /\ hand = 0
    BY <1>4 DEF BridgeWindow, ControlInv
  <2>2. /\ Head(queue) = queue[1] /\ 1 \in DOMAIN queue
        /\ DOMAIN Tail(queue) = 1..(Len(queue) - 1)
        /\ \A k \in DOMAIN Tail(queue) : Tail(queue)[k] = queue[k + 1]
        /\ queue = <<Head(queue)>> \o Tail(queue)
    BY <1>0, <1>4, TailWindows DEF BridgeWindow
  <2>3. \A k \in DOMAIN queue' : k + 1 \in DOMAIN queue /\ queue'[k] = queue[k + 1]
    BY <1>0, <2>1, <2>2
  <2>4. pending = queue
    BY <2>1, ConcatEmptySeq DEF NamesInv
  <2>5. hand' # 0 /\ pending' = <<hand'>> \o queue'
    <3>1. pending' = <<hand'>> \o queue'
      BY <2>1, <2>2, <2>4
    <3>2. hand' = queue[1] /\ queue[1] > 0
      BY <1>0, <2>1, <2>2
    <3> QED
      BY <1>0, <3>1, <3>2
  <2>6. \A k \in DOMAIN queue' : queue'[k] < active' /\ hand' < queue'[k]
    <3> SUFFICES ASSUME NEW k \in DOMAIN queue'
                 PROVE  queue'[k] < active /\ hand' < queue'[k]
      BY <2>1
    <3>1. k \in 1..(Len(queue) - 1) /\ queue'[k] = queue[k + 1] /\ hand' = queue[1]
      BY <2>1, <2>2, <2>3
    <3>2. k + 1 \in 1..Len(queue) /\ 1 \in 1..Len(queue) /\ 1 < k + 1
      BY <1>0, <3>1
    <3> QED
      BY <1>c, <3>1, <3>2
  <2>7. \A i, j \in DOMAIN queue' : i < j => queue'[i] < queue'[j]
    BY <1>0, <1>c, <2>1, <2>2, <2>3
  <2>8. hand' < active'
    BY <2>1, <2>2 DEF NamesInv
  <2> QED
    BY <2>1, <2>5, <2>6, <2>7, <2>8 DEF NamesInv
<1>5. CASE Record
  BY <1>5, <1>a DEF Record
<1>6. CASE IngestRecord
  BY <1>6, <1>a DEF IngestRecord
<1>7. CASE ApplyEnd
  BY <1>7, <1>a DEF ApplyEnd
<1>8. CASE Cleanup
  <2>1. hand # 0 /\ hand \in Windows /\ pending = <<hand>> \o queue
    BY <1>8 DEF Cleanup, ControlInv, NamesInv, TypeOK
  <2>2. hand \in Range(pending)
    <3>1. /\ <<hand>> \in Seq(Windows) /\ Len(<<hand>>) = 1 /\ <<hand>>[1] = hand
      BY <2>1
    <3>2. pending[1] = hand /\ 1 \in DOMAIN pending
      BY <1>0, <2>1, <3>1, ConcatProperties, LenProperties
    <3> QED
      BY <3>2 DEF Range
  <2>3. \A k \in DOMAIN queue : queue[k] # hand
    BY <1>0, <2>1 DEF NamesInv
  <2>4. pending' = queue
    <3>1. PICK k \in DOMAIN pending :
            /\ pending[k] = hand
            /\ pending' = SubSeq(pending, 1, k - 1) \o SubSeq(pending, k + 1, Len(pending))
      BY <1>8, <2>2 DEF Cleanup
    <3>2. SubSeq(pending, 1, k - 1) \o SubSeq(pending, k + 1, Len(pending)) = queue
      <4>1. \A p, i : p = <<hand>> \o queue /\ i \in DOMAIN p /\ p[i] = hand
                => SubSeq(p, 1, i - 1) \o SubSeq(p, i + 1, Len(p)) = queue
        <5>1. queue \in Seq(Windows) /\ hand \in Windows
          BY <1>0, <2>1
        <5> QED
          BY ONLY <5>1, <2>3, DropHead, ZenonT(30)
      <4> QED
        BY <2>1, <3>1, <4>1
    <3> QED
      BY <3>1, <3>2
  <2>5. hand' = 0 /\ UNCHANGED <<opened, base, printed, active, queue>>
    BY <1>8 DEF Cleanup
  <2>6. pending' = <<>> \o queue'
    BY <2>4, <2>5, ConcatEmptySeq
  <2> QED
    BY <2>5, <2>6 DEF NamesInv
<1>9. CASE QueueDrained
  BY <1>9, <1>a DEF QueueDrained
<1>10. CASE EndOfStream
  BY <1>10, <1>a DEF EndOfStream
<1>11. CASE CloseSession
  BY <1>11, <1>a DEF CloseSession
<1>12. CASE Raise
  BY <1>12, <1>a DEF Raise
<1>13. CASE Kill
  BY <1>13, <1>a DEF Kill
<1>14. CASE Restart
  <2>1. /\ base' = opened /\ opened' = opened /\ printed' = <<>> /\ active' = 0
        /\ pending' = <<>> /\ queue' = <<>> /\ hand' = 0
    BY <1>14 DEF Restart
  <2>2. Len(printed') = 0 /\ <<>> \o queue' = <<>>
    BY <1>0, <2>1, EmptySeq, ConcatEmptySeq
  <2> QED
    BY <1>0, <2>1, <2>2 DEF NamesInv
<1>15. CASE Tick
  BY <1>15, <1>a DEF Tick
<1>16. CASE UNCHANGED vars
  BY <1>16, <1>a DEF vars
<1> QED
  BY <1>1, <1>2, <1>3, <1>4, <1>5, <1>6, <1>7, <1>8, <1>9, <1>10, <1>11, <1>12, <1>13,
     <1>14, <1>15, <1>16 DEF Next, DaemonStep
LEMMA ControlNext == TypeOK /\ NamesInv /\ ControlInv /\ [Next]_vars => ControlInv'
<1> SUFFICES ASSUME TypeOK, NamesInv, ControlInv, [Next]_vars PROVE ControlInv'
  OBVIOUS
<1> USE DEF ControlInv, dumpcapVars, queueVars, runnerVars
<1>1. CASE Rotate
  BY <1>1 DEF Rotate
<1>2. CASE DumpcapExit
  BY <1>2 DEF DumpcapExit
<1>3. CASE ReadLine
  BY <1>3 DEF ReadLine
<1>4. CASE BridgeWindow
  <2>1. hand' # 0
    <3>1. Head(queue) \in Windows
      BY <1>4, TailWindows DEF BridgeWindow, TypeOK
    <3> QED
      BY <1>4, <3>1 DEF BridgeWindow, Windows
  <2> QED
    BY <1>4, <2>1 DEF BridgeWindow
<1>5. CASE Record
  BY <1>5 DEF Record
<1>6. CASE IngestRecord
  BY <1>6 DEF IngestRecord
<1>7. CASE ApplyEnd
  BY <1>7 DEF ApplyEnd
<1>8. CASE Cleanup
  BY <1>8 DEF Cleanup
<1>9. CASE QueueDrained
  BY <1>9 DEF QueueDrained
<1>10. CASE EndOfStream
  BY <1>10 DEF EndOfStream
<1>11. CASE CloseSession
  BY <1>11 DEF CloseSession
<1>12. CASE Raise
  BY <1>12 DEF Raise
<1>13. CASE Kill
  BY <1>13 DEF Kill
<1>14. CASE Restart
  BY <1>14 DEF Restart
<1>15. CASE Tick
  BY <1>15 DEF Tick
<1>16. CASE UNCHANGED vars
  BY <1>16 DEF vars
<1> QED
  BY <1>1, <1>2, <1>3, <1>4, <1>5, <1>6, <1>7, <1>8, <1>9, <1>10, <1>11, <1>12, <1>13,
     <1>14, <1>15, <1>16 DEF Next, DaemonStep

\* A window bridged now is behind every window that still will be, and ahead of what
\* was bridged before.
LEMMA FrontNext ==
    TypeOK /\ NamesInv /\ ControlInv /\ FrontInv /\ LineInv /\ [Next]_vars => FrontInv'
<1> SUFFICES ASSUME TypeOK, NamesInv, ControlInv, FrontInv, LineInv, [Next]_vars
             PROVE  FrontInv'
  OBVIOUS
<1> USE DEF dumpcapVars, queueVars, runnerVars
<1>0. /\ opened \in Nat /\ active \in Nat
      /\ \A r \in extracted : r.window \in Nat
      /\ printed \in Seq(Windows) /\ Len(printed) \in Nat
      /\ queue \in Seq(Windows) /\ DOMAIN queue = 1..Len(queue) /\ Len(queue) \in Nat
      /\ \A k \in DOMAIN queue : queue[k] \in Nat
  BY SMTT(30), SensorAssumption, LenProperties, ElementOfSeq
     DEF TypeOK, Records, Windows, SensorAssumption
<1>a. ASSUME UNCHANGED <<opened, printed, active, queue, extracted>>
      PROVE  FrontInv'
  BY <1>a DEF FrontInv
<1>1. CASE Rotate
  <2>1. opened' = opened + 1 /\ UNCHANGED <<active, queue, extracted>>
    BY <1>1 DEF Rotate
  <2>2. Len(printed') = Len(printed) + 1
    <3>1. opened + 1 \in Windows
      BY <1>0, <1>1, SensorAssumption DEF Rotate, Windows, SensorAssumption
    <3> QED
      BY <1>0, <1>1, <3>1, AppendProperties DEF Rotate
  <2>3. opened' - Len(printed') = opened - Len(printed)
    BY <1>0, <2>1, <2>2
  <2> QED
    BY <2>1, <2>3 DEF FrontInv
<1>2. CASE DumpcapExit
  BY <1>2, <1>a DEF DumpcapExit
<1>3. CASE ReadLine
  <2>1. opened' = opened /\ extracted' = extracted /\ active' = Head(printed)
    BY <1>3 DEF ReadLine
  <2>2. Len(printed') = Len(printed) - 1 /\ Head(printed) = opened - Len(printed) + 1
    <3>1. /\ Len(Tail(printed)) = Len(printed) - 1 /\ Head(printed) = printed[1]
          /\ 1 \in DOMAIN printed
      BY <1>0, <1>3, TailWindows DEF ReadLine
    <3> QED
      BY <1>3, <3>1 DEF ReadLine, NamesInv
  <2>3. \A k \in DOMAIN queue' : queue'[k] = active /\ active # 0
    <3>1. queue = <<>>
      BY <1>3 DEF ReadLine, ControlInv
    <3>2. Closed = <<>> \/ (Closed = <<active>> /\ active # 0 /\ active \in Windows)
      BY DEF Closed, TypeOK
    <3>3. queue' = Closed
      <4>1. Closed \in Seq(Windows)
        <5>1. CASE Closed = <<>>
          BY <5>1
        <5>2. CASE Closed = <<active>> /\ active \in Windows
          BY <5>2
        <5> QED
          BY <3>2, <5>1, <5>2
      <4> QED
        BY <1>3, <3>1, <4>1, ConcatEmptySeq DEF ReadLine
    <3> QED
      BY <3>2, <3>3
  <2> SUFFICES ASSUME NEW r \in extracted
               PROVE  /\ r.window <= opened' - Len(printed') /\ r.window < active'
                      /\ \A k \in DOMAIN queue' : r.window < queue'[k]
    BY <2>1 DEF FrontInv
  <2>4. r.window <= opened - Len(printed) /\ (active # 0 => r.window < active)
    BY DEF FrontInv
  <2> QED
    BY <1>0, <2>1, <2>2, <2>3, <2>4
<1>4. CASE BridgeWindow
  <2>1. /\ queue' = Tail(queue) /\ UNCHANGED <<opened, printed, active>>
        /\ Head(queue) \in Windows
    BY <1>0, <1>4, TailWindows DEF BridgeWindow
  <2>2. /\ Head(queue) = queue[1] /\ 1 \in DOMAIN queue
        /\ \A k \in DOMAIN queue' : /\ k + 1 \in DOMAIN queue /\ 1 < k + 1
                                    /\ queue'[k] = queue[k + 1]
    BY <1>0, <1>4, <2>1, TailWindows DEF BridgeWindow
  <2>3. \A r \in extracted' : r \in extracted \/ r.window = Head(queue)
    BY <1>4, <2>1, FlowsType DEF BridgeWindow
  <2>4. Head(queue) < active /\ \A k \in DOMAIN queue' : Head(queue) < queue'[k]
    BY <2>2 DEF NamesInv
  <2>5. active # 0 => Head(queue) <= opened - Len(printed)
    BY <1>0, <2>2, <2>4 DEF NamesInv
  <2>6. active # 0
    BY <1>0, <2>2, <2>4
  <2> SUFFICES ASSUME NEW r \in extracted'
               PROVE  /\ r.window <= opened - Len(printed) /\ r.window < active
                      /\ \A k \in DOMAIN queue' : r.window < queue'[k]
    BY <2>1 DEF FrontInv
  <2>7. CASE r \in extracted
    BY <2>2, <2>6, <2>7 DEF FrontInv
  <2>8. CASE r.window = Head(queue)
    BY <2>4, <2>5, <2>6, <2>8
  <2> QED
    BY <2>3, <2>7, <2>8
<1>5. CASE Record
  BY <1>5, <1>a DEF Record
<1>6. CASE IngestRecord
  BY <1>6, <1>a DEF IngestRecord
<1>7. CASE ApplyEnd
  BY <1>7, <1>a DEF ApplyEnd
<1>8. CASE Cleanup
  BY <1>8, <1>a DEF Cleanup
<1>9. CASE QueueDrained
  BY <1>9, <1>a DEF QueueDrained
<1>10. CASE EndOfStream
  BY <1>10, <1>a DEF EndOfStream
<1>11. CASE CloseSession
  BY <1>11, <1>a DEF CloseSession
<1>12. CASE Raise
  BY <1>12, <1>a DEF Raise
<1>13. CASE Kill
  BY <1>13, <1>a DEF Kill
<1>14. CASE Restart
  <2>1. /\ opened' = opened /\ printed' = <<>> /\ active' = 0 /\ queue' = <<>>
        /\ extracted' \subseteq extracted
    BY <1>14 DEF Restart, LineInv
  <2>2. Len(printed') = 0 /\ DOMAIN queue' = {}
    BY <2>1
  <2>3. \A r \in extracted' : r.window <= opened' - Len(printed')
    BY <1>0, <2>1, <2>2 DEF FrontInv
  <2> QED
    BY <2>1, <2>2, <2>3 DEF FrontInv
<1>15. CASE Tick
  BY <1>15, <1>a DEF Tick
<1>16. CASE UNCHANGED vars
  BY <1>16, <1>a DEF vars
<1> QED
  BY <1>1, <1>2, <1>3, <1>4, <1>5, <1>6, <1>7, <1>8, <1>9, <1>10, <1>11, <1>12, <1>13,
     <1>14, <1>15, <1>16 DEF Next, DaemonStep
-----------------------------------------------------------------------------
(* The line from the bridge to the sink.                                   *)

LEMMA LineInit == Init => LineInv
  BY NoneLined DEF Init, LineInv, Precede

\* Everything bridged so far may precede what a later window yields.
LEMMA LaterWindow ==
    ASSUME NEW r \in Records, NEW q \in Records, r.window < q.window
    PROVE  MayPrecede(r, q)
<1>1. r.window \in Nat /\ q.window \in Nat
  BY SensorAssumption DEF Records, Windows, SensorAssumption
<1> QED
  BY <1>1 DEF MayPrecede, Before

\* A record that is not valid may stand anywhere, once.
LEMMA AnyPlace ==
    ASSUME NEW r, NEW q, r # q, r.kind # "valid" \/ q.kind # "valid"
    PROVE  MayPrecede(r, q)
  BY DEF MayPrecede

LEMMA LineNext ==
    TypeOK /\ NamesInv /\ ControlInv /\ FrontInv /\ LineInv /\ [Next]_vars => LineInv'
<1> SUFFICES ASSUME TypeOK, NamesInv, ControlInv, FrontInv, LineInv, [Next]_vars
             PROVE  LineInv'
  OBVIOUS
<1> USE DEF dumpcapVars, queueVars, runnerVars
<1>0. /\ todo \in Seq(Records) /\ buffer \in Seq(Records)
      /\ results \in Seq(Records) /\ sink \in Seq(Records) /\ queue \in Seq(Windows)
      /\ extracted \subseteq Records
      /\ Range(<<>>) = {} /\ Lined(<<>>) /\ <<>> \in Seq(Records)
  BY NoneLined, EmptySeq DEF TypeOK
<1>b. /\ extracted = Range(sink) \cup Range(results) \cup Range(buffer) \cup Range(todo)
      /\ Lined(sink) /\ Lined(results) /\ Lined(buffer) /\ Lined(todo)
      /\ \A r \in Range(sink) : /\ \A q \in Range(results) : MayPrecede(r, q)
                                /\ \A q \in Range(buffer) : MayPrecede(r, q)
                                /\ \A q \in Range(todo) : MayPrecede(r, q)
      /\ \A r \in Range(results) : /\ \A q \in Range(buffer) : MayPrecede(r, q)
                                   /\ \A q \in Range(todo) : MayPrecede(r, q)
      /\ \A r \in Range(buffer) : /\ \A q \in Range(todo) : MayPrecede(r, q)
      /\ \A r \in Range(buffer) : r.kind = "valid"
      /\ \A r \in Range(todo) : r.kind \in {"valid", "invalid"}
  BY DEF LineInv, Precede
<1>a. ASSUME UNCHANGED <<sink, results, buffer, todo, extracted>>
      PROVE  LineInv'
  BY <1>a DEF LineInv
\* A flush moves the buffer to the results, which are empty.
<1>f. ASSUME results = <<>>, results' = buffer, buffer' = <<>>,
             UNCHANGED <<sink, todo, extracted>>
      PROVE  LineInv'
  BY <1>0, <1>b, <1>f DEF LineInv, Precede
<1>1. CASE Rotate
  BY <1>1, <1>a DEF Rotate
<1>2. CASE DumpcapExit
  BY <1>2, <1>a DEF DumpcapExit
<1>3. CASE ReadLine
  BY <1>3, <1>a DEF ReadLine
<1>4. CASE BridgeWindow
  <2>1. Head(queue) \in Windows /\ Head(queue) = queue[1] /\ 1 \in DOMAIN queue
    BY <1>0, <1>4, TailWindows DEF BridgeWindow
  <2>2. PICK flows \in Flows(Head(queue)) :
          /\ results' = flows[2] /\ todo' = flows[1]
          /\ extracted' = extracted \cup Range(flows[1]) \cup Range(flows[2])
    BY <1>4 DEF BridgeWindow
  <2>3. UNCHANGED <<sink, buffer>> /\ results = <<>> /\ todo = <<>>
    BY <1>4 DEF BridgeWindow, ControlInv
  <2>4. /\ Lined(results') /\ Lined(todo')
        /\ \A r \in Range(todo') : /\ r \in Records /\ r.window = Head(queue)
                                   /\ r.kind # "unadapted"
        /\ \A r \in Range(results') : /\ r \in Records /\ r.window = Head(queue)
                                      /\ r.kind = "unadapted"
    BY <2>1, <2>2, FlowsType, OrderLined
  <2>5. \A r \in extracted : r \in Records /\ r.window < Head(queue)
    BY <1>0, <2>1 DEF FrontInv
  <2>6. \A r \in extracted, q \in Range(todo') \cup Range(results') :
          MayPrecede(r, q) /\ r # q
    <3> SUFFICES ASSUME NEW r \in extracted, NEW q \in Range(todo') \cup Range(results')
                 PROVE  MayPrecede(r, q) /\ r # q
      OBVIOUS
    <3>1. r.window < q.window /\ r \in Records /\ q \in Records
      BY <2>4, <2>5
    <3> QED
      BY <3>1, LaterWindow DEF MayPrecede
  <2>7. \A r \in Range(results') :
          /\ \A q \in Range(buffer) : MayPrecede(r, q)
          /\ \A q \in Range(todo') : MayPrecede(r, q)
    <3> SUFFICES ASSUME NEW r \in Range(results'), NEW q \in Range(buffer) \cup Range(todo')
                 PROVE  MayPrecede(r, q)
      OBVIOUS
    <3>1. r.kind = "unadapted"
      BY <2>4
    <3>2. r # q
      BY <1>b, <2>4, <2>6, <3>1
    <3> QED
      BY <3>1, <3>2, AnyPlace
  <2>8. extracted' = Range(sink) \cup Range(results') \cup Range(buffer) \cup Range(todo')
    BY <1>0, <1>b, <2>2, <2>3
  <2>9. \A r \in Range(todo') : r.kind \in {"valid", "invalid"}
    BY <2>4 DEF Records, Kinds
  <2>10. \A r \in Range(sink) \cup Range(buffer) : r \in extracted
    BY <1>b
  <2> QED
    BY <1>b, <2>3, <2>4, <2>6, <2>7, <2>8, <2>9, <2>10 DEF LineInv, Precede
<1>5. CASE Record
  <2>1. /\ Head(results) \in Records /\ Range(results) = {Head(results)} \cup Range(results')
        /\ Lined(results') /\ \A r \in Range(results') : MayPrecede(Head(results), r)
    BY <1>0, <1>5, <1>b, TailLined DEF Record
  <2>2. /\ Range(sink') = Range(sink) \cup {Head(results)}
        /\ Lined(sink')
    BY <1>0, <1>5, <1>b, <2>1, AppendLined DEF Record
  <2>3. UNCHANGED <<buffer, todo, extracted>>
    BY <1>5 DEF Record
  <2> QED
    BY <1>b, <2>1, <2>2, <2>3 DEF LineInv, Precede
<1>6. CASE IngestRecord
  <2> DEFINE due == IF FlushDue THEN buffer ELSE <<>>
             held == IF FlushDue THEN <<>> ELSE buffer
             record == Head(todo)
             grown == Append(held, record)
  <2>1. /\ record \in Records /\ Range(todo) = {record} \cup Range(todo')
        /\ Lined(todo') /\ \A r \in Range(todo') : MayPrecede(record, r)
    BY <1>0, <1>6, <1>b, TailLined DEF IngestRecord
  <2>2. /\ due \in Seq(Records) /\ held \in Seq(Records) /\ Lined(due) /\ Lined(held)
        /\ Range(buffer) = Range(due) \cup Range(held)
        /\ \A r \in Range(due), q \in Range(held) : MayPrecede(r, q)
    BY <1>0, <1>b
  <2>3. UNCHANGED <<sink, extracted>> /\ results = <<>>
    BY <1>6 DEF IngestRecord
  <2>4. CASE record.kind = "invalid"
    <3>1. results' = <<record>> \o due /\ buffer' = held
      BY <1>6, <2>4 DEF IngestRecord
    <3>2. \A r \in Range(buffer) : MayPrecede(record, r)
      <4> SUFFICES ASSUME NEW r \in Range(buffer) PROVE MayPrecede(record, r)
        OBVIOUS
      <4>1. record # r
        BY <1>b, <2>4
      <4> QED
        BY <2>4, <4>1, AnyPlace
    <3> HIDE DEF due, held, record
    <3>6. Range(results') = {record} \cup Range(due) /\ Lined(results')
      <4>1. Range(<<record>> \o due) = {record} \cup Range(due) /\ Lined(<<record>> \o due)
        BY <2>1, <2>2, <3>2, PrependLined
      <4> QED
        BY <3>1, <4>1
    <3>7. \A r \in Range(sink) : \A q \in Range(results') \cup Range(buffer') \cup Range(todo') :
            MayPrecede(r, q)
      BY <1>b, <2>1, <2>2, <3>1, <3>6
    <3>8. \A r \in Range(results') : \A q \in Range(buffer') \cup Range(todo') : MayPrecede(r, q)
      BY <1>b, <2>1, <2>2, <3>1, <3>2, <3>6
    <3>9. \A r \in Range(buffer') : r.kind = "valid" /\ \A q \in Range(todo') : MayPrecede(r, q)
      BY <1>b, <2>1, <2>2, <3>1
    <3>10. extracted' = Range(sink) \cup Range(results') \cup Range(buffer') \cup Range(todo')
      BY <1>0, <1>b, <2>1, <2>2, <2>3, <3>1, <3>6
    <3> QED
      BY <1>b, <2>1, <2>2, <2>3, <3>1, <3>6, <3>7, <3>8, <3>9, <3>10 DEF LineInv, Precede
  <2>5. CASE record.kind # "invalid"
    <3>1. \/ results' = due \o grown /\ buffer' = <<>>
          \/ results' = due \o <<>> /\ buffer' = grown
      BY <1>6, <2>5 DEF IngestRecord
    <3>2. record.kind = "valid"
      BY <1>b, <2>1, <2>5
    <3> HIDE DEF due, held, record
    <3>3. grown \in Seq(Records) /\ Range(grown) = Range(held) \cup {record} /\ Lined(grown)
      <4>1. \A r \in Range(held) : MayPrecede(r, record)
        BY <1>b, <2>1, <2>2
      <4> QED
        BY <2>1, <2>2, <4>1, AppendLined
    <3> HIDE DEF grown
    <3>4. Precede(due, grown)
      BY <1>b, <2>1, <2>2, <3>3 DEF Precede
    <3>5. /\ Range(due \o grown) = Range(due) \cup Range(grown) /\ Lined(due \o grown)
          /\ due \o <<>> = due
      BY <1>0, <2>2, <3>3, <3>4, ConcatLined, ConcatEmptySeq
    <3>6. CASE results' = due \o grown /\ buffer' = <<>>
      <4>1. /\ Range(results') = Range(due) \cup Range(held) \cup {record} /\ Lined(results')
            /\ Range(buffer') = {} /\ Lined(buffer')
        BY <3>3, <3>5, <3>6, NoneLined
      <4>2. \A r \in Range(sink) : \A q \in Range(results') \cup Range(todo') : MayPrecede(r, q)
        BY <1>b, <2>1, <2>2, <4>1
      <4>3. \A r \in Range(results') : \A q \in Range(todo') : MayPrecede(r, q)
        BY <1>b, <2>1, <2>2, <4>1
      <4>4. extracted' = Range(sink) \cup Range(results') \cup Range(buffer') \cup Range(todo')
        BY <1>0, <1>b, <2>1, <2>2, <2>3, <4>1
      <4> QED
        BY <1>b, <2>1, <2>3, <4>1, <4>2, <4>3, <4>4 DEF LineInv, Precede
    <3>7. CASE results' = due \o <<>> /\ buffer' = grown
      <4>1. /\ results' = due /\ Range(results') = Range(due)
            /\ Range(buffer') = Range(held) \cup {record}
        BY <3>3, <3>5, <3>7
      <4>2. \A r \in Range(sink) :
              \A q \in Range(results') \cup Range(buffer') \cup Range(todo') : MayPrecede(r, q)
        BY <1>b, <2>1, <2>2, <4>1
      <4>3. \A r \in Range(results') :
              \A q \in Range(buffer') \cup Range(todo') : MayPrecede(r, q)
        BY <1>b, <2>1, <2>2, <4>1
      <4>4. \A r \in Range(buffer') :
              r.kind = "valid" /\ \A q \in Range(todo') : MayPrecede(r, q)
        BY <1>b, <2>1, <2>2, <3>2, <4>1
      <4>5. extracted' = Range(sink) \cup Range(results') \cup Range(buffer') \cup Range(todo')
        BY <1>0, <1>b, <2>1, <2>2, <2>3, <4>1
      <4> QED
        BY <1>b, <2>1, <2>2, <2>3, <3>3, <3>7, <4>1, <4>2, <4>3, <4>4, <4>5
           DEF LineInv, Precede
    <3> QED
      BY <3>1, <3>6, <3>7
  <2> QED
    BY <2>4, <2>5
<1>7. CASE ApplyEnd
  <2>1. CASE FlushDue
    BY <1>7, <1>f, <2>1 DEF ApplyEnd
  <2>2. CASE ~FlushDue
    BY <1>7, <1>a, <2>2 DEF ApplyEnd
  <2> QED
    BY <2>1, <2>2
<1>8. CASE Cleanup
  BY <1>8, <1>a DEF Cleanup
<1>9. CASE QueueDrained
  BY <1>9, <1>a DEF QueueDrained
<1>10. CASE EndOfStream
  BY <1>10, <1>f DEF EndOfStream, ControlInv
<1>11. CASE CloseSession
  BY <1>11, <1>a DEF CloseSession
<1>12. CASE Raise
  BY <1>12, <1>a DEF Raise
<1>13. CASE Kill
  BY <1>13, <1>a DEF Kill
<1>14. CASE Restart
  <2>1. /\ sink' = sink /\ extracted' = Range(sink)
        /\ results' = <<>> /\ buffer' = <<>> /\ todo' = <<>>
    BY <1>14 DEF Restart
  <2> QED
    BY <1>0, <1>b, <2>1 DEF LineInv, Precede
<1>15. CASE Tick
  BY <1>15, <1>a DEF Tick
<1>16. CASE UNCHANGED vars
  BY <1>16, <1>a DEF vars
<1> QED
  BY <1>1, <1>2, <1>3, <1>4, <1>5, <1>6, <1>7, <1>8, <1>9, <1>10, <1>11, <1>12, <1>13,
     <1>14, <1>15, <1>16 DEF Next, DaemonStep
-----------------------------------------------------------------------------
(* The invariants of the runs.                                             *)

LEMMA SessionStep == TypeOK /\ SessionInv /\ [Next]_vars => SessionInv'
  BY NamesNext, ControlNext, FrontNext, LineNext DEF SessionInv

\* The order of the names the daemon holds, and of the records between bridge and
\* sink, is an invariant of every session and survives restarts.
THEOREM SessionSound == Spec => []SessionInv
<1>1. Init => SessionInv
  BY NamesInit, LineInit DEF SessionInv
<1> QED
  BY <1>1, SensorTyped, SessionStep, PTL DEF Spec

\* The capture manager's pending windows are the daemon's, and none of them is
\* the file dumpcap writes.
THEOREM ClosedWindowsOnly == Spec => []WindowsAreClosed
<1>1. ASSUME TypeOK, SessionInv PROVE WindowsAreClosed
  <2>1. pending = (IF hand = 0 THEN <<>> ELSE <<hand>>) \o queue
    BY <1>1 DEF SessionInv, NamesInv
  <2>2. ASSUME NEW k \in DOMAIN pending
        PROVE  pending[k] < opened
    <3>0. /\ Len(queue) \in Nat /\ DOMAIN queue = 1..Len(queue) /\ queue \in Seq(Windows)
          /\ Len(printed) \in Nat /\ opened \in Nat /\ active \in Nat
          /\ active # 0 => active <= opened
          /\ \A i \in DOMAIN queue : queue[i] \in Nat /\ queue[i] < active
          /\ hand # 0 => hand \in Windows /\ hand \in Nat /\ hand < active
      <4>1. /\ queue \in Seq(Windows) /\ printed \in Seq(Windows) /\ opened \in Nat
            /\ active \in Nat /\ hand \in Windows \cup {0} /\ Windows \subseteq Nat
        BY <1>1 DEF TypeOK, Windows
      <4>2. /\ Len(queue) \in Nat /\ DOMAIN queue = 1..Len(queue) /\ Len(printed) \in Nat
            /\ \A i \in DOMAIN queue : queue[i] \in Nat
        BY <4>1, LenProperties, ElementOfSeq
      <4>3. active # 0 => active <= opened
        BY <1>1, <4>1, <4>2 DEF SessionInv, NamesInv
      <4> QED
        BY <1>1, <4>1, <4>2, <4>3 DEF SessionInv, NamesInv
    <3>1. CASE hand = 0
      <4>1. pending = queue
        BY <2>1, <3>0, <3>1, ConcatEmptySeq
      <4> QED
        BY <2>2, <3>0, <4>1
    <3>2. CASE hand # 0
      <4>1. /\ <<hand>> \in Seq(Windows) /\ Len(<<hand>>) = 1 /\ <<hand>>[1] = hand
        BY <3>0, <3>2
      <4>2. /\ DOMAIN pending = 1..(1 + Len(queue))
            /\ \A i \in 1..(1 + Len(queue)) :
                 pending[i] = IF i <= 1 THEN <<hand>>[i] ELSE queue[i - 1]
        BY <2>1, <3>0, <3>2, <4>1, ConcatProperties, LenProperties
      <4>3. CASE k = 1
        BY <3>0, <3>2, <4>1, <4>2, <4>3
      <4>4. CASE k # 1
        <5>1. k - 1 \in DOMAIN queue /\ pending[k] = queue[k - 1]
          BY <2>2, <3>0, <4>2, <4>4
        <5> QED
          BY <3>0, <5>1
      <4> QED
        BY <4>3, <4>4
    <3> QED
      BY <3>1, <3>2
  <2> QED
    BY <2>1, <2>2 DEF WindowsAreClosed
<1> QED
  BY <1>1, SensorTyped, SessionSound, PTL

\* Every record the bridge delivered is in the line once, valid ones in capture
\* order, and a session that ends has handed on all of them.
THEOREM EveryRecordAccounted == Spec => []RecordsAccounted
<1>1. ASSUME TypeOK, SessionInv PROVE RecordsAccounted
  <2> DEFINE line == sink \o results \o buffer \o todo
  <2>0. /\ todo \in Seq(Records) /\ buffer \in Seq(Records)
        /\ results \in Seq(Records) /\ sink \in Seq(Records) /\ LineInv /\ ControlInv
    BY <1>1 DEF TypeOK, SessionInv
  <2> DEFINE two == sink \o results
             three == two \o buffer
  <2>1. /\ two \in Seq(Records) /\ Range(two) = Range(sink) \cup Range(results)
        /\ Lined(two)
    BY <2>0, ConcatLined DEF LineInv
  <2> HIDE DEF two
  <2>2. /\ three \in Seq(Records) /\ Range(three) = Range(two) \cup Range(buffer)
        /\ Lined(three)
    <3>1. Precede(two, buffer) /\ Lined(buffer)
      BY <2>0, <2>1 DEF LineInv, Precede
    <3> QED
      BY <2>0, <2>1, <3>1, ConcatLined
  <2> HIDE DEF three
  <2>3. /\ Range(line)
             = Range(sink) \cup Range(results) \cup Range(buffer) \cup Range(todo)
        /\ Lined(line)
    <3>1. Precede(three, todo) /\ Lined(todo)
      BY <2>0, <2>1, <2>2 DEF LineInv, Precede
    <3>2. Range(three \o todo) = Range(three) \cup Range(todo) /\ Lined(three \o todo)
      BY <2>0, <2>2, <3>1, ConcatLined
    <3>3. line = three \o todo
      BY DEF two, three
    <3> QED
      BY <2>1, <2>2, <3>2, <3>3
  <2> HIDE DEF line
  <2>4. Range(line) = extracted
    BY <2>0, <2>3 DEF LineInv
  <2>5. \A i, j \in DOMAIN line : i < j =>
          /\ line[i] # line[j]
          /\ line[i].kind = "valid" /\ line[j].kind = "valid" => Before(line[i], line[j])
    BY <2>3 DEF Lined, MayPrecede
  <2>6. \A k \in DOMAIN buffer : buffer[k].kind = "valid"
    BY <2>0 DEF LineInv, Range
  <2>7. pc \in {"closing", "closed"} => buffer = <<>> /\ todo = <<>> /\ queue = <<>>
    BY <2>0 DEF ControlInv
  <2> QED
    BY <2>4, <2>5, <2>6, <2>7 DEF RecordsAccounted, line
<1> QED
  BY <1>1, SensorTyped, SessionSound, PTL
=============================================================================
