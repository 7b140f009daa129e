------------------------------ MODULE FlowWindow ------------------------------
(***************************************************************************)
(* One closed capture window on its way to the scorer: the extractor         *)
(* (runtime/extractor) reads the capture packet by packet, groups the        *)
(* packets into flows and writes one CSV row for each; the bridge            *)
(* (runtime/live_flow_bridge.py) runs it as a process of its own, reads the  *)
(* rows back and hands them to the adapter.                                 *)
(*                                                                         *)
(* A packet is reduced to its endpoints, its protocol (0 for a frame that   *)
(* _decode_frame gives up on) and its timestamp in seconds; a packet within  *)
(* a flow is its place in the capture.  Rows enter the state of AdapterRun   *)
(* as the lines of its stream.                                              *)
(***************************************************************************)
EXTENDS AdapterRun, Integers, SequencesExt

CONSTANT Captures   \* BOUND: the captures tried

ASSUME CapturesAssumption ==
    Captures \subseteq Seq([src : Nat, dst : Nat, proto : Nat, time : Int])

VARIABLES
    setup,    \* the capture, whether its tail is torn, the extractor's profile,
              \* and whether the bridge looks for the file the extractor writes
              \* and its own profile is registered
    read,     \* packets read
    flows,    \* in the order of their first packets: [src, dst, proto, packets]
    written,  \* rows in the CSV file
    epc,      \* the extractor: "reading", "writing", "exited", "failed" or "idle"
    werror    \* the bridge reported a window error

windowVars == <<setup, read, flows, written, epc, werror>>

Packet(n) == setup.packets[n]
Times(f) == [k \in DOMAIN f.packets |-> Packet(f.packets[k]).time]
First(f) == CHOOSE t \in ToSet(Times(f)) : \A u \in ToSet(Times(f)) : t <= u
Latest(f) == CHOOSE t \in ToSet(Times(f)) : \A u \in ToSet(Times(f)) : t >= u

NoSetup == [packets |-> <<>>, torn |-> FALSE, profile |-> profile, suffix |-> TRUE,
            known |-> TRUE]

WindowInit ==
    /\ IF mode = "bridge"
       THEN setup \in [packets : Captures, torn : BOOLEAN, profile : Profiles, suffix : BOOLEAN,
                       known : BOOLEAN]
       ELSE setup = NoSetup
    /\ read = 0 /\ flows = <<>> /\ written = 0 /\ werror = FALSE
    /\ epc = IF mode = "bridge" THEN "reading" ELSE "idle"

-----------------------------------------------------------------------------
(* The extractor.                                                          *)

\* The flow of a packet among fs: its own five-tuple, else the reverse; 0 for none.
Place(fs, p) ==
    LET With(src, dst) == {k \in DOMAIN fs : fs[k].src = src /\ fs[k].dst = dst
                                             /\ fs[k].proto = p.proto}
        forward == With(p.src, p.dst)
        found == IF forward # {} THEN forward ELSE With(p.dst, p.src)
    IN  IF found = {} THEN 0 ELSE CHOOSE k \in found : TRUE

\* The flows after the n-th packet.
Grown(fs, n) ==
    LET p == Packet(n)
        k == Place(fs, p)
    IN  IF k = 0
        THEN Append(fs, [src |-> p.src, dst |-> p.dst, proto |-> p.proto, packets |-> <<n>>])
        ELSE [fs EXCEPT ![k].packets = Append(@, n)]

\* The direction of a packet in its flow.
Forward(f, n) == Packet(n).src = f.src /\ Packet(n).dst = f.dst

ReadPacket ==
    /\ epc = "reading" /\ read < Len(setup.packets)
    /\ read' = read + 1
    /\ flows' = IF Packet(read + 1).proto = 0 THEN flows ELSE Grown(flows, read + 1)
    /\ UNCHANGED <<adapterVars, setup, written, epc, werror>>

\* A torn record header or payload raises; otherwise the flows are written.
EndOfCapture ==
    /\ epc = "reading" /\ read = Len(setup.packets)
    /\ epc' = IF setup.torn THEN "failed" ELSE "writing"
    /\ UNCHANGED <<adapterVars, setup, read, flows, written, werror>>

\* What a flow has a number for: every feature, also with one packet or with none
\* backward.  Its metadata is text.
Measured(p) == DOMAIN p.features

\* The columns of the file are the profile's source keys, whatever the flow; its
\* own values fill the features, the rest is text or blank.
Row(p) ==
    LET keys == SetToSeq(Accepted(p))
    IN  [form |-> "record", long |-> FALSE,
         record |-> [k \in DOMAIN keys |-> Field(keys[k], keys[k] \in Measured(p))]]

WriteRow ==
    /\ epc = "writing" /\ written < Len(flows) /\ written' = written + 1
    /\ UNCHANGED <<adapterVars, setup, read, flows, epc, werror>>

Exit ==
    /\ epc = "writing" /\ written = Len(flows) /\ epc' = "exited"
    /\ UNCHANGED <<adapterVars, setup, read, flows, written, werror>>

\* The process is killed, or raises.
ExtractorDies ==
    /\ epc \in {"reading", "writing"} /\ faults < MaxFaults
    /\ faults' = faults + 1 /\ epc' = "failed"
    /\ UNCHANGED <<profile, mode, raw, streamVars, had, sinkVars, todo, noted, moved, apc, excused,
                   setup, read, flows, written, werror>>

-----------------------------------------------------------------------------
(* The bridge.                                                             *)

\* The rows of a window have the same keys: all are adapted or all refused.
AdaptRows(count) ==
    LET row == Row(setup.profile)
        good == Adapt(profile, row.record).verdict = "valid"
        ns == [n \in 1..count |-> n]
        output == [n \in 1..count |-> [line |-> n, record |-> AdapterInput(profile, row.record)]]
    IN  /\ raw' = [n \in 1..count |-> row] /\ taken' = count
        /\ adapted' = IF good THEN output ELSE <<>>
        /\ refused' = IF good THEN <<>> ELSE ns

Bridging(usable) ==
    /\ apc = "bridging" /\ epc \in {"exited", "failed"} /\ apc' = "done"
    /\ AdaptRows(IF usable /\ setup.known THEN written ELSE 0)
    /\ werror' = (~usable \/ (~setup.known /\ written > 0))
    /\ UNCHANGED <<profile, mode, had, sinkVars, todo, noted, moved, faults, excused,
                   setup, read, flows, written, epc>>

\* SLIP: whatever file there is, is read.
BridgeWindow_AnyFile == Bridging(setup.suffix /\ (epc = "exited" \/ written > 0))

\* bridge_window once the extractor has ended: a status other than 0, or no file
\* where it is looked for, is a window error; else every row is adapted, or
\* refused; an unregistered profile ends it at the first row.
BridgeWindow == Bridging(epc = "exited" /\ setup.suffix)

WindowNext == ReadPacket \/ EndOfCapture \/ WriteRow \/ Exit \/ ExtractorDies \/ BridgeWindow

-----------------------------------------------------------------------------
(* The time of a flow.                                                     *)

\* max(0.0, _)
AtLeastZero(x) == IF x > 0 THEN x ELSE 0

Duration(f) == AtLeastZero(Latest(f) - First(f))

\* sorted
Ordered(times) ==
    LET o == CHOOSE o \in SetToSeqs(DOMAIN times) :
                 \A i, j \in DOMAIN o : i < j => times[o[i]] <= times[o[j]]
    IN  [k \in DOMAIN o |-> times[o[k]]]

\* _intervals
Intervals(times) ==
    LET o == Ordered(times) IN [k \in 1..Len(o) - 1 |-> AtLeastZero(o[k + 1] - o[k])]

Gap == 1   \* ACTIVE_GAP_THRESHOLD_SECONDS

\* _split_active_idle_periods: the cluster that is open, and those before it.
Periods(times) ==
    LET o == Ordered(times)
        Upto[n \in 1..Len(o)] ==
            IF n = 1 THEN [start |-> o[1], active |-> <<>>, idle |-> <<>>]
            ELSE LET so == Upto[n - 1]
                     gap == o[n] - o[n - 1]
                 IN  IF gap > Gap
                     THEN [start  |-> o[n],
                           active |-> Append(so.active, AtLeastZero(o[n - 1] - so.start)),
                           idle   |-> Append(so.idle, AtLeastZero(gap))]
                     ELSE so
        end == Upto[Len(o)]
    IN  [active |-> Append(end.active, AtLeastZero(o[Len(o)] - end.start)), idle |-> end.idle]

Total(ns) ==
    LET Sum[n \in 0..Len(ns)] == IF n = 0 THEN 0 ELSE Sum[n - 1] + ns[n] IN Sum[Len(ns)]

-----------------------------------------------------------------------------
\* A flow is a conversation: of the packets read so far, the ones that could be
\* decoded are each in one flow, two of them in the same one exactly when they
\* share protocol and endpoints in either direction; and forward is the side that
\* the capture holds first, whatever the timestamps say.
FlowsAreConversations ==
    LET In(f) == ToSet(f.packets)
        Kept == {n \in 1..read : Packet(n).proto # 0}
        Talk(n) == <<{Packet(n).src, Packet(n).dst}, Packet(n).proto>>
    IN  /\ UNION {In(flows[k]) : k \in DOMAIN flows} = Kept
        /\ \A k \in DOMAIN flows : Forward(flows[k], Head(flows[k].packets))
                                   /\ IsInjective(flows[k].packets)
        /\ \A m, n \in Kept :
             (\E k \in DOMAIN flows : {m, n} \subseteq In(flows[k])) <=> Talk(m) = Talk(n)
        /\ \A k \in DOMAIN flows : \A n \in In(flows[k]) :
             Forward(flows[k], n) <=> Packet(n).src = Packet(Head(flows[k].packets)).src
                                      /\ Packet(n).dst = Packet(Head(flows[k].packets)).dst

\* The time of a flow is split without a gap or an overlap, also when the capture
\* is out of order: the intervals between its packets, and its active and idle
\* periods together, make up its duration.
TimeIsSplit ==
    \A k \in DOMAIN flows :
        LET times == Times(flows[k])
            duration == Duration(flows[k])
            periods == Periods(times)
        IN  /\ Total(Intervals(times)) = duration
            /\ Total(periods.active) + Total(periods.idle) = duration
            /\ \A j \in DOMAIN periods.idle : periods.idle[j] > Gap

\* All of the window is scored or nothing: every flow of the capture becomes
\* an adapted record when the extractor succeeded and speaks the bridge's
\* profile; when it speaks another one every flow is refused; and when it died or
\* its file is not where the bridge looks, no record leaves the window, not even
\* the rows that were written, and the error is reported.
AllOrNothing ==
    mode = "bridge" /\ apc = "done" =>
        LET Conversations ==
                {<<{p.src, p.dst}, p.proto>> : p \in {q \in ToSet(setup.packets) : q.proto # 0}}
        IN  \/ werror /\ adapted = <<>> /\ refused = <<>>
            \/ /\ ~werror /\ epc = "exited" /\ ~setup.torn
               /\ {Len(adapted), Len(refused)} = {0, Cardinality(Conversations)}
               /\ setup.profile = profile => refused = <<>>

\* What reaches the scorer is the whole window: the capture's conversations, each
\* one flow, their time split without a gap, and all of them or an error.
WindowIsWhole == FlowsAreConversations /\ TimeIsSplit /\ AllOrNothing
=============================================================================
