---------------------- MODULE NotificationDeliveryProofs ----------------------
(***************************************************************************)
(* Theorems about NotificationDelivery, for every value of its constants.  *)
(***************************************************************************)
EXTENDS NotificationDelivery, FiniteSetTheorems, TLAPS

\* The keys of the table are finitely many, so ids and batches are counts.
LEMMA KeysFinite == IsFiniteSet(Keys)
<1>1. IsFiniteSet({"incident"}) /\ IsFiniteSet({"flow"})
  BY FS_Singleton
<1>2. IsFiniteSet({"incident"} \X Groups) /\ IsFiniteSet({"flow"} \X Flows)
  BY <1>1, FS_Product, DeliveryAssumption DEF DeliveryAssumption
<1> QED
  BY <1>2, FS_Union DEF Keys

LEMMA StoredCount == IsFiniteSet(Stored) /\ Cardinality(Stored) \in Nat
  BY KeysFinite, FS_Subset, FS_CardinalityType DEF Stored

LEMMA AlertsCount == ASSUME alerts \subseteq Alerts
                     PROVE  IsFiniteSet(alerts) /\ Cardinality(alerts) \in Nat
<1>1. IsFiniteSet(Alerts)
  BY FS_Interval, DeliveryAssumption DEF Alerts, DeliveryAssumption
<1> QED
  BY <1>1, FS_Subset, FS_CardinalityType

\* A power of two is a natural number: it counts the subsets of 1..n.
LEMMA PowerType == ASSUME NEW n \in Nat PROVE 2^n \in Nat
<1>1. IsFiniteSet(1..n) /\ Cardinality(1..n) = n
  BY FS_Interval
<1>2. IsFiniteSet(SUBSET (1..n)) /\ Cardinality(SUBSET (1..n)) = 2^n
  BY <1>1, FS_SUBSET
<1> QED
  BY <1>2, FS_CardinalityType

-----------------------------------------------------------------------------
(* Type correctness.                                                       *)

LEMMA DelayType == ASSUME NEW attempt \in Nat \ {0}, NEW after \in Nat
                   PROVE  Delay(attempt, after) \in Nat
<1>1. 2^(attempt - 1) \in Nat
  BY PowerType
<1>2. BaseBackoff * 2^(attempt - 1) \in Nat
  BY <1>1, DeliveryAssumption DEF DeliveryAssumption
<1> QED
  BY <1>2, DeliveryAssumption DEF Delay, Lesser, DeliveryAssumption

LEMMA NoRowType == NoRow \in Rows
  BY DEF NoRow, Rows, Statuses

LEMMA SenderRepliesType == SenderReplies \subseteq Replies
<1>1. RetryAfters \subseteq Nat
  BY DeliveryAssumption DEF DeliveryAssumption
<1>2. [kind : {"retryable"}, after : {0}, landed : BOOLEAN] \subseteq Replies
  BY DEF Replies
<1>3. [kind : {"retryable"}, after : RetryAfters, landed : {FALSE}] \subseteq Replies
  BY <1>1 DEF Replies
<1>4. /\ [kind |-> "ok", after |-> 0, landed |-> TRUE] \in Replies
      /\ [kind |-> "rejected", after |-> 0, landed |-> FALSE] \in Replies
  BY DEF Replies
<1> QED
  BY <1>2, <1>3, <1>4 DEF SenderReplies

LEMMA UpsertType == ASSUME TypeOK, NEW k \in Keys, NEW text \in SUBSET Alerts
                    PROVE  Upsert(k, text) \in [Keys -> Rows]
<1>1. deliveries[k] \in Rows /\ deliveries \in [Keys -> Rows]
  BY DEF TypeOK
<1>2. [deliveries[k] EXCEPT !.text = text] \in Rows
  BY <1>1 DEF Rows
<1> DEFINE id == Cardinality(Stored) + 1
<1>3. id \in Nat
  BY StoredCount
<1>4. [NoRow EXCEPT !.status = "pending", !.id = id, !.text = text] \in Rows
  <2> HIDE DEF id
  <2> QED
    BY <1>3, NoRowType DEF Rows, Statuses
<1> QED
  BY <1>1, <1>2, <1>4 DEF Upsert

LEMMA PendingBatchType == ASSUME TypeOK PROVE PendingBatch \subseteq Entries
<1>1. \A k \in Keys : [key |-> k, id |-> deliveries[k].id,
                       attempts |-> deliveries[k].attempts,
                       text |-> deliveries[k].text] \in Entries
  BY DEF TypeOK, Entries, Rows
<1>2. Due \subseteq Keys
  BY DEF Due
<1> QED
  BY <1>1, <1>2 DEF PendingBatch

\* A batch holds copies of due rows.
LEMMA PendingBatchRows ==
    \A e \in PendingBatch :
        e.key \in Due /\ e = [key |-> e.key, id |-> deliveries[e.key].id,
                              attempts |-> deliveries[e.key].attempts,
                              text |-> deliveries[e.key].text]
<1> DEFINE entry(k) == [key |-> k, id |-> deliveries[k].id,
                        attempts |-> deliveries[k].attempts, text |-> deliveries[k].text]
<1>1. \A e \in PendingBatch : \E k \in Due : e = entry(k)
  BY DEF PendingBatch
<1>2. \A k : entry(k).key = k
  OBVIOUS
<1>3. \A e \in PendingBatch : e.key \in Due /\ e = entry(e.key)
  <2> HIDE DEF entry
  <2> QED
    BY <1>1, <1>2
<1> QED
  BY <1>3

LEMMA MarkedRowType == ASSUME TypeOK, NEW entry \in Entries, NEW r \in Replies
                       PROVE  MarkedRow(entry, r) \in Rows
<1>1. deliveries[entry.key] \in Rows
  BY DEF TypeOK, Entries
<1>2. entry.attempts + 1 \in Nat \ {0} /\ r.after \in Nat
  BY DEF Entries, Replies
<1>3. Delay(entry.attempts + 1, r.after) \in Nat
  BY <1>2, DelayType
<1> DEFINE again == r.kind = "retryable" /\ entry.attempts + 1 < MaxAttempts
           status == IF r.kind = "ok" THEN "sent" ELSE IF again THEN "retry" ELSE "failed"
           wait == IF again THEN Delay(entry.attempts + 1, r.after) ELSE 0
<1>4. status \in Statuses /\ wait \in Nat
  BY <1>3 DEF Statuses
<1>5. (deliveries[entry.key].messageId \/ r.kind = "ok") \in BOOLEAN
  BY <1>1 DEF Rows
<1>6. deliveries[entry.key].attempts + 1 \in Nat
  BY <1>1 DEF Rows
<1>7. MarkedRow(entry, r) =
        [deliveries[entry.key] EXCEPT
            !.status = status, !.attempts = deliveries[entry.key].attempts + 1,
            !.wait = wait, !.messageId = deliveries[entry.key].messageId \/ r.kind = "ok"]
  BY DEF MarkedRow
<1> HIDE DEF again, status, wait
<1> QED
  BY <1>1, <1>4, <1>5, <1>6, <1>7 DEF Rows

LEMMA IncidentsType == ASSUME TypeOK
                       PROVE  /\ NotifiableIncidents \subseteq SUBSET Alerts
                              /\ {} \notin NotifiableIncidents
<1>1. Listable \subseteq Alerts
  BY DEF TypeOK, Listable, AlertWindow
<1>2. Incidents \subseteq SUBSET Alerts /\ {} \notin Incidents
  BY <1>1 DEF Incidents
<1> QED
  BY <1>2 DEF NotifiableIncidents

LEMMA TypeInit == Init => TypeOK
<1> SUFFICES ASSUME Init PROVE TypeOK
  OBVIOUS
<1>1. deliveries \in [Keys -> Rows]
  BY NoRowType DEF Init
<1>2. reply \in [Dispatchers -> Replies]
  BY DEF Init, NoReply, Replies
<1> QED
  BY <1>1, <1>2 DEF Init, TypeOK

LEMMA TypeStep == TypeOK /\ [Next]_vars => TypeOK'
<1> SUFFICES ASSUME TypeOK, [Next]_vars PROVE TypeOK'
  OBVIOUS
<1> USE DEF TypeOK, consoleVars, localVars, historyVars
<1>1. ASSUME StoreAlert PROVE TypeOK'
  <2>1. Cardinality(alerts) \in Nat
    BY AlertsCount
  <2>2. Cardinality(alerts) + 1 \in Alerts
    BY <1>1, <2>1, DeliveryAssumption DEF StoreAlert, Alerts, DeliveryAssumption
  <2> QED
    BY <1>1, <2>2 DEF StoreAlert
<1>2. ASSUME NEW a \in Alerts, Triage(a) PROVE TypeOK'
  BY <1>2 DEF Triage
<1>3. ASSUME NEW rule \in Rules, ToggleRule(rule) PROVE TypeOK'
  BY <1>3 DEF ToggleRule
<1>4. ASSUME NEW d \in Dispatchers, ListIncidents(d) PROVE TypeOK'
  BY <1>4, IncidentsType DEF ListIncidents
<1>5. ASSUME NEW d \in Dispatchers, QueueIncident(d) PROVE TypeOK'
  <2>1. PICK i \in todo[d] : /\ \A j \in todo[d] : Latest(j) <= Latest(i)
                             /\ deliveries' = Upsert(DedupeKey(i), i)
                             /\ todo' = [todo EXCEPT ![d] = @ \ {i}]
    BY <1>5 DEF QueueIncident
  <2>2. CASE DedupeKey(i) \in Keys
    <3>1. deliveries' \in [Keys -> Rows]
      BY <2>1, <2>2, UpsertType
    <3> QED
      BY <1>5, <2>1, <3>1 DEF QueueIncident
  <2>3. CASE DedupeKey(i) \notin Keys
    <3>1. deliveries' = deliveries
      BY <2>1, <2>3 DEF Upsert
    <3> QED
      BY <1>5, <2>1, <3>1 DEF QueueIncident
  <2> QED
    BY <2>2, <2>3
<1>6. ASSUME NEW d \in Dispatchers, ListPending(d) PROVE TypeOK'
  BY <1>6, PendingBatchType DEF ListPending
<1>7. ASSUME NEW d \in Dispatchers, Send(d) PROVE TypeOK'
  <2>1. PICK entry \in batch[d], r \in SenderReplies :
           /\ reply' = [reply EXCEPT ![d] = r]
           /\ accepted' = IF r.landed THEN [accepted EXCEPT ![entry.key] = @ + 1]
                                      ELSE accepted
           /\ told' = IF r.landed THEN told \cup entry.text ELSE told
    BY <1>7 DEF Send
  <2>2. r \in Replies /\ entry \in Entries
    BY SenderRepliesType
  <2>3. reply' \in [Dispatchers -> Replies]
    BY <2>1, <2>2
  <2>4. entry.key \in Keys /\ entry.text \subseteq Alerts
    BY <2>2 DEF Entries
  <2>5. accepted' \in [Keys -> Nat] /\ told' \subseteq Alerts
    BY <2>1, <2>4
  <2> QED
    BY <1>7, <2>3, <2>5 DEF Send
<1>8. ASSUME NEW d \in Dispatchers, Mark(d) PROVE TypeOK'
  <2>1. PICK entry \in batch[d] :
           /\ deliveries' = [deliveries EXCEPT ![entry.key] = MarkedRow(entry, reply[d])]
           /\ batch' = [batch EXCEPT ![d] = @ \ {entry}]
           /\ blind' = IF reply[d].landed /\ reply[d].kind # "ok"
                       THEN [blind EXCEPT ![entry.key] = @ + 1] ELSE blind
    BY <1>8 DEF Mark
  <2>2. entry \in Entries /\ reply[d] \in Replies
    OBVIOUS
  <2>3. deliveries' \in [Keys -> Rows]
    BY <2>1, <2>2, MarkedRowType
  <2>4. blind' \in [Keys -> Nat]
    <3>1. entry.key \in Keys /\ blind[entry.key] + 1 \in Nat
      BY <2>2 DEF Entries
    <3> QED
      BY <2>1, <3>1
  <2>5. reply' \in [Dispatchers -> Replies]
    BY <1>8 DEF Mark, NoReply, Replies
  <2> QED
    BY <1>8, <2>1, <2>3, <2>4, <2>5 DEF Mark
<1>9. ASSUME NEW d \in Dispatchers, FinishCycle(d) PROVE TypeOK'
  BY <1>9 DEF FinishCycle
<1>10. ASSUME NEW d \in Dispatchers, Crash(d) PROVE TypeOK'
  <2>1. blind' \in [Keys -> Nat]
    <3>1. CASE reply[d].landed
      <4>1. PICK entry \in batch[d] : blind' = [blind EXCEPT ![entry.key] = @ + 1]
        BY <1>10, <3>1 DEF Crash
      <4>2. entry.key \in Keys /\ blind[entry.key] + 1 \in Nat
        BY DEF Entries
      <4> QED
        BY <4>1, <4>2
    <3>2. CASE ~reply[d].landed
      BY <1>10, <3>2 DEF Crash
    <3> QED
      BY <3>1, <3>2
  <2>2. reply' \in [Dispatchers -> Replies]
    BY <1>10 DEF Crash, NoReply, Replies
  <2> QED
    BY <1>10, <2>1, <2>2 DEF Crash
<1>11. ASSUME NEW o \in Redrivers, RedriveSelect(o) PROVE TypeOK'
  BY <1>11 DEF RedriveSelect, Failed
<1>12. ASSUME NEW o \in Redrivers, RedriveApply(o) PROVE TypeOK'
  <2>1. ASSUME NEW k \in Keys PROVE RedrivenRow(k) \in Rows
    <3>1. deliveries[k] \in Rows
      OBVIOUS
    <3> QED
      BY <3>1 DEF RedrivenRow, Rows, Statuses
  <2>2. deliveries' \in [Keys -> Rows]
    BY <1>12, <2>1 DEF RedriveApply
  <2> QED
    BY <1>12, <2>2 DEF RedriveApply
<1>13. ASSUME Tick PROVE TypeOK'
  <2>1. \A k \in Keys : deliveries[k].wait > 0
                           => [deliveries[k] EXCEPT !.wait = @ - 1] \in Rows
    BY DEF Rows
  <2>2. deliveries' \in [Keys -> Rows]
    BY <1>13, <2>1 DEF Tick
  <2> QED
    BY <1>13, <2>2 DEF Tick
<1>14. ASSUME UNCHANGED vars PROVE TypeOK'
  BY <1>14 DEF vars
<1> QED
  BY <1>1, <1>2, <1>3, <1>4, <1>5, <1>6, <1>7, <1>8, <1>9, <1>10, <1>11, <1>12, <1>13,
     <1>14 DEF Next, CycleStep

\* Every row, batch entry and sender's answer keeps its shape in every
\* behaviour, with any number of dispatchers and redrives.
THEOREM TypeCorrect == Spec => []TypeOK
  BY TypeInit, TypeStep, PTL DEF Spec

-----------------------------------------------------------------------------
(* QueueInv, for any number of dispatchers and redrives.  Each action's    *)
(* effect on the table is first reduced to what RowIds and HeldRows say.  *)

\* A step that keeps ids and stored rows keeps the numbering.
LEMMA SameIds ==
    ASSUME TypeOK, RowIds, TypeOK',
           \A k \in Keys : /\ deliveries'[k].id = deliveries[k].id
                           /\ deliveries'[k].status = "absent"
                                <=> deliveries[k].status = "absent"
    PROVE  RowIds' /\ Stored' = Stored
<1>1. Stored' = Stored
  BY DEF Stored
<1> QED
  BY <1>1 DEF RowIds, Stored

\* The delivery in hand is one delivery.
LEMMA InHandUnique ==
    ASSUME TypeOK, RowIds, HeldRows, NEW d \in Dispatchers,
           NEW e \in batch[d], NEW f \in batch[d], InHand(d, e), InHand(d, f)
    PROVE  e = f
<1>1. e \in Entries /\ f \in Entries
  BY DEF TypeOK
<1>2. e.id = f.id
  BY <1>1 DEF InHand, Entries
<1>3. e.key = f.key
  BY <1>2 DEF HeldRows, RowIds
<1> QED
  BY <1>3 DEF HeldRows

LEMMA UpsertIds ==
    ASSUME TypeOK, RowIds, NEW k \in Keys, NEW text, deliveries' = Upsert(k, text)
    PROVE  /\ RowIds'
           /\ Stored' = Stored \cup {k}
           /\ \A j \in Stored : /\ deliveries'[j].id = deliveries[j].id
                                /\ deliveries'[j].status = deliveries[j].status
           /\ \A j \in Keys : deliveries'[j].status = "sent" \/ deliveries'[j].messageId
                                => /\ deliveries'[j].status = deliveries[j].status
                                   /\ deliveries'[j].messageId = deliveries[j].messageId
<1>1. deliveries \in [Keys -> Rows] /\ deliveries[k] \in Rows
  BY DEF TypeOK
<1>2. CASE deliveries[k].status # "absent"
  <2>1. deliveries' = [deliveries EXCEPT ![k].text = text]
    BY <1>2 DEF Upsert
  <2>2. \A j \in Keys : /\ deliveries'[j].id = deliveries[j].id
                        /\ deliveries'[j].status = deliveries[j].status
                        /\ deliveries'[j].messageId = deliveries[j].messageId
    BY <1>1, <2>1 DEF Rows
  <2>3. Stored' = Stored /\ k \in Stored
    BY <1>2, <2>2 DEF Stored
  <2> QED
    BY <2>2, <2>3 DEF RowIds, Stored
<1>3. CASE deliveries[k].status = "absent"
  <2> DEFINE n == Cardinality(Stored)
  <2>1. n \in Nat /\ IsFiniteSet(Stored)
    BY StoredCount
  <2>2. deliveries' = [deliveries EXCEPT ![k] =
            [NoRow EXCEPT !.status = "pending", !.id = n + 1, !.text = text]]
    BY <1>3 DEF Upsert
  <2>3. /\ deliveries'[k].status = "pending" /\ deliveries'[k].id = n + 1
        /\ ~deliveries'[k].messageId
    BY <1>1, <2>2 DEF NoRow
  <2>4. \A j \in Keys : j # k => deliveries'[j] = deliveries[j]
    BY <1>1, <2>2
  <2>5. Stored' = Stored \cup {k} /\ k \notin Stored
    BY <1>3, <2>3, <2>4 DEF Stored
  <2>6. Cardinality(Stored') = n + 1
    BY <2>1, <2>5, FS_AddElement
  <2>7. \A j \in Stored : j \in Keys /\ deliveries[j].id \in Nat
    BY <1>1 DEF Stored, Rows
  <2> HIDE DEF n
  <2>8. n = Cardinality(Stored)
    BY DEF n
  <2>9. \A j \in Stored : deliveries'[j] = deliveries[j] /\ deliveries[j].id <= n
    BY <2>4, <2>5, <2>7, <2>8 DEF RowIds
  <2>10. ASSUME NEW j \in Stored' PROVE deliveries'[j].id <= Cardinality(Stored')
    BY <2>1, <2>3, <2>5, <2>6, <2>7, <2>9
  <2>11. ASSUME NEW i \in Stored', NEW j \in Stored', deliveries'[i].id = deliveries'[j].id
         PROVE  i = j
    <3>1. CASE i \in Stored /\ j \in Stored
      BY <2>9, <2>11, <3>1 DEF RowIds
    <3>2. CASE i = k \/ j = k
      BY <2>1, <2>3, <2>5, <2>7, <2>9, <2>11, <3>2
    <3> QED
      BY <2>5, <3>1, <3>2
  <2>12. RowIds'
    BY <2>10, <2>11 DEF RowIds
  <2> QED
    BY <2>3, <2>4, <2>5, <2>9, <2>12
<1> QED
  BY <1>2, <1>3

LEMMA QueueInvInit == Init => QueueInv
<1> SUFFICES ASSUME Init PROVE QueueInv
  OBVIOUS
<1>1. Stored = {}
  BY DEF Init, Stored, NoRow
<1>2. RowIds
  BY <1>1 DEF RowIds
<1> QED
  BY <1>2 DEF Init, QueueInv, HeldRows, CycleShape, LandedWasAccepted, SentWasAccepted, NoRow

\* Steps that leave rows' ids and status of existence alone keep HeldRows as
\* long as no batch and no selection gains anything.
LEMMA HeldRowsFrame ==
    ASSUME HeldRows, Stored \subseteq Stored',
           \A j \in Stored : deliveries'[j].id = deliveries[j].id,
           \A d \in Dispatchers : batch'[d] \subseteq batch[d],
           \A o \in Redrivers : picked'[o] \subseteq picked[o]
    PROVE  HeldRows'
  BY DEF HeldRows

LEMMA QueueInvLocal ==
    ASSUME TypeOK, QueueInv, UNCHANGED <<deliveries, batch, pc, reply, accepted>>,
           \A o \in Redrivers : picked'[o] \subseteq Stored
    PROVE  QueueInv'
<1>1. Stored' = Stored
  BY DEF Stored
<1>2. RowIds'
  BY <1>1 DEF QueueInv, RowIds
<1>3. HeldRows'
  BY <1>1 DEF QueueInv, HeldRows
<1> QED
  BY <1>2, <1>3 DEF QueueInv, CycleShape, LandedWasAccepted, SentWasAccepted, InHand

LEMMA QueueInvListIncidents ==
    ASSUME TypeOK, QueueInv, NEW d \in Dispatchers, ListIncidents(d)
    PROVE  QueueInv'
<1>1. /\ pc[d] = "idle" /\ pc' = [pc EXCEPT ![d] = "queueing"]
      /\ UNCHANGED <<deliveries, batch, reply, accepted, picked>>
  BY DEF ListIncidents, historyVars
<1>2. RowIds' /\ HeldRows' /\ SentWasAccepted'
  BY <1>1 DEF QueueInv, RowIds, HeldRows, SentWasAccepted, Stored
<1>3. CycleShape'
  BY <1>1 DEF QueueInv, CycleShape, InHand, TypeOK
<1>4. LandedWasAccepted'
  BY <1>1 DEF QueueInv, LandedWasAccepted, InHand
<1> QED
  BY <1>2, <1>3, <1>4 DEF QueueInv

LEMMA QueueInvQueueIncident ==
    ASSUME TypeOK, TypeOK', QueueInv, NEW d \in Dispatchers, QueueIncident(d)
    PROVE  QueueInv'
<1>1. PICK i \in todo[d] : deliveries' = Upsert(DedupeKey(i), i)
  BY DEF QueueIncident
<1>2. UNCHANGED <<batch, pc, reply, accepted, picked>>
  BY DEF QueueIncident, historyVars
<1>3. CASE DedupeKey(i) \notin Keys
  <2>1. deliveries' = deliveries
    BY <1>1, <1>3 DEF Upsert, TypeOK
  <2>2. \A o \in Redrivers : picked'[o] \subseteq Stored
    BY <1>2 DEF QueueInv, HeldRows
  <2> QED
    BY <1>2, <2>1, <2>2, QueueInvLocal
<1>4. CASE DedupeKey(i) \in Keys
  <2>1. /\ RowIds'
        /\ Stored' = Stored \cup {DedupeKey(i)}
        /\ \A j \in Stored : deliveries'[j].id = deliveries[j].id
        /\ \A j \in Keys : deliveries'[j].status = "sent" \/ deliveries'[j].messageId
                             => /\ deliveries'[j].status = deliveries[j].status
                                /\ deliveries'[j].messageId = deliveries[j].messageId
    BY <1>1, <1>4, UpsertIds DEF QueueInv
  <2>2. HeldRows'
    BY <1>2, <2>1, HeldRowsFrame DEF QueueInv
  <2>3. SentWasAccepted'
    BY <1>2, <2>1 DEF QueueInv, SentWasAccepted
  <2>4. CycleShape' /\ LandedWasAccepted'
    BY <1>2 DEF QueueInv, CycleShape, LandedWasAccepted, InHand
  <2> QED
    BY <2>1, <2>2, <2>3, <2>4 DEF QueueInv
<1> QED
  BY <1>3, <1>4

LEMMA QueueInvListPending ==
    ASSUME TypeOK, QueueInv, NEW d \in Dispatchers, ListPending(d)
    PROVE  QueueInv'
<1>1. /\ pc[d] = "queueing" /\ pc' = [pc EXCEPT ![d] = "dispatching"]
      /\ batch' = [batch EXCEPT ![d] = PendingBatch]
      /\ UNCHANGED <<deliveries, reply, accepted, picked>>
  BY DEF ListPending, historyVars
<1>2. Stored' = Stored /\ RowIds' /\ SentWasAccepted'
  BY <1>1 DEF QueueInv, RowIds, SentWasAccepted, Stored
<1>3. \A e \in PendingBatch : /\ e.key \in Stored /\ e.id = deliveries[e.key].id
                              /\ \A f \in PendingBatch : f.key = e.key => f = e
  BY PendingBatchRows DEF Due, Stored
<1>4. HeldRows'
  BY <1>1, <1>2, <1>3 DEF QueueInv, HeldRows, TypeOK
<1>5. CycleShape'
  BY <1>1 DEF QueueInv, CycleShape, InHand, TypeOK
<1>6. reply[d] = NoReply
  BY <1>1 DEF QueueInv, CycleShape
<1>7. LandedWasAccepted'
  BY <1>1, <1>6 DEF QueueInv, LandedWasAccepted, InHand, NoReply, TypeOK
<1> QED
  BY <1>2, <1>4, <1>5, <1>7 DEF QueueInv

LEMMA QueueInvSend ==
    ASSUME TypeOK, QueueInv, NEW d \in Dispatchers, Send(d)
    PROVE  QueueInv'
<1>1. PICK entry \in batch[d], r \in SenderReplies :
         /\ InHand(d, entry)
         /\ reply' = [reply EXCEPT ![d] = r]
         /\ accepted' = IF r.landed THEN [accepted EXCEPT ![entry.key] = @ + 1]
                                    ELSE accepted
  BY DEF Send
<1>2. /\ pc[d] = "dispatching" /\ pc' = [pc EXCEPT ![d] = "marking"]
      /\ UNCHANGED <<deliveries, batch, picked>>
  BY DEF Send
<1>3. RowIds' /\ HeldRows'
  BY <1>2 DEF QueueInv, RowIds, HeldRows, Stored
<1>4. entry.key \in Keys
  BY DEF TypeOK, Entries
<1>5. /\ \A k \in Keys : accepted[k] > 0 => accepted'[k] > 0
      /\ r.landed => accepted'[entry.key] > 0
  BY <1>1, <1>4 DEF TypeOK
<1>6. SentWasAccepted'
  BY <1>2, <1>5 DEF QueueInv, SentWasAccepted
<1>7. CycleShape'
  BY <1>1, <1>2 DEF QueueInv, CycleShape, InHand, TypeOK
<1>8. LandedWasAccepted'
  <2> SUFFICES ASSUME NEW x \in Dispatchers, NEW e \in batch[x],
                      reply'[x].landed, InHand(x, e)
               PROVE  accepted'[e.key] > 0
    BY <1>2 DEF LandedWasAccepted, InHand
  <2>1. e.key \in Keys
    BY DEF TypeOK, Entries
  <2>2. CASE x = d
    BY <1>1, <1>5, <2>2, InHandUnique DEF QueueInv, TypeOK
  <2>3. CASE x # d
    BY <1>1, <1>5, <2>1, <2>3 DEF QueueInv, LandedWasAccepted, TypeOK
  <2> QED
    BY <2>2, <2>3
<1> QED
  BY <1>3, <1>6, <1>7, <1>8 DEF QueueInv

\* Only an accepted message is answered "ok".
LEMMA OkLanded == ASSUME NEW r \in SenderReplies, r.kind = "ok" PROVE r.landed
<1>1. r \notin [kind : {"retryable"}, after : {0}, landed : BOOLEAN]
  OBVIOUS
<1>2. r \notin [kind : {"retryable"}, after : RetryAfters, landed : {FALSE}]
  OBVIOUS
<1>3. r # [kind |-> "rejected", after |-> 0, landed |-> FALSE]
  OBVIOUS
<1>4. r = [kind |-> "ok", after |-> 0, landed |-> TRUE]
  BY <1>1, <1>2, <1>3 DEF SenderReplies
<1> QED
  BY <1>4

\* What a mark does to the row of the delivery in hand, and to no other.
LEMMA MarkEffect ==
    ASSUME TypeOK, QueueInv, NEW d \in Dispatchers, NEW entry \in batch[d],
           InHand(d, entry), pc[d] = "marking",
           deliveries' = [deliveries EXCEPT ![entry.key] = MarkedRow(entry, reply[d])]
    PROVE  /\ \A k \in Keys : /\ deliveries'[k].id = deliveries[k].id
                              /\ deliveries'[k].status = "absent"
                                   <=> deliveries[k].status = "absent"
                              /\ k # entry.key => deliveries'[k] = deliveries[k]
           /\ deliveries'[entry.key] = MarkedRow(entry, reply[d])
           /\ MarkedRow(entry, reply[d]).status = "sent" => reply[d].landed
           /\ MarkedRow(entry, reply[d]).messageId
                => reply[d].landed \/ deliveries[entry.key].messageId
<1>1. entry.key \in Keys /\ entry.key \in Stored /\ deliveries[entry.key] \in Rows
  BY DEF TypeOK, Entries, QueueInv, HeldRows
<1>2. reply[d].kind = "ok" => reply[d].landed
  <2>1. reply[d] \in SenderReplies
    BY DEF QueueInv, CycleShape
  <2> QED
    BY <2>1, OkLanded
<1>3. /\ MarkedRow(entry, reply[d]).id = deliveries[entry.key].id
      /\ MarkedRow(entry, reply[d]).status \in {"sent", "retry", "failed"}
      /\ MarkedRow(entry, reply[d]).status = "sent" => reply[d].kind = "ok"
      /\ MarkedRow(entry, reply[d]).messageId
           = (deliveries[entry.key].messageId \/ reply[d].kind = "ok")
  BY <1>1 DEF MarkedRow, Rows
<1>4. /\ \A k \in Keys : k # entry.key => deliveries'[k] = deliveries[k]
      /\ deliveries'[entry.key] = MarkedRow(entry, reply[d])
  BY <1>1 DEF TypeOK
<1> QED
  BY <1>1, <1>2, <1>3, <1>4 DEF Stored

LEMMA QueueInvMark ==
    ASSUME TypeOK, TypeOK', QueueInv, NEW d \in Dispatchers, Mark(d)
    PROVE  QueueInv'
<1>1. PICK entry \in batch[d] :
         /\ InHand(d, entry)
         /\ deliveries' = [deliveries EXCEPT ![entry.key] = MarkedRow(entry, reply[d])]
         /\ batch' = [batch EXCEPT ![d] = @ \ {entry}]
  BY DEF Mark
<1>2. /\ pc[d] = "marking" /\ pc' = [pc EXCEPT ![d] = "dispatching"]
      /\ reply' = [reply EXCEPT ![d] = NoReply]
      /\ UNCHANGED <<accepted, picked>>
  BY DEF Mark
<1>3. /\ \A k \in Keys : /\ deliveries'[k].id = deliveries[k].id
                         /\ deliveries'[k].status = "absent"
                              <=> deliveries[k].status = "absent"
                         /\ k # entry.key => deliveries'[k] = deliveries[k]
      /\ deliveries'[entry.key] = MarkedRow(entry, reply[d])
      /\ MarkedRow(entry, reply[d]).status = "sent" => reply[d].landed
      /\ MarkedRow(entry, reply[d]).messageId
           => reply[d].landed \/ deliveries[entry.key].messageId
  BY <1>1, <1>2, MarkEffect
<1>4. RowIds' /\ Stored' = Stored
  BY <1>3, SameIds DEF QueueInv
<1>5. HeldRows'
  BY <1>1, <1>2, <1>3, <1>4, HeldRowsFrame DEF QueueInv, TypeOK, Stored
<1>6. SentWasAccepted'
  <2>1. entry.key \in Keys
    BY DEF TypeOK, Entries
  <2>2. reply[d].landed => accepted[entry.key] > 0
    BY <1>1 DEF QueueInv, LandedWasAccepted
  <2> QED
    BY <1>2, <1>3, <2>1, <2>2 DEF QueueInv, SentWasAccepted
<1>7. CycleShape'
  BY <1>1, <1>2 DEF QueueInv, CycleShape, InHand, TypeOK
<1>8. LandedWasAccepted'
  BY <1>1, <1>2 DEF QueueInv, LandedWasAccepted, InHand, NoReply, TypeOK
<1> QED
  BY <1>4, <1>5, <1>6, <1>7, <1>8 DEF QueueInv

LEMMA QueueInvFinishCycle ==
    ASSUME TypeOK, QueueInv, NEW d \in Dispatchers, FinishCycle(d)
    PROVE  QueueInv'
<1>1. /\ pc[d] = "dispatching" /\ batch[d] = {} /\ pc' = [pc EXCEPT ![d] = "idle"]
      /\ UNCHANGED <<deliveries, batch, reply, accepted, picked>>
  BY DEF FinishCycle, historyVars
<1>2. RowIds' /\ HeldRows' /\ SentWasAccepted'
  BY <1>1 DEF QueueInv, RowIds, HeldRows, SentWasAccepted, Stored
<1>3. CycleShape' /\ LandedWasAccepted'
  BY <1>1 DEF QueueInv, CycleShape, LandedWasAccepted, InHand, TypeOK
<1> QED
  BY <1>2, <1>3 DEF QueueInv

LEMMA QueueInvCrash ==
    ASSUME TypeOK, QueueInv, NEW d \in Dispatchers, Crash(d)
    PROVE  QueueInv'
<1>1. /\ pc' = [pc EXCEPT ![d] = "idle"] /\ batch' = [batch EXCEPT ![d] = {}]
      /\ reply' = [reply EXCEPT ![d] = NoReply]
      /\ UNCHANGED <<deliveries, accepted, picked>>
  BY DEF Crash
<1>2. RowIds' /\ HeldRows' /\ SentWasAccepted'
  BY <1>1 DEF QueueInv, RowIds, HeldRows, SentWasAccepted, Stored, TypeOK
<1>3. CycleShape' /\ LandedWasAccepted'
  BY <1>1 DEF QueueInv, CycleShape, LandedWasAccepted, InHand, TypeOK, NoReply
<1> QED
  BY <1>2, <1>3 DEF QueueInv

\* A step that touches the table without adding rows, marking any as sent or
\* touching what dispatchers hold.
LEMMA QueueInvTable ==
    ASSUME TypeOK, TypeOK', QueueInv, UNCHANGED <<batch, pc, reply, accepted>>,
           \A o \in Redrivers : picked'[o] \subseteq picked[o],
           \A k \in Keys :
              /\ deliveries'[k].id = deliveries[k].id
              /\ deliveries'[k].status = "absent" <=> deliveries[k].status = "absent"
              /\ deliveries'[k].status = "sent" => deliveries[k].status = "sent"
              /\ deliveries'[k].messageId => deliveries[k].messageId
    PROVE  QueueInv'
<1>1. RowIds' /\ Stored' = Stored
  BY SameIds DEF QueueInv
<1>2. HeldRows'
  BY <1>1, HeldRowsFrame DEF QueueInv, Stored
<1>3. SentWasAccepted'
  BY DEF QueueInv, SentWasAccepted
<1>4. CycleShape' /\ LandedWasAccepted'
  BY DEF QueueInv, CycleShape, LandedWasAccepted, InHand
<1> QED
  BY <1>1, <1>2, <1>3, <1>4 DEF QueueInv

LEMMA QueueInvRedriveApply ==
    ASSUME TypeOK, TypeOK', QueueInv, NEW o \in Redrivers, RedriveApply(o)
    PROVE  QueueInv'
<1>1. /\ deliveries' = [k \in Keys |-> IF k \in picked[o] THEN RedrivenRow(k)
                                                          ELSE deliveries[k]]
      /\ picked' = [picked EXCEPT ![o] = {}]
      /\ UNCHANGED <<batch, pc, reply, accepted>>
  BY DEF RedriveApply, localVars, historyVars
<1>2. \A k \in picked[o] : k \in Keys /\ deliveries[k].status # "absent"
  BY DEF QueueInv, HeldRows, Stored
<1>3. \A k \in Keys : deliveries[k] \in Rows
  BY DEF TypeOK
<1>4. \A k \in Keys :
        /\ deliveries'[k].id = deliveries[k].id
        /\ deliveries'[k].status = "absent" <=> deliveries[k].status = "absent"
        /\ deliveries'[k].status = "sent" => deliveries[k].status = "sent"
        /\ deliveries'[k].messageId => deliveries[k].messageId
  BY <1>1, <1>2, <1>3 DEF RedrivenRow, Rows
<1>5. \A p \in Redrivers : picked'[p] \subseteq picked[p]
  BY <1>1 DEF TypeOK
<1> QED
  BY <1>1, <1>4, <1>5, QueueInvTable

LEMMA QueueInvTick == ASSUME TypeOK, TypeOK', QueueInv, Tick PROVE QueueInv'
<1>1. /\ deliveries' = [k \in Keys |-> IF deliveries[k].wait > 0
                                       THEN [deliveries[k] EXCEPT !.wait = @ - 1]
                                       ELSE deliveries[k]]
      /\ UNCHANGED <<batch, pc, reply, accepted, picked>>
  BY DEF Tick, localVars, historyVars
<1>2. \A k \in Keys : deliveries[k] \in Rows
  BY DEF TypeOK
<1>3. \A k \in Keys : /\ deliveries'[k].id = deliveries[k].id
                      /\ deliveries'[k].status = deliveries[k].status
                      /\ deliveries'[k].messageId = deliveries[k].messageId
  BY <1>1, <1>2 DEF Rows
<1> QED
  BY <1>1, <1>3, QueueInvTable

LEMMA QueueInvStep == TypeOK /\ TypeOK' /\ QueueInv /\ [Next]_vars => QueueInv'
<1> SUFFICES ASSUME TypeOK, TypeOK', QueueInv, [Next]_vars PROVE QueueInv'
  OBVIOUS
<1>1. CASE StoreAlert \/ (\E a \in Alerts : Triage(a)) \/ (\E r \in Rules : ToggleRule(r))
             \/ UNCHANGED vars
  <2>1. UNCHANGED <<deliveries, batch, pc, reply, accepted, picked>>
    BY <1>1 DEF StoreAlert, Triage, ToggleRule, vars, localVars, historyVars
  <2>2. \A o \in Redrivers : picked'[o] \subseteq Stored
    BY <2>1 DEF QueueInv, HeldRows
  <2> QED
    BY <2>1, <2>2, QueueInvLocal
<1>2. ASSUME NEW o \in Redrivers, RedriveSelect(o) PROVE QueueInv'
  <2>1. UNCHANGED <<deliveries, batch, pc, reply, accepted>>
    BY <1>2 DEF RedriveSelect, localVars, historyVars
  <2>2. Failed \subseteq Stored
    BY DEF Failed, Stored
  <2>3. \A p \in Redrivers : picked'[p] \subseteq Stored
    BY <1>2, <2>2 DEF RedriveSelect, QueueInv, HeldRows, TypeOK
  <2> QED
    BY <2>1, <2>3, QueueInvLocal
<1>3. ASSUME NEW d \in Dispatchers, CycleStep(d) \/ Crash(d) PROVE QueueInv'
  BY <1>3, QueueInvListIncidents, QueueInvQueueIncident, QueueInvListPending,
     QueueInvSend, QueueInvMark, QueueInvFinishCycle, QueueInvCrash DEF CycleStep
<1>4. ASSUME NEW o \in Redrivers, RedriveApply(o) PROVE QueueInv'
  BY <1>4, QueueInvRedriveApply
<1>5. CASE Tick
  BY <1>5, QueueInvTick
<1> QED
  BY <1>1, <1>2, <1>3, <1>4, <1>5 DEF Next

\* The numbering of rows, the shape of every dispatcher's work in hand, and
\* that "sent" always has an accepted message behind it: with any number of
\* overlapping workers, run-once commands and redrives.
THEOREM QueueSound == Spec => []QueueInv
<1>1. Spec => [](TypeOK /\ QueueInv)
  BY TypeInit, TypeStep, QueueInvInit, QueueInvStep, PTL DEF Spec
<1> QED
  BY <1>1, PTL
-----------------------------------------------------------------------------
(* The deployment the operations guide describes: one notify-worker and one *)
(* redrive at a time.                                                       *)

OneWorker == \A d, e \in Dispatchers : d = e
OneRedrive == \A o, p \in Redrivers : o = p

\* TypeOK and QueueInv hold as they stand; the rest is inductive with them.
WorkerInv == NothingStale /\ AttemptsMatchStatus /\ AcceptedAccounted

LEMMA WorkerInvInit == Init => WorkerInv
<1> SUFFICES ASSUME Init PROVE WorkerInv
  OBVIOUS
<1>1. NothingStale
  BY DEF Init, NothingStale
<1>2. AttemptsMatchStatus
  BY DEF Init, AttemptsMatchStatus, NoRow
<1>3. \A k \in Keys : ~Recording(k)
  BY DEF Init, Recording
<1>4. AcceptedAccounted
  BY <1>3 DEF Init, AcceptedAccounted, NoRow
<1> QED
  BY <1>1, <1>2, <1>4 DEF WorkerInv

LEMMA WorkerInvLocal ==
    ASSUME TypeOK, WorkerInv, UNCHANGED <<deliveries, batch, reply, accepted, blind>>,
           \A o \in Redrivers : picked'[o] \subseteq Failed
    PROVE  WorkerInv'
<1>1. Failed' = Failed
  BY DEF Failed
<1>2. NothingStale'
  BY <1>1 DEF WorkerInv, NothingStale
<1>3. \A k \in Keys : Recording(k)' = Recording(k)
  BY DEF Recording, InHand
<1> QED
  BY <1>2, <1>3 DEF WorkerInv, AttemptsMatchStatus, AcceptedAccounted

\* While a dispatcher queues, nobody holds a batch.
LEMMA NoBatchWhileQueueing ==
    ASSUME OneWorker, QueueInv, NEW d \in Dispatchers, pc[d] \in {"idle", "queueing"}
    PROVE  \A e \in Dispatchers : batch[e] = {}
  BY DEF OneWorker, QueueInv, CycleShape

LEMMA UpsertRows ==
    ASSUME TypeOK, NEW k \in Keys, NEW text, deliveries' = Upsert(k, text)
    PROVE  \A j \in Keys :
             \/ /\ deliveries'[j].status = deliveries[j].status
                /\ deliveries'[j].attempts = deliveries[j].attempts
                /\ deliveries'[j].wait = deliveries[j].wait
             \/ /\ j = k /\ deliveries[j].status = "absent"
                /\ deliveries'[j].status = "pending"
                /\ deliveries'[j].attempts = 0 /\ deliveries'[j].wait = 0
<1>1. deliveries \in [Keys -> Rows] /\ deliveries[k] \in Rows
  BY DEF TypeOK
<1>2. CASE deliveries[k].status # "absent"
  BY <1>1, <1>2 DEF Upsert, Rows
<1>3. CASE deliveries[k].status = "absent"
  BY <1>1, <1>3 DEF Upsert, NoRow
<1> QED
  BY <1>2, <1>3

LEMMA WorkerInvQueueIncident ==
    ASSUME OneWorker, TypeOK, QueueInv, WorkerInv, NEW d \in Dispatchers, QueueIncident(d)
    PROVE  WorkerInv'
<1>1. PICK i \in todo[d] : deliveries' = Upsert(DedupeKey(i), i)
  BY DEF QueueIncident
<1>2. pc[d] = "queueing" /\ UNCHANGED <<batch, reply, accepted, blind, picked>>
  BY DEF QueueIncident, historyVars
<1>3. CASE DedupeKey(i) \notin Keys
  <2>1. deliveries' = deliveries
    BY <1>1, <1>3 DEF Upsert, TypeOK
  <2> QED
    BY <1>2, <2>1, WorkerInvLocal DEF WorkerInv, NothingStale
<1>4. CASE DedupeKey(i) \in Keys
  <2>1. \A j \in Keys :
          \/ /\ deliveries'[j].status = deliveries[j].status
             /\ deliveries'[j].attempts = deliveries[j].attempts
             /\ deliveries'[j].wait = deliveries[j].wait
          \/ /\ deliveries[j].status = "absent" /\ deliveries'[j].status = "pending"
             /\ deliveries'[j].attempts = 0 /\ deliveries'[j].wait = 0
    BY <1>1, <1>4, UpsertRows
  <2>2. \A e \in Dispatchers : batch[e] = {}
    BY <1>2, NoBatchWhileQueueing
  <2>3. NothingStale'
    BY <1>2, <2>1, <2>2 DEF WorkerInv, NothingStale, Failed
  <2>4. AttemptsMatchStatus'
    BY <2>1 DEF WorkerInv, AttemptsMatchStatus
  <2>5. \A k \in Keys : ~Recording(k) /\ ~Recording(k)'
    BY <1>2, <2>2 DEF Recording
  <2>6. AcceptedAccounted'
    BY <1>2, <2>1, <2>5 DEF WorkerInv, AcceptedAccounted
  <2> QED
    BY <2>3, <2>4, <2>6 DEF WorkerInv
<1> QED
  BY <1>3, <1>4

LEMMA WorkerInvListPending ==
    ASSUME OneWorker, TypeOK, QueueInv, WorkerInv, NEW d \in Dispatchers, ListPending(d)
    PROVE  WorkerInv'
<1>1. /\ pc[d] = "queueing" /\ batch' = [batch EXCEPT ![d] = PendingBatch]
      /\ UNCHANGED <<deliveries, reply, accepted, blind, picked>>
  BY DEF ListPending, historyVars
<1>2. \A e \in Dispatchers : e = d
  BY DEF OneWorker
<1>3. batch'[d] = PendingBatch /\ Failed' = Failed
  BY <1>1 DEF TypeOK, Failed
<1>4. \A e \in PendingBatch : /\ deliveries[e.key].status \in {"pending", "retry"}
                              /\ deliveries[e.key].attempts = e.attempts
                              /\ deliveries[e.key].text = e.text
  BY PendingBatchRows DEF Due
<1>5. NothingStale'
  BY <1>1, <1>2, <1>3, <1>4 DEF WorkerInv, NothingStale
<1>6. ~reply[d].landed
  BY <1>1 DEF QueueInv, CycleShape, NoReply
<1>7. \A k \in Keys : ~Recording(k) /\ ~Recording(k)'
  BY <1>1, <1>2, <1>6 DEF Recording
<1>8. AttemptsMatchStatus' /\ AcceptedAccounted'
  BY <1>1, <1>7 DEF WorkerInv, AttemptsMatchStatus, AcceptedAccounted
<1> QED
  BY <1>5, <1>8 DEF WorkerInv

LEMMA WorkerInvSend ==
    ASSUME OneWorker, TypeOK, QueueInv, WorkerInv, NEW d \in Dispatchers, Send(d)
    PROVE  WorkerInv'
<1>1. PICK entry \in batch[d], r \in SenderReplies :
         /\ InHand(d, entry)
         /\ reply' = [reply EXCEPT ![d] = r]
         /\ accepted' = IF r.landed THEN [accepted EXCEPT ![entry.key] = @ + 1]
                                    ELSE accepted
  BY DEF Send
<1>2. pc[d] = "dispatching" /\ UNCHANGED <<deliveries, batch, picked, blind>>
  BY DEF Send
<1>3. \A e \in Dispatchers : e = d
  BY DEF OneWorker
<1>4. entry.key \in Keys /\ reply'[d] = r
  BY <1>1 DEF TypeOK, Entries
<1>5. \A k \in Keys : ~Recording(k)
  BY <1>2, <1>3 DEF Recording, QueueInv, CycleShape, NoReply
<1>6. ASSUME NEW k \in Keys PROVE Recording(k)' <=> k = entry.key /\ r.landed
  <2>1. \A e \in batch[d] : InHand(d, e) <=> e = entry
    BY <1>1, InHandUnique DEF QueueInv
  <2>2. \A e \in batch[d] : InHand(d, e)' <=> e = entry
    BY <1>2, <2>1 DEF InHand
  <2> QED
    BY <1>2, <1>3, <1>4, <2>2 DEF Recording
<1>7. ASSUME NEW k \in Keys
      PROVE  accepted'[k] = accepted[k] + (IF Recording(k)' THEN 1 ELSE 0)
  <2>1. accepted \in [Keys -> Nat]
    BY DEF TypeOK
  <2> QED
    BY <1>1, <1>4, <1>6, <2>1
<1>8. AcceptedAccounted'
  BY <1>2, <1>5, <1>7 DEF WorkerInv, AcceptedAccounted, TypeOK
<1>9. NothingStale' /\ AttemptsMatchStatus'
  BY <1>2 DEF WorkerInv, NothingStale, AttemptsMatchStatus, Failed
<1> QED
  BY <1>8, <1>9 DEF WorkerInv

LEMMA SenderKinds ==
    ASSUME NEW r \in SenderReplies PROVE r.kind \in {"ok", "retryable", "rejected"}
<1>1. r \in [kind : {"retryable"}, after : {0}, landed : BOOLEAN] => r.kind = "retryable"
  OBVIOUS
<1>2. r \in [kind : {"retryable"}, after : RetryAfters, landed : {FALSE}]
        => r.kind = "retryable"
  OBVIOUS
<1>3. \/ r = [kind |-> "ok", after |-> 0, landed |-> TRUE]
      \/ r = [kind |-> "rejected", after |-> 0, landed |-> FALSE]
      \/ r.kind = "retryable"
  BY <1>1, <1>2, Zenon DEF SenderReplies
<1> QED
  BY <1>3

\* The row of the delivery in hand is owed, with the listed attempt count, so
\* the mark's status and counter agree.
LEMMA MarkRow ==
    ASSUME TypeOK, QueueInv, WorkerInv, NEW d \in Dispatchers, pc[d] = "marking",
           NEW entry \in batch[d], InHand(d, entry)
    PROVE  LET row == deliveries[entry.key]
               new == MarkedRow(entry, reply[d])
           IN  /\ row.status \in {"pending", "retry"}
               /\ row.attempts \in 0..(MaxAttempts - 1)
               /\ new.attempts = row.attempts + 1
               /\ new.status \in {"sent", "retry", "failed"}
               /\ new.status = "retry" => new.attempts \in 1..(MaxAttempts - 1)
               /\ new.wait > 0 => new.status = "retry"
               /\ new.status = "sent" <=> reply[d].kind = "ok"
               /\ new.status = "failed" /\ new.attempts # MaxAttempts
                    => reply[d].kind = "rejected"
<1>1. entry.key \in Keys /\ entry \in Entries /\ deliveries[entry.key] \in Rows
  BY DEF TypeOK, Entries
<1>2. /\ deliveries[entry.key].status \in {"pending", "retry"}
      /\ deliveries[entry.key].attempts = entry.attempts
  BY DEF WorkerInv, NothingStale
<1>3. deliveries[entry.key].attempts \in 0..(MaxAttempts - 1)
  BY <1>1, <1>2, DeliveryAssumption
     DEF WorkerInv, AttemptsMatchStatus, Rows, DeliveryAssumption
<1>4. reply[d].kind \in {"ok", "retryable", "rejected"}
  <2>1. reply[d] \in SenderReplies
    BY DEF QueueInv, CycleShape
  <2> QED
    BY <2>1, SenderKinds
<1> DEFINE new == MarkedRow(entry, reply[d])
           again == reply[d].kind = "retryable" /\ entry.attempts + 1 < MaxAttempts
<1>5. /\ new.attempts = deliveries[entry.key].attempts + 1
      /\ new.status = IF reply[d].kind = "ok" THEN "sent"
                      ELSE IF again THEN "retry" ELSE "failed"
      /\ new.wait = IF again THEN Delay(entry.attempts + 1, reply[d].after) ELSE 0
  BY <1>1 DEF MarkedRow, Rows
<1> HIDE DEF new
<1>6. new.status = "retry" => new.attempts \in 1..(MaxAttempts - 1)
  BY <1>2, <1>3, <1>5, DeliveryAssumption DEF DeliveryAssumption
<1>7. new.wait > 0 => new.status = "retry"
  BY <1>5
<1>8. new.status = "failed" /\ new.attempts # MaxAttempts => reply[d].kind = "rejected"
  <2>1. MaxAttempts \in Nat
    BY DeliveryAssumption DEF DeliveryAssumption
  <2>2. reply[d].kind = "retryable" /\ new.status = "failed" => ~(entry.attempts + 1 < MaxAttempts)
    BY <1>5
  <2> QED
    BY <1>2, <1>3, <1>4, <1>5, <2>1, <2>2
<1> QED
  BY <1>2, <1>3, <1>5, <1>6, <1>7, <1>8 DEF new

LEMMA WorkerInvMark ==
    ASSUME OneWorker, TypeOK, QueueInv, WorkerInv, NEW d \in Dispatchers, Mark(d)
    PROVE  WorkerInv'
<1>1. PICK entry \in batch[d] :
         /\ InHand(d, entry)
         /\ deliveries' = [deliveries EXCEPT ![entry.key] = MarkedRow(entry, reply[d])]
         /\ batch' = [batch EXCEPT ![d] = @ \ {entry}]
         /\ blind' = IF reply[d].landed /\ reply[d].kind # "ok"
                     THEN [blind EXCEPT ![entry.key] = @ + 1] ELSE blind
  BY DEF Mark
<1>2. /\ pc[d] = "marking" /\ reply' = [reply EXCEPT ![d] = NoReply]
      /\ UNCHANGED <<accepted, picked>>
  BY DEF Mark
<1>3. \A e \in Dispatchers : e = d
  BY DEF OneWorker
<1>4. entry.key \in Keys /\ \A k \in Keys : k # entry.key => deliveries'[k] = deliveries[k]
  BY <1>1 DEF TypeOK, Entries
<1> DEFINE new == MarkedRow(entry, reply[d])
<1>5. deliveries'[entry.key] = new
  BY <1>1, <1>4 DEF TypeOK
<1>6. /\ deliveries[entry.key].status \in {"pending", "retry"}
      /\ deliveries[entry.key].attempts \in 0..(MaxAttempts - 1)
      /\ new.attempts = deliveries[entry.key].attempts + 1
      /\ new.status \in {"sent", "retry", "failed"}
      /\ new.status = "retry" => new.attempts \in 1..(MaxAttempts - 1)
      /\ new.wait > 0 => new.status = "retry"
      /\ new.status = "sent" <=> reply[d].kind = "ok"
  BY <1>1, <1>2, MarkRow
<1> HIDE DEF new
<1>7. NothingStale'
  <2>1. \A e \in batch'[d] : e \in batch[d] /\ e.key # entry.key /\ e.key \in Keys
    BY <1>1 DEF TypeOK, Entries, QueueInv, HeldRows
  <2>2. \A o \in Redrivers : picked[o] \subseteq Failed' 
    BY <1>4, <1>6 DEF WorkerInv, NothingStale, Failed
  <2> QED
    BY <1>2, <1>3, <1>4, <2>1, <2>2 DEF WorkerInv, NothingStale
<1>8. AttemptsMatchStatus'
  <2>1. MaxAttempts \in Nat \ {0}
    BY DeliveryAssumption DEF DeliveryAssumption
  <2>2. new.attempts \in 1..MaxAttempts
    BY <1>6, <2>1
  <2> QED
    BY <1>4, <1>5, <1>6, <2>2 DEF WorkerInv, AttemptsMatchStatus
<1>9. ASSUME NEW k \in Keys PROVE /\ ~Recording(k)'
                                  /\ Recording(k) <=> k = entry.key /\ reply[d].landed
  <2>1. \A e \in batch[d] : InHand(d, e) <=> e = entry
    BY <1>1, InHandUnique DEF QueueInv
  <2> QED
    BY <1>2, <1>3, <2>1 DEF Recording, NoReply, TypeOK
<1>10. reply[d].kind = "ok" => reply[d].landed
  BY <1>2, OkLanded DEF QueueInv, CycleShape
<1>11. AcceptedAccounted'
  <2> SUFFICES ASSUME NEW k \in Keys
               PROVE  accepted'[k] = blind'[k]
                        + (IF deliveries'[k].status = "sent" THEN 1 ELSE 0)
                        + (IF Recording(k)' THEN 1 ELSE 0)
    BY DEF AcceptedAccounted
  <2>1. accepted[k] = blind[k] + (IF deliveries[k].status = "sent" THEN 1 ELSE 0)
                               + (IF Recording(k) THEN 1 ELSE 0)
    BY DEF WorkerInv, AcceptedAccounted
  <2>2. blind[k] \in Nat /\ blind \in [Keys -> Nat]
    BY DEF TypeOK
  <2>3. CASE k # entry.key
    BY <1>1, <1>2, <1>4, <1>9, <2>1, <2>2, <2>3
  <2>4. CASE k = entry.key
    BY <1>1, <1>2, <1>5, <1>6, <1>9, <1>10, <2>1, <2>2, <2>4
  <2> QED
    BY <2>3, <2>4
<1> QED
  BY <1>7, <1>8, <1>11 DEF WorkerInv

LEMMA WorkerInvCrash ==
    ASSUME OneWorker, TypeOK, QueueInv, WorkerInv, NEW d \in Dispatchers, Crash(d)
    PROVE  WorkerInv'
<1>1. /\ batch' = [batch EXCEPT ![d] = {}] /\ reply' = [reply EXCEPT ![d] = NoReply]
      /\ UNCHANGED <<deliveries, accepted, picked>>
  BY DEF Crash
<1>2. \A e \in Dispatchers : e = d
  BY DEF OneWorker
<1>3. batch'[d] = {} /\ Failed' = Failed
  BY <1>1 DEF TypeOK, Failed
<1>4. NothingStale' /\ AttemptsMatchStatus'
  BY <1>1, <1>2, <1>3 DEF WorkerInv, NothingStale, AttemptsMatchStatus
<1>5. \A k \in Keys : ~Recording(k)'
  BY <1>2, <1>3 DEF Recording
<1>6. ASSUME NEW k \in Keys
      PROVE  blind'[k] = blind[k] + (IF Recording(k) THEN 1 ELSE 0)
  <2>1. blind \in [Keys -> Nat]
    BY DEF TypeOK
  <2>2. CASE reply[d].landed
    <3>1. PICK entry \in batch[d] : /\ InHand(d, entry)
                                    /\ blind' = [blind EXCEPT ![entry.key] = @ + 1]
      BY <2>2 DEF Crash
    <3>2. \A e \in batch[d] : InHand(d, e) <=> e = entry
      BY <3>1, InHandUnique DEF QueueInv
    <3>3. Recording(k) <=> k = entry.key
      BY <1>2, <2>2, <3>2 DEF Recording
    <3> QED
      BY <2>1, <3>1, <3>3
  <2>3. CASE ~reply[d].landed
    <3>1. ~Recording(k)
      BY <1>2, <2>3 DEF Recording
    <3> QED
      BY <2>1, <2>3, <3>1 DEF Crash
  <2> QED
    BY <2>2, <2>3
<1>7. AcceptedAccounted'
  BY <1>1, <1>5, <1>6 DEF WorkerInv, AcceptedAccounted, TypeOK
<1> QED
  BY <1>4, <1>7 DEF WorkerInv

LEMMA WorkerInvRedriveApply ==
    ASSUME OneRedrive, TypeOK, QueueInv, WorkerInv, NEW o \in Redrivers, RedriveApply(o)
    PROVE  WorkerInv'
<1>1. /\ deliveries' = [k \in Keys |-> IF k \in picked[o] THEN RedrivenRow(k)
                                                          ELSE deliveries[k]]
      /\ picked' = [picked EXCEPT ![o] = {}]
      /\ UNCHANGED <<batch, reply, accepted, blind>>
  BY DEF RedriveApply, localVars, historyVars
<1>2. \A p \in Redrivers : picked'[p] = {}
  BY <1>1 DEF OneRedrive, TypeOK
<1>3. picked[o] \subseteq Failed
  BY DEF WorkerInv, NothingStale
<1>4. \A k \in Keys : k \notin picked[o] => deliveries'[k] = deliveries[k]
  BY <1>1
<1>5. \A k \in picked[o] : /\ deliveries[k].status = "failed"
                           /\ deliveries'[k].status = "pending"
                           /\ deliveries'[k].attempts = 0 /\ deliveries'[k].wait = 0
  BY <1>1, <1>3 DEF Failed, RedrivenRow, TypeOK, Rows
<1>6. NothingStale'
  <2>1. \A d \in Dispatchers : \A e \in batch[d] : e.key \in Keys /\ e.key \notin picked[o]
    BY <1>5 DEF WorkerInv, NothingStale, TypeOK, Entries
  <2> QED
    BY <1>1, <1>2, <1>4, <2>1 DEF WorkerInv, NothingStale
<1>7. AttemptsMatchStatus'
  BY <1>4, <1>5 DEF WorkerInv, AttemptsMatchStatus
<1>8. \A k \in Keys : Recording(k)' = Recording(k)
  BY <1>1 DEF Recording, InHand
<1>9. AcceptedAccounted'
  BY <1>1, <1>4, <1>5, <1>8 DEF WorkerInv, AcceptedAccounted
<1> QED
  BY <1>6, <1>7, <1>9 DEF WorkerInv

LEMMA TickRows ==
    ASSUME TypeOK, Tick
    PROVE  \A k \in Keys :
             /\ deliveries'[k].status = deliveries[k].status
             /\ deliveries'[k].attempts = deliveries[k].attempts
             /\ deliveries'[k].text = deliveries[k].text
             /\ deliveries'[k].wait > 0 => deliveries[k].wait > 0
<1>1. deliveries' = [k \in Keys |-> IF deliveries[k].wait > 0
                                    THEN [deliveries[k] EXCEPT !.wait = @ - 1]
                                    ELSE deliveries[k]]
  BY DEF Tick
<1>2. \A k \in Keys : deliveries[k] \in Rows
  BY DEF TypeOK
<1> QED
  BY <1>1, <1>2 DEF Rows

LEMMA WorkerInvTick ==
    ASSUME TypeOK, WorkerInv, Tick
    PROVE  WorkerInv'
<1>1. UNCHANGED <<batch, reply, accepted, blind, picked>>
  BY DEF Tick, localVars, historyVars
<1>2. NothingStale'
  BY <1>1, TickRows DEF WorkerInv, NothingStale, Failed, TypeOK, Entries
<1>3. AttemptsMatchStatus'
  BY TickRows DEF WorkerInv, AttemptsMatchStatus
<1>4. \A k \in Keys : Recording(k)' = Recording(k)
  BY <1>1 DEF Recording, InHand
<1>5. AcceptedAccounted'
  BY <1>1, <1>4, TickRows DEF WorkerInv, AcceptedAccounted
<1> QED
  BY <1>2, <1>3, <1>5 DEF WorkerInv

LEMMA WorkerInvStep ==
    ASSUME OneWorker, OneRedrive, TypeOK, QueueInv, WorkerInv, [Next]_vars
    PROVE  WorkerInv'
<1>1. CASE StoreAlert \/ (\E a \in Alerts : Triage(a)) \/ (\E r \in Rules : ToggleRule(r))
             \/ (\E d \in Dispatchers : ListIncidents(d) \/ FinishCycle(d))
             \/ UNCHANGED vars
  <2>1. UNCHANGED <<deliveries, batch, reply, accepted, blind, picked>>
    BY <1>1 DEF StoreAlert, Triage, ToggleRule, ListIncidents, FinishCycle, vars,
                localVars, historyVars
  <2>2. \A o \in Redrivers : picked'[o] \subseteq Failed
    BY <2>1 DEF WorkerInv, NothingStale
  <2> QED
    BY <2>1, <2>2, WorkerInvLocal
<1>2. ASSUME NEW o \in Redrivers, RedriveSelect(o) PROVE WorkerInv'
  <2>1. UNCHANGED <<deliveries, batch, reply, accepted, blind>>
    BY <1>2 DEF RedriveSelect, localVars, historyVars
  <2>2. \A p \in Redrivers : picked'[p] \subseteq Failed
    BY <1>2 DEF RedriveSelect, WorkerInv, NothingStale, TypeOK
  <2> QED
    BY <2>1, <2>2, WorkerInvLocal
<1>3. ASSUME NEW d \in Dispatchers,
             QueueIncident(d) \/ ListPending(d) \/ Send(d) \/ Mark(d) \/ Crash(d)
      PROVE  WorkerInv'
  BY <1>3, WorkerInvQueueIncident, WorkerInvListPending, WorkerInvSend, WorkerInvMark,
     WorkerInvCrash
<1>4. ASSUME NEW o \in Redrivers, RedriveApply(o) PROVE WorkerInv'
  BY <1>4, WorkerInvRedriveApply
<1>5. CASE Tick
  BY <1>5, WorkerInvTick
<1> QED
  BY <1>1, <1>2, <1>3, <1>4, <1>5 DEF Next, CycleStep

-----------------------------------------------------------------------------
(* What follows from the invariant.                                        *)

LEMMA DuplicatesBounded == ASSUME TypeOK, WorkerInv PROVE DuplicatesAreBlind
<1> SUFFICES ASSUME NEW k \in Keys PROVE accepted[k] <= blind[k] + 1
  BY DEF DuplicatesAreBlind
<1>1. blind[k] \in Nat
  BY DEF TypeOK
<1>2. deliveries[k].status = "sent" => ~Recording(k)
  BY DEF WorkerInv, NothingStale, Recording
<1>3. accepted[k] = blind[k] + (IF deliveries[k].status = "sent" THEN 1 ELSE 0)
                             + (IF Recording(k) THEN 1 ELSE 0)
  BY DEF WorkerInv, AcceptedAccounted
<1> QED
  BY <1>1, <1>2, <1>3

\* With one worker and one redrive at a time, attempt counters agree with
\* statuses, nothing listed is stale when it is used, every accepted message is
\* accounted for, and so duplicates are bounded by the blind spots: for every
\* history of crashes, lost answers, retries and redrives.
THEOREM WorkerSound ==
    ASSUME OneWorker, OneRedrive
    PROVE  Spec => [](NothingStale /\ AttemptsMatchStatus /\ AcceptedAccounted
                        /\ DuplicatesAreBlind)
<1>1. Init => TypeOK /\ QueueInv /\ WorkerInv
  BY TypeInit, QueueInvInit, WorkerInvInit
<1>2. TypeOK /\ QueueInv /\ WorkerInv /\ [Next]_vars => (TypeOK /\ QueueInv /\ WorkerInv)'
  BY TypeStep, QueueInvStep, WorkerInvStep
<1>3. TypeOK /\ WorkerInv => NothingStale /\ AttemptsMatchStatus /\ AcceptedAccounted
                               /\ DuplicatesAreBlind
  BY DuplicatesBounded DEF WorkerInv
<1> QED
  BY <1>1, <1>2, <1>3, PTL DEF Spec

\* What one step does to the status of each delivery.
LEMMA StatusStep ==
    ASSUME OneWorker, OneRedrive, TypeOK, QueueInv, WorkerInv, Next, NEW k \in Keys
    PROVE  LET old == deliveries[k].status
               new == deliveries'[k].status
           IN  \/ new = old
               \/ old = "absent" /\ new = "pending"
               \/ old \in {"pending", "retry"} /\ new \in {"sent", "retry", "failed"}
               \/ old = "failed" /\ new = "pending" /\ \E o \in Redrivers : k \in picked[o]
<1>1. CASE deliveries' = deliveries
  BY <1>1
<1>2. ASSUME NEW d \in Dispatchers, QueueIncident(d)
      PROVE  \/ deliveries'[k].status = deliveries[k].status
             \/ deliveries[k].status = "absent" /\ deliveries'[k].status = "pending"
  <2>1. PICK i \in todo[d] : deliveries' = Upsert(DedupeKey(i), i)
    BY <1>2 DEF QueueIncident
  <2>2. CASE DedupeKey(i) \in Keys
    BY <2>1, <2>2, UpsertRows
  <2>3. CASE DedupeKey(i) \notin Keys
    BY <2>1, <2>3 DEF Upsert, TypeOK
  <2> QED
    BY <2>2, <2>3
<1>3. ASSUME NEW d \in Dispatchers, Mark(d)
      PROVE  \/ deliveries'[k].status = deliveries[k].status
             \/ /\ deliveries[k].status \in {"pending", "retry"}
                /\ deliveries'[k].status \in {"sent", "retry", "failed"}
  <2>1. PICK entry \in batch[d] :
          /\ InHand(d, entry)
          /\ deliveries' = [deliveries EXCEPT ![entry.key] = MarkedRow(entry, reply[d])]
    BY <1>3 DEF Mark
  <2>2. pc[d] = "marking"
    BY <1>3 DEF Mark
  <2>3. /\ deliveries[entry.key].status \in {"pending", "retry"}
        /\ MarkedRow(entry, reply[d]).status \in {"sent", "retry", "failed"}
    BY <2>1, <2>2, MarkRow
  <2> QED
    BY <2>1, <2>3 DEF TypeOK
<1>4. ASSUME NEW o \in Redrivers, RedriveApply(o)
      PROVE  \/ deliveries'[k].status = deliveries[k].status
             \/ /\ deliveries[k].status = "failed" /\ deliveries'[k].status = "pending"
                /\ k \in picked[o]
  <2>1. picked[o] \subseteq Failed
    BY DEF WorkerInv, NothingStale
  <2> QED
    BY ZenonT(60), <1>4, <2>1 DEF RedriveApply, RedrivenRow, Failed, TypeOK, Rows
<1>5. CASE Tick
  BY <1>5, TickRows
<1>6. \/ deliveries' = deliveries
      \/ \E d \in Dispatchers : QueueIncident(d) \/ Mark(d)
      \/ \E o \in Redrivers : RedriveApply(o)
      \/ Tick
  BY DEF Next, CycleStep, StoreAlert, Triage, ToggleRule, ListIncidents, ListPending, Send,
         FinishCycle, Crash, RedriveSelect
<1> QED
  BY <1>1, <1>2, <1>3, <1>4, <1>5, <1>6

\* In that deployment a sent delivery is never touched again, and a failed one
\* only by the redrive that selected it.
THEOREM TerminalIsFinal == ASSUME OneWorker, OneRedrive PROVE Spec => TerminalUntilRedriven
<1>1. Init => TypeOK /\ QueueInv /\ WorkerInv
  BY TypeInit, QueueInvInit, WorkerInvInit
<1>2. TypeOK /\ QueueInv /\ WorkerInv /\ [Next]_vars => (TypeOK /\ QueueInv /\ WorkerInv)'
  BY TypeStep, QueueInvStep, WorkerInvStep
<1> DEFINE Step == \A k \in Keys :
             LET old == deliveries[k].status
                 new == deliveries'[k].status
             IN  /\ old = "sent" => new = "sent"
                 /\ old = "failed" /\ new # "failed"
                      => \E o \in Redrivers : k \in picked[o] /\ new = "pending"
<1>3. TypeOK /\ QueueInv /\ WorkerInv /\ [Next]_vars => Step \/ UNCHANGED vars
  BY StatusStep
<1> HIDE DEF Step
<1>4. Spec => [][Step]_vars
  BY <1>1, <1>2, <1>3, PTL DEF Spec
<1> QED
  BY <1>4 DEF TerminalUntilRedriven, Step

-----------------------------------------------------------------------------
(* What settles a delivery.                                                *)

\* A delivery comes to be sent or failed only by the mark of the worker that
\* holds it.
LEMMA SettledByMark ==
    ASSUME OneWorker, OneRedrive, TypeOK, QueueInv, WorkerInv, Next, NEW k \in Keys,
           deliveries'[k].status \in {"sent", "failed"},
           deliveries[k].status # deliveries'[k].status
    PROVE  \E d \in Dispatchers : \E entry \in batch[d] :
              /\ pc[d] = "marking" /\ UNCHANGED told
              /\ InHand(d, entry) /\ entry.key = k
              /\ deliveries'[k] = MarkedRow(entry, reply[d])
<1>1. PICK d \in Dispatchers : Mark(d)
  <2>1. ASSUME NEW d \in Dispatchers, QueueIncident(d) PROVE FALSE
    <3>1. PICK i \in todo[d] : deliveries' = Upsert(DedupeKey(i), i)
      BY <2>1 DEF QueueIncident
    <3>2. CASE DedupeKey(i) \in Keys
      BY <3>1, <3>2, UpsertRows
    <3>3. CASE DedupeKey(i) \notin Keys
      BY <3>1, <3>3 DEF Upsert, TypeOK
    <3> QED
      BY <3>2, <3>3
  <2>2. ASSUME NEW o \in Redrivers, RedriveApply(o) PROVE FALSE
    BY ZenonT(60), <2>2 DEF RedriveApply, RedrivenRow, TypeOK, Rows
  <2>3. ~Tick
    BY TickRows
  <2>4. deliveries' # deliveries
    OBVIOUS
  <2> QED
    BY <2>1, <2>2, <2>3, <2>4
       DEF Next, CycleStep, StoreAlert, Triage, ToggleRule, ListIncidents, ListPending, Send,
           FinishCycle, Crash, RedriveSelect, historyVars
<1>2. PICK entry \in batch[d] :
         /\ InHand(d, entry)
         /\ deliveries' = [deliveries EXCEPT ![entry.key] = MarkedRow(entry, reply[d])]
  BY <1>1 DEF Mark
<1>3. entry.key = k /\ deliveries'[k] = MarkedRow(entry, reply[d])
  BY <1>2 DEF TypeOK
<1> QED
  BY <1>1, <1>2, <1>3 DEF Mark

\* A delivery fails because Telegram rejected it or because its last attempt is
\* spent: the listed attempt count that dispatch compares with max_attempts is
\* the one in the table.
THEOREM FailuresHaveCause == ASSUME OneWorker, OneRedrive PROVE Spec => FailsForCause
<1>1. Init => TypeOK /\ QueueInv /\ WorkerInv
  BY TypeInit, QueueInvInit, WorkerInvInit
<1>2. TypeOK /\ QueueInv /\ WorkerInv /\ [Next]_vars => (TypeOK /\ QueueInv /\ WorkerInv)'
  BY TypeStep, QueueInvStep, WorkerInvStep
<1> DEFINE Step == \A k \in Keys :
             deliveries[k].status # "failed" /\ deliveries'[k].status = "failed"
               => \/ deliveries'[k].attempts = MaxAttempts
                  \/ \E d \in Dispatchers : reply[d].kind = "rejected"
<1>3. TypeOK /\ QueueInv /\ WorkerInv /\ [Next]_vars => Step \/ UNCHANGED vars
  <2> SUFFICES ASSUME TypeOK, QueueInv, WorkerInv, Next, NEW k \in Keys,
                      deliveries[k].status # "failed", deliveries'[k].status = "failed"
               PROVE  \/ deliveries'[k].attempts = MaxAttempts
                      \/ \E d \in Dispatchers : reply[d].kind = "rejected"
    OBVIOUS
  <2>1. PICK d \in Dispatchers : \E entry \in batch[d] :
          /\ pc[d] = "marking" /\ InHand(d, entry)
          /\ deliveries'[k] = MarkedRow(entry, reply[d])
    BY SettledByMark
  <2> QED
    BY <2>1, MarkRow
<1> HIDE DEF Step
<1>4. Spec => [][Step]_vars
  BY <1>1, <1>2, <1>3, PTL DEF Spec
<1> QED
  BY <1>4 DEF FailsForCause, Step

\* An answer that stands for an accepted message stands for what it said: the
\* alerts of the delivery in hand have been told.
LandedWasTold ==
    \A d \in Dispatchers : \A e \in batch[d] :
        reply[d].landed /\ InHand(d, e) => e.text \subseteq told

LEMMA LandedWasToldStep ==
    ASSUME TypeOK, QueueInv, LandedWasTold, [Next]_vars
    PROVE  LandedWasTold'
<1>1. CASE UNCHANGED <<batch, reply, told>>
  BY <1>1 DEF LandedWasTold, InHand
<1>2. ASSUME NEW d \in Dispatchers, ListPending(d) PROVE LandedWasTold'
  <2>1. reply[d] = NoReply /\ UNCHANGED <<reply, told>>
    BY <1>2 DEF ListPending, QueueInv, CycleShape, historyVars
  <2>2. \A x \in Dispatchers : x # d => batch'[x] = batch[x]
    BY <1>2 DEF ListPending, TypeOK
  <2> QED
    BY <2>1, <2>2 DEF LandedWasTold, InHand, NoReply
<1>3. ASSUME NEW d \in Dispatchers, Send(d) PROVE LandedWasTold'
  <2>1. PICK entry \in batch[d], r \in SenderReplies :
           /\ InHand(d, entry)
           /\ reply' = [reply EXCEPT ![d] = r]
           /\ told' = IF r.landed THEN told \cup entry.text ELSE told
    BY <1>3 DEF Send
  <2>2. UNCHANGED batch
    BY <1>3 DEF Send
  <2> SUFFICES ASSUME NEW x \in Dispatchers, NEW e \in batch[x],
                      reply'[x].landed, InHand(x, e)
               PROVE  e.text \subseteq told'
    BY <2>2 DEF LandedWasTold, InHand
  <2>3. CASE x = d
    <3>1. e = entry
      BY <2>1, <2>3, InHandUnique DEF QueueInv
    <3>2. r.landed
      BY <2>1, <2>3 DEF TypeOK
    <3> QED
      BY <2>1, <3>1, <3>2
  <2>4. CASE x # d
    BY <2>1, <2>4 DEF LandedWasTold, TypeOK
  <2> QED
    BY <2>3, <2>4
<1>4. ASSUME NEW d \in Dispatchers, Mark(d) \/ Crash(d) PROVE LandedWasTold'
  <2>1. UNCHANGED told /\ reply' = [reply EXCEPT ![d] = NoReply]
    BY <1>4 DEF Mark, Crash
  <2>2. \A x \in Dispatchers : x # d => batch'[x] = batch[x]
    BY <1>4 DEF Mark, Crash, TypeOK
  <2> QED
    BY <2>1, <2>2 DEF LandedWasTold, InHand, NoReply, TypeOK
<1>5. \/ UNCHANGED <<batch, reply, told>>
      \/ \E d \in Dispatchers : ListPending(d) \/ Send(d) \/ Mark(d) \/ Crash(d)
  BY DEF Next, CycleStep, StoreAlert, Triage, ToggleRule, ListIncidents, QueueIncident,
         FinishCycle, RedriveSelect, RedriveApply, Tick, vars, localVars, historyVars
<1> QED
  BY <1>1, <1>2, <1>3, <1>4, <1>5

\* When a delivery is marked sent, every alert its payload names by then has
\* been told: no queueing by this worker refreshes the payload of a delivery
\* between its listing and its mark.
THEOREM SentIsTold == ASSUME OneWorker, OneRedrive PROVE Spec => SentNamesItsAlerts
<1> DEFINE Inv == TypeOK /\ QueueInv /\ WorkerInv /\ LandedWasTold
<1>1. Init => Inv
  BY TypeInit, QueueInvInit, WorkerInvInit DEF Init, LandedWasTold
<1>2. Inv /\ [Next]_vars => Inv'
  BY TypeStep, QueueInvStep, WorkerInvStep, LandedWasToldStep
<1> DEFINE Step == \A k \in Keys :
             deliveries[k].status # "sent" /\ deliveries'[k].status = "sent"
               => deliveries'[k].text \subseteq told
<1>3. Inv /\ [Next]_vars => Step \/ UNCHANGED vars
  <2> SUFFICES ASSUME Inv, Next, NEW k \in Keys,
                      deliveries[k].status # "sent", deliveries'[k].status = "sent"
               PROVE  deliveries'[k].text \subseteq told
    OBVIOUS
  <2> DEFINE Settles(d, entry) == /\ pc[d] = "marking" /\ InHand(d, entry) /\ entry.key = k
                                 /\ deliveries'[k] = MarkedRow(entry, reply[d])
  <2>0. PICK d \in Dispatchers : \E entry \in batch[d] : Settles(d, entry)
    BY SettledByMark
  <2>1. PICK entry \in batch[d] : Settles(d, entry)
    BY <2>0
  <2>2. reply[d].kind = "ok"
    BY <2>1, MarkRow
  <2>3. reply[d].landed
    BY <2>1, <2>2, OkLanded DEF QueueInv, CycleShape
  <2>4. entry.text \subseteq told
    BY <2>1, <2>3 DEF LandedWasTold
  <2>5. deliveries[k].text = entry.text /\ deliveries[k] \in Rows
    BY <2>1 DEF WorkerInv, NothingStale, TypeOK
  <2>6. deliveries'[k].text = deliveries[k].text
    BY <2>1, <2>5 DEF MarkedRow, Rows
  <2> QED
    BY <2>4, <2>5, <2>6
<1> HIDE DEF Step, Inv
<1>4. Spec => [][Step]_vars
  BY <1>1, <1>2, <1>3, PTL DEF Spec
<1> QED
  BY <1>4 DEF SentNamesItsAlerts, Step

-----------------------------------------------------------------------------
(* The queue implements DeliveryContract.                                  *)

phaseBar == [k \in Keys |-> Phase(deliveries[k].status)]

LEMMA ContractInit == Init => Contract!Init
  BY DEF Init, Contract!Init, NoRow, Phase

\* A step that changes the phase of at most one delivery k.
LEMMA PhaseOfOne ==
    ASSUME TypeOK, TypeOK', NEW k \in Keys,
           \A j \in Keys : j # k => deliveries'[j].status = deliveries[j].status
    PROVE  phaseBar' = [phaseBar EXCEPT ![k] = Phase(deliveries'[k].status)]
  BY DEF phaseBar, Phase

LEMMA ContractSame ==
    ASSUME \A k \in Keys : deliveries'[k].status = deliveries[k].status,
           accepted' = accepted
    PROVE  UNCHANGED Contract!vars
  BY DEF Contract!vars, Phase

LEMMA ContractQueueIncident ==
    ASSUME TypeOK, TypeOK', NEW d \in Dispatchers, QueueIncident(d)
    PROVE  Contract!Next \/ UNCHANGED Contract!vars
<1>1. PICK i \in todo[d] : deliveries' = Upsert(DedupeKey(i), i)
  BY DEF QueueIncident
<1>2. accepted' = accepted
  BY DEF QueueIncident, historyVars
<1> DEFINE k == DedupeKey(i)
<1> HIDE DEF k
<1>3. deliveries' = Upsert(k, i)
  BY <1>1 DEF k
<1>4. CASE k \in Keys /\ deliveries[k].status = "absent"
  <2>1. \A j \in Keys : j # k => deliveries'[j].status = deliveries[j].status
    BY <1>3, <1>4, UpsertRows
  <2>2. deliveries'[k].status = "pending"
    BY <1>3, <1>4 DEF Upsert, NoRow, TypeOK
  <2>3. phaseBar' = [phaseBar EXCEPT ![k] = "owed"]
    BY <1>4, <2>1, <2>2, PhaseOfOne DEF Phase
  <2>4. phaseBar[k] = "absent"
    BY <1>4 DEF phaseBar, Phase
  <2>5. Contract!Queue(k)
    BY <1>2, <2>3, <2>4 DEF Contract!Queue, phaseBar
  <2> QED
    BY <1>4, <2>5 DEF Contract!Next
<1>5. CASE k \in Keys /\ deliveries[k].status # "absent"
  <2>1. \A j \in Keys : deliveries'[j].status = deliveries[j].status
    BY <1>3, <1>5, UpsertRows
  <2> QED
    BY <1>2, <2>1, ContractSame
<1>6. CASE k \notin Keys
  <2>1. deliveries' = deliveries
    BY <1>3, <1>6 DEF Upsert, TypeOK
  <2> QED
    BY <1>2, <2>1, ContractSame
<1> QED
  BY <1>4, <1>5, <1>6

LEMMA ContractSend ==
    ASSUME TypeOK, TypeOK', QueueInv, WorkerInv, NEW d \in Dispatchers, Send(d)
    PROVE  Contract!Next \/ UNCHANGED Contract!vars
<1>1. PICK entry \in batch[d], r \in SenderReplies :
         accepted' = IF r.landed THEN [accepted EXCEPT ![entry.key] = @ + 1] ELSE accepted
  BY DEF Send
<1>2. UNCHANGED deliveries
  BY DEF Send
<1>3. CASE ~r.landed
  BY <1>1, <1>2, <1>3, ContractSame
<1>4. CASE r.landed
  <2>1. entry.key \in Keys /\ deliveries[entry.key].status \in {"pending", "retry"}
    BY DEF TypeOK, Entries, WorkerInv, NothingStale
  <2>2. phaseBar[entry.key] = "owed" /\ phaseBar' = phaseBar
    BY <1>2, <2>1 DEF phaseBar, Phase
  <2>3. Contract!Accept(entry.key)
    BY <1>1, <1>4, <2>2 DEF Contract!Accept, phaseBar
  <2> QED
    BY <2>1, <2>3 DEF Contract!Next
<1> QED
  BY <1>3, <1>4

LEMMA ContractMark ==
    ASSUME TypeOK, TypeOK', QueueInv, WorkerInv, NEW d \in Dispatchers, Mark(d)
    PROVE  Contract!Next \/ UNCHANGED Contract!vars
<1>1. PICK entry \in batch[d] :
         /\ InHand(d, entry)
         /\ deliveries' = [deliveries EXCEPT ![entry.key] = MarkedRow(entry, reply[d])]
  BY DEF Mark
<1>2. pc[d] = "marking" /\ accepted' = accepted
  BY DEF Mark
<1> DEFINE k == entry.key
<1>3. k \in Keys /\ \A j \in Keys : j # k => deliveries'[j].status = deliveries[j].status
  BY <1>1 DEF TypeOK, Entries
<1>4. /\ deliveries[k].status \in {"pending", "retry"}
      /\ MarkedRow(entry, reply[d]).status \in {"sent", "retry", "failed"}
      /\ MarkedRow(entry, reply[d]).status = "sent" => reply[d].kind = "ok"
  BY <1>1, <1>2, MarkRow
<1>5. /\ deliveries'[k].status \in {"sent", "retry", "failed"}
      /\ deliveries'[k].status = "sent" => reply[d].kind = "ok"
  BY <1>1, <1>3, <1>4 DEF TypeOK
<1>6. phaseBar[k] = "owed"
  BY <1>3, <1>4 DEF phaseBar, Phase
<1>7. phaseBar' = [phaseBar EXCEPT ![k] = Phase(deliveries'[k].status)]
  BY <1>3, PhaseOfOne
<1>8. deliveries'[k].status = "sent" => accepted[k] > 0
  <2>1. reply[d] \in SenderReplies
    BY <1>2 DEF QueueInv, CycleShape
  <2> QED
    BY <1>1, <1>5, <2>1, OkLanded DEF QueueInv, LandedWasAccepted
<1>9. CASE deliveries'[k].status = "sent"
  <2>1. Contract!Confirm(k)
    BY <1>2, <1>6, <1>7, <1>8, <1>9 DEF Contract!Confirm, phaseBar, Phase
  <2> QED
    BY <1>3, <2>1 DEF Contract!Next
<1>10. CASE deliveries'[k].status = "failed"
  <2>1. Contract!GiveUp(k)
    BY <1>2, <1>6, <1>7, <1>10 DEF Contract!GiveUp, phaseBar, Phase
  <2> QED
    BY <1>3, <2>1 DEF Contract!Next
<1>11. CASE deliveries'[k].status = "retry"
  <2>1. phaseBar' = phaseBar
    BY <1>6, <1>7, <1>11 DEF phaseBar, Phase
  <2> QED
    BY <1>2, <2>1 DEF Contract!vars, phaseBar
<1> QED
  BY <1>5, <1>9, <1>10, <1>11

LEMMA ContractRedrive ==
    ASSUME TypeOK, WorkerInv, NEW o \in Redrivers, RedriveApply(o)
    PROVE  Contract!Next
<1>1. picked[o] \subseteq Failed /\ picked[o] \in SUBSET Keys
  BY DEF WorkerInv, NothingStale, TypeOK
<1>2. accepted' = accepted
  BY DEF RedriveApply, historyVars
<1>3. \A k \in picked[o] : phaseBar[k] = "failed"
  BY <1>1 DEF phaseBar, Phase, Failed
<1>4. \A k \in Keys : deliveries'[k].status = IF k \in picked[o] THEN "pending"
                                              ELSE deliveries[k].status
  BY DEF RedriveApply, RedrivenRow, TypeOK, Rows
<1>5. phaseBar' = [k \in Keys |-> IF k \in picked[o] THEN "owed" ELSE phaseBar[k]]
  BY <1>4 DEF phaseBar, Phase
<1>6. Contract!Redrive(picked[o])
  BY <1>1, <1>2, <1>3, <1>5 DEF Contract!Redrive, phaseBar
<1> QED
  BY <1>1, <1>6 DEF Contract!Next

LEMMA ContractStep ==
    ASSUME TypeOK, TypeOK', QueueInv, WorkerInv, [Next]_vars
    PROVE  Contract!Next \/ UNCHANGED Contract!vars
<1>1. ASSUME NEW d \in Dispatchers, QueueIncident(d) \/ Send(d) \/ Mark(d)
      PROVE  Contract!Next \/ UNCHANGED Contract!vars
  BY <1>1, ContractQueueIncident, ContractSend, ContractMark
<1>2. ASSUME NEW o \in Redrivers, RedriveApply(o) PROVE Contract!Next
  BY <1>2, ContractRedrive
<1>3. CASE Tick
  <2>1. accepted' = accepted
    BY <1>3 DEF Tick, historyVars
  <2> QED
    BY <1>3, <2>1, TickRows, ContractSame
<1>4. CASE UNCHANGED <<deliveries, accepted>>
  BY <1>4, ContractSame
<1>5. \/ UNCHANGED <<deliveries, accepted>>
      \/ \E d \in Dispatchers : QueueIncident(d) \/ Send(d) \/ Mark(d)
      \/ \E o \in Redrivers : RedriveApply(o)
      \/ Tick
  BY DEF Next, CycleStep, StoreAlert, Triage, ToggleRule, ListIncidents, ListPending,
         FinishCycle, Crash, RedriveSelect, vars, historyVars
<1> QED
  BY <1>1, <1>2, <1>3, <1>4, <1>5

\* With one worker and one redrive at a time the queue implements its contract:
\* messages leave only for owed deliveries, "sent" is final and earned, and only
\* a redrive of failed deliveries makes one owed again.
THEOREM QueueImplementsContract == ASSUME OneWorker, OneRedrive PROVE Spec => Implements
<1>1. Init => TypeOK /\ QueueInv /\ WorkerInv
  BY TypeInit, QueueInvInit, WorkerInvInit
<1>2. TypeOK /\ QueueInv /\ WorkerInv /\ [Next]_vars => (TypeOK /\ QueueInv /\ WorkerInv)'
  BY TypeStep, QueueInvStep, WorkerInvStep
<1>3. TypeOK /\ TypeOK' /\ QueueInv /\ WorkerInv /\ [Next]_vars => [Contract!Next]_Contract!vars
  BY ContractStep
<1> QED
  BY <1>1, <1>2, <1>3, ContractInit, PTL DEF Spec, Implements, Contract!Spec
===============================================================================
