------------------------ MODULE NotificationDelivery ------------------------
(***************************************************************************)
(* The Telegram queue of the operator console: the notification_deliveries *)
(* table (console/db.py), the maintenance cycle that fills and drains it   *)
(* (console/notifications.py, notification_runtime.py) and the operator's  *)
(* notify-redrive.  A dispatcher is any process that runs maintenance      *)
(* cycles: the supervised notify-worker, or a notify-run-once started by   *)
(* hand.  All of them share the database and nothing else, and each        *)
(* statement on it is a transaction of its own; so is each step here.      *)
(*                                                                         *)
(* Time is relative: "wait" is what is left until next_attempt_at, 0 when  *)
(* it is NULL or past.  An alert is the number of its row; alerts are      *)
(* stored in the order of their event times.                               *)
(***************************************************************************)
EXTENDS Naturals, FiniteSets

CONSTANTS
    MaxAlerts,      \* BOUND: alerts that may be stored
    Groups,         \* (src, dst, protocol, minute) of an incident
    GroupOf,        \* the group of each alert
    Flows,          \* (fingerprint, minute) of an alert on its own
    FlowOf,         \* the flow of each alert
    Rules,          \* suppression rules, each the set of alerts it matches
    Dispatchers,    \* processes that run maintenance cycles
    Redrivers,      \* processes that run notify-redrive
    MaxAttempts, BaseBackoff, MaxBackoff, RetryAfters,
    WindowFactor, QueueLimit, DispatchLimit, RedriveLimit,
    MaxCrashes,     \* BOUND: dispatcher crashes
    MaxRedrives     \* BOUND: redrives that found a failed row

Alerts == 1..MaxAlerts
Keys == ({"incident"} \X Groups) \cup ({"flow"} \X Flows)

ASSUME DeliveryAssumption ==
    /\ MaxAlerts \in Nat
    /\ GroupOf \in [Alerts -> Groups]
    /\ FlowOf \in [Alerts -> Flows]
    /\ Rules \subseteq SUBSET Alerts
    /\ IsFiniteSet(Groups) /\ IsFiniteSet(Flows)
    /\ MaxAttempts \in Nat \ {0}
    /\ BaseBackoff \in Nat \ {0} /\ MaxBackoff \in Nat \ {0}
    /\ RetryAfters \subseteq Nat \ {0}
    /\ {WindowFactor, QueueLimit, DispatchLimit, RedriveLimit} \subseteq Nat \ {0}
    /\ MaxCrashes \in Nat /\ MaxRedrives \in Nat

VARIABLES
    alerts,      \* rows of the alerts table
    closed,      \* alerts whose triage_status is resolved or false_positive
    active,      \* suppression rules in force
    deliveries,  \* notification_deliveries, by (channel, target, dedupe_key)
    pc,          \* where each dispatcher is in its cycle
    todo,        \* incidents a dispatcher has listed and not yet queued
    batch,       \* deliveries a dispatcher has listed and not yet attempted
    reply,       \* what the sender returned for the delivery in hand
    picked,      \* ids a redriver has selected and not yet reset
    crashes, redrives,
    accepted,    \* history: messages Telegram accepted for each key
    blind,       \* history: of those, the ones no "sent" mark recorded
    told         \* history: alerts named in an accepted message

consoleVars == <<alerts, closed, active>>
localVars == <<pc, todo, batch, reply>>
historyVars == <<accepted, blind, told>>
vars == <<consoleVars, deliveries, localVars, picked, crashes, redrives, historyVars>>

Statuses == {"absent", "pending", "retry", "sent", "failed"}
Rows == [status : Statuses, id : Nat, attempts : Nat, wait : Nat,
         text : SUBSET Alerts, messageId : BOOLEAN]
Entries == [key : Keys, id : Nat, attempts : Nat, text : SUBSET Alerts]
Replies == [kind : {"none", "ok", "retryable", "rejected"},
            after : Nat, landed : BOOLEAN]

NoReply == [kind |-> "none", after |-> 0, landed |-> FALSE]
NoRow == [status |-> "absent", id |-> 0, attempts |-> 0, wait |-> 0,
          text |-> {}, messageId |-> FALSE]

\* Every answer of the sender.  A rate limit carries retry_after and delivers
\* nothing; an answer that is lost or unreadable leaves the message delivered.
SenderReplies ==
    {[kind |-> "ok", after |-> 0, landed |-> TRUE],
     [kind |-> "rejected", after |-> 0, landed |-> FALSE]}
    \cup [kind : {"retryable"}, after : {0}, landed : BOOLEAN]
    \cup [kind : {"retryable"}, after : RetryAfters, landed : {FALSE}]

-----------------------------------------------------------------------------
(* Reading the alerts table: list_alert_incidents_for_notification.        *)

Suppressed(a) == \E rule \in active : a \in rule

\* The SQL LIMIT comes before the suppression and triage filters.
AlertWindow ==
    {a \in alerts : Cardinality({b \in alerts : b > a}) < WindowFactor * QueueLimit}

Listable == {a \in AlertWindow : ~Suppressed(a) /\ a \notin closed}

Incidents == {{a \in Listable : GroupOf[a] = g} : g \in Groups} \ {{}}

Latest(incident) == CHOOSE a \in incident : \A b \in incident : b <= a

NotifiableIncidents ==
    {i \in Incidents :
        Cardinality({j \in Incidents : Latest(j) > Latest(i)}) < QueueLimit}

DedupeKey(incident) ==
    IF Cardinality(incident) > 1
    THEN <<"incident", GroupOf[Latest(incident)]>>
    ELSE <<"flow", FlowOf[Latest(incident)]>>

-----------------------------------------------------------------------------
(* The notification_deliveries table.                                      *)

Stored == {k \in Keys : deliveries[k].status # "absent"}
\* SLIP: redrive selects every row that is not pending.
Failed_NotPending == {k \in Keys : deliveries[k].status \in {"retry", "failed", "sent"}}
Failed == {k \in Keys : deliveries[k].status = "failed"}
Due == {k \in Keys : /\ deliveries[k].status \in {"pending", "retry"}
                     /\ deliveries[k].wait = 0}

\* SLIP: the conflict clause also resets the status.
Upsert_Reopens(k, text) ==
    [deliveries EXCEPT ![k] = [NoRow EXCEPT !.status = "pending", !.text = text,
                                            !.id = Cardinality(Stored) + 1]]

\* save_notification_delivery: a conflict refreshes the payload and no more.
Upsert(k, text) ==
    IF deliveries[k].status = "absent"
    THEN [deliveries EXCEPT ![k] = [NoRow EXCEPT !.status = "pending",
                                                !.id = Cardinality(Stored) + 1,
                                                !.text = text]]
    ELSE [deliveries EXCEPT ![k].text = text]

\* SLIP: the message names only the newest alert of its incident.
PendingBatch_NewestOnly ==
    {[key |-> k, id |-> deliveries[k].id, attempts |-> deliveries[k].attempts,
      text |-> {Latest(deliveries[k].text)}] : k \in Due}

\* list_pending_notification_deliveries: the oldest DispatchLimit due rows.
PendingBatch ==
    LET due == {k \in Due :
                  Cardinality({j \in Due : deliveries[j].id < deliveries[k].id})
                     < DispatchLimit}
    IN  {[key |-> k, id |-> deliveries[k].id,
          attempts |-> deliveries[k].attempts, text |-> deliveries[k].text] : k \in due}

Lesser(x, y) == IF x < y THEN x ELSE y

\* _next_attempt_ts
Delay(attempt, after) ==
    IF after > 0 THEN after ELSE Lesser(BaseBackoff * 2^(attempt - 1), MaxBackoff)

\* SLIP: only a rejection counts as a failure, so exhausted retries end as sent.
MarkedRow_SwallowsErrors(entry, r) ==
    [deliveries[entry.key] EXCEPT !.status = IF r.kind = "rejected" THEN "failed" ELSE "sent",
                                  !.attempts = @ + 1]

\* SLIP: only errors that carry retry_after are retried.
MarkedRow_NeedsRetryAfter(entry, r) ==
    LET again == r.after > 0 /\ entry.attempts + 1 < MaxAttempts
    IN  [deliveries[entry.key] EXCEPT
            !.status = IF r.kind = "ok" THEN "sent" ELSE IF again THEN "retry" ELSE "failed",
            !.attempts = @ + 1, !.messageId = @ \/ r.kind = "ok"]

\* SLIP: attempts are not counted.
MarkedRow_Uncounted(entry, r) ==
    [deliveries[entry.key] EXCEPT
        !.status = IF r.kind = "ok" THEN "sent"
                   ELSE IF r.kind = "retryable" THEN "retry" ELSE "failed"]

\* mark_notification_attempt for a row that was listed as entry: the decision
\* uses the listed attempt count, the UPDATE the one now in the database.
MarkedRow(entry, r) ==
    LET row == deliveries[entry.key]
        attempt == entry.attempts + 1
        again == r.kind = "retryable" /\ attempt < MaxAttempts
    IN  [row EXCEPT !.status = IF r.kind = "ok" THEN "sent"
                               ELSE IF again THEN "retry" ELSE "failed",
                    !.attempts = row.attempts + 1,
                    !.wait = IF again THEN Delay(attempt, r.after) ELSE 0,
                    !.messageId = row.messageId \/ r.kind = "ok"]

RedrivenRow(k) == [deliveries[k] EXCEPT !.status = "pending", !.attempts = 0,
                                        !.wait = 0, !.messageId = FALSE]

\* The delivery a dispatcher is working on: the one of least id in its batch.
InHand(d, entry) == /\ entry \in batch[d]
                    /\ \A e \in batch[d] : entry.id <= e.id

-----------------------------------------------------------------------------
Init ==
    /\ alerts = {} /\ closed = {} /\ active = {}
    /\ deliveries = [k \in Keys |-> NoRow]
    /\ pc = [d \in Dispatchers |-> "idle"]
    /\ todo = [d \in Dispatchers |-> {}]
    /\ batch = [d \in Dispatchers |-> {}]
    /\ reply = [d \in Dispatchers |-> NoReply]
    /\ picked = [o \in Redrivers |-> {}]
    /\ crashes = 0 /\ redrives = 0
    /\ accepted = [k \in Keys |-> 0]
    /\ blind = [k \in Keys |-> 0]
    /\ told = {}

(* The rest of the console: ingest stores alerts, operators triage them    *)
(* and switch suppression rules on and off.                                *)

StoreAlert ==
    /\ Cardinality(alerts) < MaxAlerts
    /\ alerts' = alerts \cup {Cardinality(alerts) + 1}
    /\ UNCHANGED <<closed, active, deliveries, localVars, picked, crashes, redrives,
                   historyVars>>

Triage(a) ==
    /\ a \in alerts
    /\ closed' = IF a \in closed THEN closed \ {a} ELSE closed \cup {a}
    /\ UNCHANGED <<alerts, active, deliveries, localVars, picked, crashes, redrives,
                   historyVars>>

ToggleRule(rule) ==
    /\ active' = IF rule \in active THEN active \ {rule} ELSE active \cup {rule}
    /\ UNCHANGED <<alerts, closed, deliveries, localVars, picked, crashes, redrives,
                   historyVars>>

(* A maintenance cycle of dispatcher d.                                    *)

ListIncidents(d) ==
    /\ pc[d] = "idle"
    /\ todo' = [todo EXCEPT ![d] = NotifiableIncidents]
    /\ pc' = [pc EXCEPT ![d] = "queueing"]
    /\ UNCHANGED <<consoleVars, deliveries, batch, reply, picked, crashes, redrives,
                   historyVars>>

QueueIncident(d) ==
    /\ pc[d] = "queueing"
    /\ \E i \in todo[d] :
         /\ \A j \in todo[d] : Latest(j) <= Latest(i)
         /\ deliveries' = Upsert(DedupeKey(i), i)
         /\ todo' = [todo EXCEPT ![d] = @ \ {i}]
    /\ UNCHANGED <<consoleVars, pc, batch, reply, picked, crashes, redrives, historyVars>>

ListPending(d) ==
    /\ pc[d] = "queueing" /\ todo[d] = {}
    /\ batch' = [batch EXCEPT ![d] = PendingBatch]
    /\ pc' = [pc EXCEPT ![d] = "dispatching"]
    /\ UNCHANGED <<consoleVars, deliveries, todo, reply, picked, crashes, redrives,
                   historyVars>>

Send(d) ==
    /\ pc[d] = "dispatching"
    /\ \E entry \in batch[d], r \in SenderReplies :
         /\ InHand(d, entry)
         /\ reply' = [reply EXCEPT ![d] = r]
         /\ accepted' = IF r.landed THEN [accepted EXCEPT ![entry.key] = @ + 1]
                                    ELSE accepted
         /\ told' = IF r.landed THEN told \cup entry.text ELSE told
    /\ pc' = [pc EXCEPT ![d] = "marking"]
    /\ UNCHANGED <<consoleVars, deliveries, todo, batch, picked, crashes, redrives, blind>>

Mark(d) ==
    /\ pc[d] = "marking"
    /\ \E entry \in batch[d] :
         /\ InHand(d, entry)
         /\ deliveries' = [deliveries EXCEPT ![entry.key] = MarkedRow(entry, reply[d])]
         /\ batch' = [batch EXCEPT ![d] = @ \ {entry}]
         /\ blind' = IF reply[d].landed /\ reply[d].kind # "ok"
                     THEN [blind EXCEPT ![entry.key] = @ + 1] ELSE blind
    /\ reply' = [reply EXCEPT ![d] = NoReply]
    /\ pc' = [pc EXCEPT ![d] = "dispatching"]
    /\ UNCHANGED <<consoleVars, todo, picked, crashes, redrives, accepted, told>>

FinishCycle(d) ==
    /\ pc[d] = "dispatching" /\ batch[d] = {}
    /\ pc' = [pc EXCEPT ![d] = "idle"]
    /\ UNCHANGED <<consoleVars, deliveries, todo, batch, reply, picked, crashes, redrives,
                   historyVars>>

\* The process dies, or a locked database raises out of the cycle; the
\* supervisor starts it again.  What was sent and not marked stays unmarked.
Crash(d) ==
    /\ crashes < MaxCrashes /\ pc[d] # "idle"
    /\ crashes' = crashes + 1
    /\ pc' = [pc EXCEPT ![d] = "idle"]
    /\ todo' = [todo EXCEPT ![d] = {}]
    /\ batch' = [batch EXCEPT ![d] = {}]
    /\ reply' = [reply EXCEPT ![d] = NoReply]
    /\ IF reply[d].landed
       THEN \E entry \in batch[d] :
              /\ InHand(d, entry)
              /\ blind' = [blind EXCEPT ![entry.key] = @ + 1]
       ELSE blind' = blind
    /\ UNCHANGED <<consoleVars, deliveries, picked, redrives, accepted, told>>

(* notify-redrive: SELECT the failed ids, then UPDATE by id.               *)

RedriveSelect(o) ==
    /\ picked[o] = {} /\ redrives < MaxRedrives
    /\ \E S \in SUBSET Failed :
         /\ S # {}
         /\ Cardinality(S) = Lesser(RedriveLimit, Cardinality(Failed))
         /\ picked' = [picked EXCEPT ![o] = S]
    /\ redrives' = redrives + 1
    /\ UNCHANGED <<consoleVars, deliveries, localVars, crashes, historyVars>>

RedriveApply(o) ==
    /\ picked[o] # {}
    /\ deliveries' = [k \in Keys |-> IF k \in picked[o] THEN RedrivenRow(k)
                                                        ELSE deliveries[k]]
    /\ picked' = [picked EXCEPT ![o] = {}]
    /\ UNCHANGED <<consoleVars, localVars, crashes, redrives, historyVars>>

Tick ==
    /\ \E k \in Keys : deliveries[k].wait > 0
    /\ deliveries' = [k \in Keys |-> IF deliveries[k].wait > 0
                                     THEN [deliveries[k] EXCEPT !.wait = @ - 1]
                                     ELSE deliveries[k]]
    /\ UNCHANGED <<consoleVars, localVars, picked, crashes, redrives, historyVars>>

CycleStep(d) == \/ ListIncidents(d) \/ QueueIncident(d) \/ ListPending(d)
                \/ Send(d) \/ Mark(d) \/ FinishCycle(d)

Next ==
    \/ StoreAlert
    \/ \E a \in Alerts : Triage(a)
    \/ \E rule \in Rules : ToggleRule(rule)
    \/ \E d \in Dispatchers : CycleStep(d) \/ Crash(d)
    \/ \E o \in Redrivers : RedriveSelect(o) \/ RedriveApply(o)
    \/ Tick

Spec == Init /\ [][Next]_vars

\* The worker loops for ever and its supervisor restarts it; clocks advance.
\* Operators promise nothing, except that a redrive once begun completes.
Fairness == /\ \A d \in Dispatchers : WF_vars(CycleStep(d))
            /\ \A o \in Redrivers : WF_vars(RedriveApply(o))
            /\ WF_vars(Tick)

FairSpec == Spec /\ Fairness

-----------------------------------------------------------------------------
TypeOK ==
    /\ alerts \subseteq Alerts /\ closed \subseteq alerts /\ active \subseteq Rules
    /\ deliveries \in [Keys -> Rows]
    /\ pc \in [Dispatchers -> {"idle", "queueing", "dispatching", "marking"}]
    /\ todo \in [Dispatchers -> SUBSET (SUBSET Alerts)]
    /\ batch \in [Dispatchers -> SUBSET Entries]
    /\ reply \in [Dispatchers -> Replies]
    /\ picked \in [Redrivers -> SUBSET Keys]
    /\ crashes \in Nat /\ redrives \in Nat
    /\ accepted \in [Keys -> Nat] /\ blind \in [Keys -> Nat]
    /\ told \subseteq Alerts

(* The inductive invariants behind the theorems.                            *)

\* Ids number the stored rows, so no two rows share one.
RowIds ==
    /\ \A k \in Stored : deliveries[k].id <= Cardinality(Stored)
    /\ \A j, k \in Stored : deliveries[j].id = deliveries[k].id => j = k

\* A batch holds a stored row at most once, under that row's id, and a redrive
\* selects stored rows.
HeldRows ==
    /\ \A d \in Dispatchers : \A e \in batch[d] :
         /\ e.key \in Stored /\ e.id = deliveries[e.key].id
         /\ \A f \in batch[d] : f.key = e.key => f = e
    /\ \A o \in Redrivers : picked[o] \subseteq Stored

\* What a dispatcher holds at each point of its cycle.
CycleShape ==
    \A d \in Dispatchers :
        /\ pc[d] \in {"idle", "queueing"} => batch[d] = {}
        /\ pc[d] # "marking" => reply[d] = NoReply
        /\ pc[d] = "marking" => /\ reply[d] \in SenderReplies
                                /\ \E e \in batch[d] : InHand(d, e)

\* An answer that stands for an accepted message has one behind it.
LandedWasAccepted ==
    \A d \in Dispatchers : \A e \in batch[d] :
        reply[d].landed /\ InHand(d, e) => accepted[e.key] > 0

\* Safety at any number of dispatchers: a delivery shown as sent, or carrying
\* a Telegram message id, did reach Telegram (mark_notification_attempt is only
\* told "sent" after the sender returned).
SentWasAccepted ==
    \A k \in Keys : deliveries[k].status = "sent" \/ deliveries[k].messageId
                       => accepted[k] > 0

\* All of it, for any number of dispatchers and redrives: the queue never
\* settles a delivery on the strength of another one's answer.
QueueInv == RowIds /\ HeldRows /\ CycleShape /\ LandedWasAccepted /\ SentWasAccepted

\* With one worker and one redrive at a time, Telegram shows a message twice
\* only where an answer was lost or the worker died between the send and its
\* mark: dedupe keys, retries, redrives and refreshed payloads add none.
DuplicatesAreBlind == \A k \in Keys : accepted[k] <= blind[k] + 1

\* With one worker, the attempt counter agrees with the status: dispatch's
\* comparison of a listed attempt count with max_attempts is never out of date.
AttemptsMatchStatus ==
    \A k \in Keys :
        LET row == deliveries[k]
        IN  /\ row.status \in {"absent", "pending"} => row.attempts = 0
            /\ row.status = "retry" => row.attempts \in 1..(MaxAttempts - 1)
            /\ row.status \in {"sent", "failed"} => row.attempts \in 1..MaxAttempts
            /\ row.wait > 0 => row.status = "retry"

\* With one worker and one redrive, what was listed is still so when used: a
\* listed delivery is owed and unchanged, a selected one is still failed.
NothingStale ==
    /\ \A d \in Dispatchers : \A e \in batch[d] :
         /\ deliveries[e.key].status \in {"pending", "retry"}
         /\ deliveries[e.key].attempts = e.attempts
         /\ deliveries[e.key].text = e.text
    /\ \A o \in Redrivers : picked[o] \subseteq Failed

\* With one worker, every accepted message is recorded, unrecorded for good,
\* or being recorded.
Recording(k) == \E d \in Dispatchers : \E e \in batch[d] :
                    InHand(d, e) /\ e.key = k /\ reply[d].landed
AcceptedAccounted ==
    \A k \in Keys : accepted[k] = blind[k]
                        + (IF deliveries[k].status = "sent" THEN 1 ELSE 0)
                        + (IF Recording(k) THEN 1 ELSE 0)

\* Only notify-redrive takes a delivery out of "sent" or "failed", and it takes
\* out the failed ones only: queueing again does not reopen a terminal row.
TerminalUntilRedriven ==
    [][\A k \in Keys : LET old == deliveries[k].status
                           new == deliveries'[k].status
                       IN  /\ old = "sent" => new = "sent"
                           /\ old = "failed" /\ new # "failed"
                                => \E o \in Redrivers : k \in picked[o] /\ new = "pending"]_vars

\* A delivery fails because Telegram rejected it or its attempts are used up,
\* never with retries left (the two error branches of dispatch).
FailsForCause ==
    [][\A k \in Keys : deliveries[k].status # "failed" /\ deliveries'[k].status = "failed"
            => \/ deliveries'[k].attempts = MaxAttempts
               \/ \E d \in Dispatchers : reply[d].kind = "rejected"]_vars

\* When a delivery is marked sent, every alert its payload names has been
\* told: the text that went out is no older than the row it settles.
SentNamesItsAlerts ==
    [][\A k \in Keys : deliveries[k].status # "sent" /\ deliveries'[k].status = "sent"
            => deliveries'[k].text \subseteq told]_vars

\* Every queued delivery is in the end sent or failed, however many are due,
\* whatever the sender answers and with workers that crash and restart.
Settled ==
    \A k \in Keys : deliveries[k].status \in {"pending", "retry"}
                       ~> deliveries[k].status \in {"sent", "failed"}

\* An alert that stays listable is in the end named by a settled delivery:
\* the cycle's snapshot, grouping and upserts lose no alert.
OpenAlertsSettle ==
    \A a \in Alerts :
        <>[](a \in Listable) => <>(\E k \in Keys : /\ a \in deliveries[k].text
                                                   /\ deliveries[k].status \in {"sent", "failed"})

\* Nothing that enters the queue, and no alert that stays open, waits for ever.
EverythingSettles == Settled /\ OpenAlertsSettle

\* The queue as its users see it; see DeliveryContract.
Phase(status) == IF status \in {"pending", "retry"} THEN "owed" ELSE status

Contract == INSTANCE DeliveryContract
              WITH phase <- [k \in Keys |-> Phase(deliveries[k].status)]

Implements == Contract!Spec
=============================================================================
