--------------------------- MODULE DeliveryContract ---------------------------
(***************************************************************************)
(* What the Telegram queue of the operator console promises for each of    *)
(* its deliveries, whoever works on it: once queued it is owed, it goes to *)
(* Telegram only while it is owed, it is shown as sent only if Telegram    *)
(* accepted it, a sent delivery is final, and a failed one is owed again   *)
(* only when an operator redrives it.                                      *)
(***************************************************************************)
EXTENDS Naturals

CONSTANT Keys

VARIABLES phase,     \* of each delivery, as an operator sees it
          accepted   \* messages Telegram accepted for it

vars == <<phase, accepted>>

Init == /\ phase = [k \in Keys |-> "absent"]
        /\ accepted = [k \in Keys |-> 0]

Queue(k) == /\ phase[k] = "absent"
            /\ phase' = [phase EXCEPT ![k] = "owed"]
            /\ UNCHANGED accepted

Accept(k) == /\ phase[k] = "owed"
             /\ accepted' = [accepted EXCEPT ![k] = @ + 1]
             /\ UNCHANGED phase

Confirm(k) == /\ phase[k] = "owed" /\ accepted[k] > 0
              /\ phase' = [phase EXCEPT ![k] = "sent"]
              /\ UNCHANGED accepted

GiveUp(k) == /\ phase[k] = "owed"
             /\ phase' = [phase EXCEPT ![k] = "failed"]
             /\ UNCHANGED accepted

Redrive(S) == /\ \A k \in S : phase[k] = "failed"
              /\ phase' = [k \in Keys |-> IF k \in S THEN "owed" ELSE phase[k]]
              /\ UNCHANGED accepted

Next == \/ \E k \in Keys : Queue(k) \/ Accept(k) \/ Confirm(k) \/ GiveUp(k)
        \/ \E S \in SUBSET Keys : Redrive(S)

Spec == Init /\ [][Next]_vars
===============================================================================
