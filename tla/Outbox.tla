------------------------------- MODULE Outbox -------------------------------
(***************************************************************************)
(* What the transactional Outbox promises its users (docs/events.md): an   *)
(* event is stored with the change it describes, is handed to the broker   *)
(* at least once, and is recorded as published only after the broker has   *)
(* it.  A row that no retry can publish is given up on and never reaches   *)
(* the broker as published.  Leases, batches, leaders and retries are      *)
(* invisible here; OutboxRelay is the implementation.                      *)
(***************************************************************************)
CONSTANTS
    Events,     \* event ids: one fresh uuid per stored event
    Invalid     \* events whose row fails check(): no retry can publish them

VARIABLES
    status,     \* [Events -> Status]
    broker      \* the events RabbitMQ has routed to a queue at least once

Status == {"absent", "undelivered", "published", "failed", "purged"}

outboxVars == <<status, broker>>

Init ==
    /\ status = [e \in Events |-> "absent"]
    /\ broker = {}

\* The transaction that changes a Message also stores its event.
Store(e) ==
    /\ status[e] = "absent"
    /\ status' = [status EXCEPT ![e] = "undelivered"]
    /\ UNCHANGED broker

\* Delivery may be repeated for as long as it is not recorded, and no longer.
Deliver(e) ==
    /\ e \notin Invalid
    /\ status[e] = "undelivered"
    /\ broker' = broker \cup {e}
    /\ UNCHANGED status

Record(e) ==
    /\ status[e] = "undelivered"
    /\ e \in broker
    /\ status' = [status EXCEPT ![e] = "published"]
    /\ UNCHANGED broker

GiveUp(e) ==
    /\ status[e] = "undelivered"
    /\ e \in Invalid
    /\ status' = [status EXCEPT ![e] = "failed"]
    /\ UNCHANGED broker

\* Retention deletes published rows, any number of them in one statement.
Purge(S) ==
    /\ \A e \in S : status[e] = "published"
    /\ status' = [e \in Events |-> IF e \in S THEN "purged" ELSE status[e]]
    /\ UNCHANGED broker

Next ==
    \/ \E e \in Events : Store(e) \/ Deliver(e) \/ Record(e) \/ GiveUp(e)
    \/ \E S \in SUBSET Events : Purge(S)

Spec == Init /\ [][Next]_outboxVars
=============================================================================
