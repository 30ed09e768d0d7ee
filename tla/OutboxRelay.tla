----------------------------- MODULE OutboxRelay ----------------------------
(***************************************************************************)
(* The leader-only relay that moves Outbox rows to RabbitMQ                *)
(* (internal/outbox/relay.go) over the email.outbox table                  *)
(* (internal/store/postgres/outbox_store.go), with several instances, the  *)
(* election that makes one of them lead (infra/leader/leader.go) and the   *)
(* faults the code handles: database calls that fail with or without       *)
(* effect, publishes that fail with or without delivery, terms that end in *)
(* the middle of a batch, a leader that has lost the key without noticing, *)
(* and processes that die.                                                 *)
(*                                                                         *)
(* Time is kept as countdowns, so that no clock grows: lease is the time   *)
(* left until locked_until, dueIn until next_attempt_at, deadline until    *)
(* the local deadline of a batch.  Tick lets one unit pass for everybody.  *)
(* A row's attempts and last_error, which no code path reads, and the      *)
(* order of the rows of a batch, which no consumer may rely on, are left   *)
(* out: a claim takes any due rows and publishes them in any order.        *)
(***************************************************************************)
EXTENDS Integers, FiniteSets

CONSTANTS
    Events,         \* event ids
    Invalid,        \* the events whose row check() rejects
    Instances,      \* email-service processes; a restart is a new instance
    NoInstance,     \* locked_by IS NULL, or a free election key
    NoEvent,        \* no publish in progress
    BatchSize,      \* outbox.batch_size
    LeaseDuration,  \* outbox.lease_duration
    MaxPublish,     \* maxPublishDuration(): twice outbox.publish_timeout
    RetryInitial,   \* outbox.retry_initial_interval
    RetryMax,       \* outbox.retry_max_interval
    MaxFaults       \* bound: how many faults the environment may inject

\* OutboxConfig.validate: the lease covers at least two publishes.
ASSUME ConfigAssumption ==
    /\ BatchSize \in Nat \ {0}
    /\ MaxPublish \in Nat \ {0}
    /\ LeaseDuration \in Nat /\ LeaseDuration >= 2 * MaxPublish
    /\ RetryInitial \in Nat \ {0}
    /\ RetryMax \in Nat /\ RetryMax >= RetryInitial

ASSUME ModelAssumption ==
    /\ Invalid \subseteq Events
    /\ NoInstance \notin Instances
    /\ NoEvent \notin Events
    /\ MaxFaults \in Nat

VARIABLES
    \* the email.outbox table
    state, lockedBy, lease, dueIn,
    \* the fields of term, and the local variables of cycle and publish
    pc, live, recovered, declared, backoff, batch, current, deadline, elapsed, delay,
    \* the environment
    leader, broker, faults,
    \* history: rows leased by a claim whose answer was lost
    orphaned

rowVars  == <<state, lockedBy, lease, dueIn>>
termVars == <<recovered, declared, backoff>>
loopVars == <<batch, current, deadline, elapsed, delay>>
envVars  == <<leader, broker>>
vars     == <<rowVars, pc, live, termVars, loopVars, envVars, faults, orphaned>>

RowState == {"absent", "pending", "processing", "published", "failed", "purged"}
Step     == {"idle", "recover", "declare", "claim", "publish", "sending", "mark",
             "release", "sleep", "crashed"}

\* A database call succeeds, fails without effect, or takes effect and loses
\* its answer; a publish likewise is confirmed, lost, or routed unconfirmed.
Outcome == {"ok", "failed", "lost"}

TypeOK ==
    /\ state \in [Events -> RowState]
    /\ lockedBy \in [Events -> Instances \cup {NoInstance}]
    /\ lease \in [Events -> -1 .. LeaseDuration]
    /\ dueIn \in [Events -> 0 .. RetryMax]
    /\ pc \in [Instances -> Step]
    /\ live \in [Instances -> BOOLEAN]
    /\ recovered \in [Instances -> BOOLEAN]
    /\ declared \in [Instances -> BOOLEAN]
    /\ backoff \in [Instances -> 0 .. RetryMax]
    /\ batch \in [Instances -> SUBSET Events]
    /\ current \in [Instances -> Events \cup {NoEvent}]
    /\ deadline \in [Instances -> -1 .. LeaseDuration]
    /\ elapsed \in [Instances -> 0 .. MaxPublish]
    /\ delay \in [Instances -> 0 .. RetryMax]
    /\ leader \in Instances \cup {NoInstance}
    /\ broker \in SUBSET Events
    /\ faults \in 0 .. MaxFaults
    /\ orphaned \in SUBSET Events

Init ==
    /\ state = [e \in Events |-> "absent"]
    /\ lockedBy = [e \in Events |-> NoInstance]
    /\ lease = [e \in Events |-> -1]
    /\ dueIn = [e \in Events |-> 0]
    /\ pc = [r \in Instances |-> "idle"]
    /\ live = [r \in Instances |-> FALSE]
    /\ recovered = [r \in Instances |-> FALSE]
    /\ declared = [r \in Instances |-> FALSE]
    /\ backoff = [r \in Instances |-> 0]
    /\ batch = [r \in Instances |-> {}]
    /\ current = [r \in Instances |-> NoEvent]
    /\ deadline = [r \in Instances |-> -1]
    /\ elapsed = [r \in Instances |-> 0]
    /\ delay = [r \in Instances |-> 0]
    /\ leader = NoInstance
    /\ broker = {}
    /\ faults = 0
    /\ orphaned = {}
-----------------------------------------------------------------------------
(* Faults and the shared backoff.                                          *)

SpendFault ==
    /\ faults < MaxFaults
    /\ faults' = faults + 1

\* A call under the term's context fails by a fault, or because the term ended.
Call(r, o) == IF o = "ok" \/ ~live[r] THEN UNCHANGED faults ELSE SpendFault

\* pause(): the next backoff, doubled between the two configured intervals.
Grow(b) ==
    IF 2 * b < RetryInitial THEN RetryInitial
    ELSE IF 2 * b > RetryMax THEN RetryMax ELSE 2 * b

\* What pause() returns and leaves in backoff; an ended term does not back off.
Pause(r)   == IF live[r] THEN Grow(backoff[r]) ELSE 0
Backoff(r) == [backoff EXCEPT ![r] = IF live[r] THEN Grow(backoff[r]) ELSE backoff[r]]
-----------------------------------------------------------------------------
(* Statements on email.outbox.                                             *)

Held(r, e) == state[e] = "processing" /\ lockedBy[e] = r

\* Rows S go back to pending; any lease they had is gone.
FreeRows(S) ==
    /\ state' = [e \in Events |-> IF e \in S THEN "pending" ELSE state[e]]
    /\ lockedBy' = [e \in Events |-> IF e \in S THEN NoInstance ELSE lockedBy[e]]
    /\ lease' = [e \in Events |-> IF e \in S THEN -1 ELSE lease[e]]
    /\ orphaned' = orphaned \ S

\* Bugs: only expired leases; only own leases; rows of any state.
RecoverExpired(r) == {e \in Events : state[e] = "processing" /\ lease[e] < 0}
RecoverOwn(r)     == {e \in Events : state[e] = "processing" /\ ~recovered[r] /\ lockedBy[e] = r}
RecoverAny(r)     == {e \in Events : state[e] # "absent" /\ lease[e] < 0}

Recoverable(r) ==
    {e \in Events : /\ state[e] = "processing"
                    /\ \/ lease[e] < 0
                       \/ ~recovered[r] /\ lockedBy[e] = r}

Due == {e \in Events : state[e] = "pending" /\ dueIn[e] = 0}

\* LIMIT: as many of the due rows as a batch holds.
Claimable ==
    {S \in SUBSET Due : \/ S = Due /\ Cardinality(S) <= BatchSize
                        \/ Cardinality(S) = BatchSize}
-----------------------------------------------------------------------------
(* The writer of the Outbox: one row per event, inside its transaction.    *)

AppendEvent(e) ==
    /\ state[e] = "absent"
    /\ state' = [state EXCEPT ![e] = "pending"]
    /\ UNCHANGED <<lockedBy, lease, dueIn, pc, live, termVars, loopVars, envVars, faults, orphaned>>
-----------------------------------------------------------------------------
(* term.cycle.                                                             *)

\* The batch deadline is taken on the local clock before the claim is sent.
StartClaim(r) ==
    /\ pc' = [pc EXCEPT ![r] = "claim"]
    /\ deadline' = [deadline EXCEPT ![r] = LeaseDuration]

PauseCycle(r) ==
    /\ pc' = [pc EXCEPT ![r] = "sleep"]
    /\ backoff' = Backoff(r)
    /\ deadline' = [deadline EXCEPT ![r] = -1]

RecoverLeases(r, o) ==
    /\ pc[r] = "recover"
    /\ Call(r, o)
    /\ FreeRows(IF o = "failed" THEN {} ELSE Recoverable(r))
    /\ \/ /\ o = "ok" /\ declared[r]
          /\ recovered' = [recovered EXCEPT ![r] = TRUE]
          /\ StartClaim(r)
          /\ UNCHANGED backoff
       \/ /\ o = "ok" /\ ~declared[r]
          /\ recovered' = [recovered EXCEPT ![r] = TRUE]
          /\ pc' = [pc EXCEPT ![r] = "declare"]
          /\ UNCHANGED <<backoff, deadline>>
       \/ o # "ok" /\ PauseCycle(r) /\ UNCHANGED recovered
    /\ UNCHANGED <<dueIn, live, declared, batch, current, elapsed, delay, envVars>>

DeclareTopology(r, o) ==
    /\ pc[r] = "declare"
    /\ Call(r, o)
    /\ \/ /\ o = "ok"
          /\ declared' = [declared EXCEPT ![r] = TRUE]
          /\ StartClaim(r)
          /\ UNCHANGED backoff
       \/ o # "ok" /\ PauseCycle(r) /\ UNCHANGED declared
    /\ UNCHANGED <<rowVars, live, recovered, batch, current, elapsed, delay, envVars, orphaned>>

Claim(r, o) ==
    /\ pc[r] = "claim"
    /\ Call(r, o)
    /\ \E S \in IF o = "failed" THEN {{}} ELSE Claimable :
          /\ state' = [e \in Events |-> IF e \in S THEN "processing" ELSE state[e]]
          /\ lockedBy' = [e \in Events |-> IF e \in S THEN r ELSE lockedBy[e]]
          /\ lease' = [e \in Events |-> IF e \in S THEN LeaseDuration ELSE lease[e]]
          /\ \/ /\ o = "ok"
                /\ batch' = [batch EXCEPT ![r] = S]
                /\ pc' = [pc EXCEPT ![r] = "publish"]
                /\ UNCHANGED <<backoff, deadline, orphaned>>
             \/ /\ o # "ok"
                /\ PauseCycle(r)
                /\ orphaned' = orphaned \cup S
                /\ UNCHANGED batch
    /\ UNCHANGED <<dueIn, live, recovered, declared, current, elapsed, delay, envVars>>

\* A round that went through resets the backoff; the pause is PollInterval or 0.
EndCycle(r) ==
    /\ pc[r] = "publish"
    /\ batch[r] = {}
    /\ pc' = [pc EXCEPT ![r] = "sleep"]
    /\ backoff' = [backoff EXCEPT ![r] = 0]
    /\ deadline' = [deadline EXCEPT ![r] = -1]
    /\ UNCHANGED <<rowVars, live, recovered, declared, batch, current, elapsed, delay, envVars, faults, orphaned>>
-----------------------------------------------------------------------------
(* term.publish, one row after the other.                                  *)

\* Bug: the duration of the publish itself is not counted.
OutlivedLease(r) == deadline[r] < 0

\* Checked on the local clock: a row that could outlive its lease is not sent.
MayOutliveLease(r) == deadline[r] < MaxPublish

StopEarly(r) ==
    /\ pc[r] = "publish"
    /\ batch[r] # {}
    /\ ~live[r] \/ MayOutliveLease(r)
    /\ pc' = [pc EXCEPT ![r] = "release"]
    /\ UNCHANGED <<rowVars, live, termVars, loopVars, envVars, faults, orphaned>>

\* The row passed both checks: broker.Publish is called.
Send(r, e) ==
    /\ pc[r] = "publish"
    /\ e \in batch[r] \ Invalid
    /\ live[r] /\ ~MayOutliveLease(r)
    /\ pc' = [pc EXCEPT ![r] = "sending"]
    /\ current' = [current EXCEPT ![r] = e]
    /\ UNCHANGED <<rowVars, live, termVars, batch, deadline, elapsed, delay, envVars, faults, orphaned>>

\* Publish succeeds only when the message was confirmed and routed.
Confirmed(o) == o = "ok"

\* broker.Publish returns: confirmed, or any error, taken as an outage.
Publish(r, o) ==
    /\ pc[r] = "sending"
    /\ Call(r, o)
    /\ broker' = IF o = "failed" THEN broker ELSE broker \cup {current[r]}
    /\ elapsed' = [elapsed EXCEPT ![r] = 0]
    /\ \/ /\ Confirmed(o)
          /\ pc' = [pc EXCEPT ![r] = "mark"]
          /\ UNCHANGED <<declared, backoff, current, delay>>
       \/ /\ ~Confirmed(o)
          /\ pc' = [pc EXCEPT ![r] = "release"]
          /\ current' = [current EXCEPT ![r] = NoEvent]
          /\ backoff' = Backoff(r)
          /\ delay' = [delay EXCEPT ![r] = Pause(r)]
          /\ declared' = [declared EXCEPT ![r] = declared[r] /\ ~live[r]]
    /\ UNCHANGED <<rowVars, live, recovered, batch, deadline, leader, orphaned>>

\* MarkPublished and MarkFailed: a conditional write of the final state of e.
\* When it is not known to have been made, stopBatch gives the rest back.
Settle(r, e, final, o) ==
    /\ Call(r, o)
    /\ \/ /\ o # "failed" /\ Held(r, e)
          /\ state' = [state EXCEPT ![e] = final]
          /\ lockedBy' = [lockedBy EXCEPT ![e] = NoInstance]
          /\ lease' = [lease EXCEPT ![e] = -1]
       \/ /\ o = "failed" \/ ~Held(r, e)
          /\ UNCHANGED <<state, lockedBy, lease>>
    /\ batch' = [batch EXCEPT ![r] = @ \ {e}]
    /\ current' = [current EXCEPT ![r] = NoEvent]
    /\ \/ /\ o = "ok" /\ Held(r, e)
          /\ pc' = [pc EXCEPT ![r] = "publish"]
          /\ UNCHANGED <<recovered, backoff, delay>>
       \/ /\ o # "ok" \/ ~Held(r, e)
          /\ pc' = [pc EXCEPT ![r] = "release"]
          /\ recovered' = [recovered EXCEPT ![r] = FALSE]
          /\ backoff' = IF o = "ok" THEN backoff ELSE Backoff(r)
          /\ delay' = [delay EXCEPT ![r] = IF o = "ok" THEN 0 ELSE Pause(r)]
    /\ UNCHANGED <<dueIn, live, declared, deadline, elapsed, envVars, orphaned>>

MarkPublished(r, o) ==
    /\ pc[r] = "mark"
    /\ Settle(r, current[r], "published", o)

\* A row check() rejects is given up on without a publish.
MarkFailed(r, e, o) ==
    /\ pc[r] = "publish"
    /\ e \in batch[r] \cap Invalid
    /\ live[r] /\ ~MayOutliveLease(r)
    /\ Settle(r, e, "failed", o)

\* release() runs even after the term ended; without rows it makes no call.
Release(r, o) ==
    /\ pc[r] = "release"
    /\ o = "ok" \/ batch[r] # {}
    /\ IF o = "ok" THEN UNCHANGED faults ELSE SpendFault
    /\ LET freed == IF o = "failed" THEN {} ELSE {e \in batch[r] : Held(r, e)}
       IN  /\ FreeRows(freed)
           /\ dueIn' = [e \in Events |-> IF e \in freed THEN delay[r] ELSE dueIn[e]]
    /\ recovered' = [recovered EXCEPT ![r] = @ /\ o = "ok"]
    /\ pc' = [pc EXCEPT ![r] = "sleep"]
    /\ batch' = [batch EXCEPT ![r] = {}]
    /\ deadline' = [deadline EXCEPT ![r] = -1]
    /\ delay' = [delay EXCEPT ![r] = 0]
    /\ UNCHANGED <<live, declared, backoff, current, elapsed, envVars>>
-----------------------------------------------------------------------------
(* The background cleanup of a term: rows past the retention are deleted   *)
(* in batches; ages are abstracted, any published row may be old enough.   *)

DeletePublishedBefore(r, S) ==
    /\ pc[r] \notin {"idle", "crashed"}
    /\ live[r]
    /\ S # {} /\ \A e \in S : state[e] = "published"
    /\ state' = [e \in Events |-> IF e \in S THEN "purged" ELSE state[e]]
    /\ UNCHANGED <<lockedBy, lease, dueIn, pc, live, termVars, loopVars, envVars, faults, orphaned>>
-----------------------------------------------------------------------------
(* Terms.  The Consul key has one holder, but a leader that lost it serves *)
(* its term until it notices.                                              *)

\* Run starts a term with fresh state.
Lead(r) ==
    /\ leader = NoInstance
    /\ pc[r] = "idle"
    /\ leader' = r
    /\ pc' = [pc EXCEPT ![r] = "recover"]
    /\ live' = [live EXCEPT ![r] = TRUE]
    /\ recovered' = [recovered EXCEPT ![r] = FALSE]
    /\ declared' = [declared EXCEPT ![r] = FALSE]
    /\ backoff' = [backoff EXCEPT ![r] = 0]
    /\ UNCHANGED <<rowVars, loopVars, broker, faults, orphaned>>

\* The session of the holder is invalidated: always after its process died,
\* by a fault (a partition, a long pause) otherwise.
LoseKey(r) ==
    /\ leader = r
    /\ IF pc[r] = "crashed" THEN UNCHANGED faults ELSE SpendFault
    /\ leader' = NoInstance
    /\ UNCHANGED <<rowVars, pc, live, termVars, loopVars, broker, orphaned>>

\* The context of the term is canceled: the elector noticed the loss of the
\* key, the process is stopping, or another leader task failed.
EndTerm(r) ==
    /\ live[r]
    /\ IF leader = r THEN SpendFault ELSE UNCHANGED faults
    /\ live' = [live EXCEPT ![r] = FALSE]
    /\ UNCHANGED <<rowVars, pc, termVars, loopVars, envVars, orphaned>>

\* sleep() was not interrupted: the next cycle begins.
Wake(r) ==
    /\ pc[r] = "sleep"
    /\ live[r]
    /\ pc' = [pc EXCEPT ![r] = "recover"]
    /\ UNCHANGED <<rowVars, live, termVars, loopVars, envVars, faults, orphaned>>

\* Run returns only from sleep(); the elector then gives the key up.
Return(r) ==
    /\ pc[r] = "sleep"
    /\ ~live[r]
    /\ pc' = [pc EXCEPT ![r] = "idle"]
    /\ leader' = IF leader = r THEN NoInstance ELSE leader
    /\ UNCHANGED <<rowVars, live, termVars, loopVars, broker, faults, orphaned>>

\* A process dies; its successor is another instance, with an id of its own.
Crash(r) ==
    /\ pc[r] # "crashed"
    /\ \E q \in Instances \ {r} : pc[q] # "crashed"
    /\ SpendFault
    /\ pc' = [pc EXCEPT ![r] = "crashed"]
    /\ live' = [live EXCEPT ![r] = FALSE]
    /\ batch' = [batch EXCEPT ![r] = {}]
    /\ current' = [current EXCEPT ![r] = NoEvent]
    /\ deadline' = [deadline EXCEPT ![r] = -1]
    /\ elapsed' = [elapsed EXCEPT ![r] = 0]
    /\ delay' = [delay EXCEPT ![r] = 0]
    /\ UNCHANGED <<rowVars, termVars, envVars, orphaned>>

\* One unit of time; a publish never takes longer than MaxPublish.
Down(t, floor) == IF t > floor THEN t - 1 ELSE t

Tick ==
    /\ \A r \in Instances : pc[r] = "sending" => elapsed[r] < MaxPublish
    /\ lease' = [e \in Events |-> Down(lease[e], -1)]
    /\ dueIn' = [e \in Events |-> Down(dueIn[e], 0)]
    /\ deadline' = [r \in Instances |-> Down(deadline[r], -1)]
    /\ elapsed' = [r \in Instances |-> IF pc[r] = "sending" THEN elapsed[r] + 1 ELSE elapsed[r]]
    /\ UNCHANGED <<state, lockedBy, pc, live, termVars, batch, current, delay, envVars, faults, orphaned>>
-----------------------------------------------------------------------------
Loop(r, o) ==
    \/ RecoverLeases(r, o)
    \/ DeclareTopology(r, o)
    \/ Claim(r, o)
    \/ Publish(r, o)
    \/ MarkPublished(r, o)
    \/ \E e \in Events : MarkFailed(r, e, o)
    \/ Release(r, o)

Local(r) ==
    \/ EndCycle(r)
    \/ StopEarly(r)
    \/ \E e \in Events : Send(r, e)
    \/ Wake(r)
    \/ Return(r)

Next ==
    \/ \E e \in Events : AppendEvent(e)
    \/ \E r \in Instances :
          \/ \E o \in Outcome : Loop(r, o)
          \/ Local(r)
          \/ \E S \in SUBSET Events : DeletePublishedBefore(r, S)
          \/ Lead(r) \/ LoseKey(r) \/ EndTerm(r) \/ Crash(r)
    \/ Tick

Spec == Init /\ [][Next]_vars

\* The relay goroutine keeps running, time passes, Consul elects an instance
\* and expires the session of a dead one, and an elector notices the loss of
\* its key.  Strong fairness of the claim and of the send says that a relay is
\* not, in every round for ever, so slow that its deadline passes before the
\* first row is sent.
\* Nothing is asked of the faults, of the writers or of the cleanup.
Fairness ==
    /\ WF_vars(Tick)
    /\ WF_vars(\E r \in Instances : Lead(r))
    /\ \A r \in Instances :
          /\ WF_vars((\E o \in Outcome : Loop(r, o)) \/ Local(r))
          /\ SF_vars(Due # {} /\ ~MayOutliveLease(r) /\ Claim(r, "ok"))
          /\ SF_vars(\E e \in Events : Send(r, e) \/ MarkFailed(r, e, "ok"))
          /\ WF_vars(pc[r] = "crashed" /\ LoseKey(r))
          /\ WF_vars(leader # r /\ EndTerm(r))

FairSpec == Spec /\ Fairness
-----------------------------------------------------------------------------
(* Properties.                                                             *)

\* relay.go:151 "a row that could outlive its lease is not sent": for as long
\* as a publish may still reach the broker the row is leased to its sender,
\* whatever other leaders do, so no two instances ever send a row at once.
LeaseCoversSend ==
    \A r \in Instances : pc[r] = "sending" => Held(r, current[r])

\* MarkPublished runs only after a confirmed publish: a row that says it was
\* published, even one already deleted by the retention, is with the broker.
PublishedWasRouted ==
    \A e \in Events : state[e] \in {"published", "purged"} => e \in broker

\* relay.go:112-113 and 145-146: a running term never keeps a lease it has
\* forgotten.  A row leased to it is in its batch, or the next cycle frees it
\* (recovered is reset); only a claim whose answer was lost waits for expiry.
LeasesAccounted ==
    \A e \in Events, r \in Instances :
        Held(r, e) /\ pc[r] \notin {"idle", "crashed"}
            => e \in batch[r] \/ ~recovered[r] \/ e \in orphaned

\* The inductive invariant behind the three above.  A relay holds rows only
\* inside publish() and release(); as long as its local deadline lies ahead it
\* holds the lease of each of them, and that lease ends no earlier; a publish
\* leaves at least its own maximal duration before the deadline.
Busy == {"publish", "sending", "mark", "release"}

TermInv(r) ==
    /\ pc[r] \notin Busy => batch[r] = {}
    /\ \A e \in batch[r] : deadline[r] >= 0 => Held(r, e) /\ lease[e] >= deadline[r]
    /\ pc[r] \in {"sending", "mark"} => current[r] \in batch[r] \ Invalid
    /\ pc[r] = "sending" => deadline[r] + elapsed[r] >= MaxPublish
    /\ pc[r] # "sending" => elapsed[r] = 0
    /\ pc[r] = "mark" => current[r] \in broker

RelayInv ==
    /\ PublishedWasRouted
    /\ LeasesAccounted
    /\ \A r \in Instances : TermInv(r)

\* At-least-once: every stored event is eventually published, or given up on
\* when no retry could publish it, after any finite number of faults.
EventuallySettled ==
    \A e \in Events :
        state[e] = "pending" ~> state[e] \in {"published", "purged", "failed"}

\* The refinement mapping: to its users a leased row is still undelivered.
outboxStatus ==
    [e \in Events |-> IF state[e] \in {"pending", "processing"} THEN "undelivered" ELSE state[e]]

Abstract == INSTANCE Outbox WITH status <- outboxStatus

\* The relay implements the Outbox that docs/events.md promises: leases are
\* invisible, and after an event is recorded as published it is never sent again.
ImplementsOutbox == Abstract!Spec
=============================================================================
