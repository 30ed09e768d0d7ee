--------------------------- MODULE InboundPipeline --------------------------
(***************************************************************************)
(* From a fetched email to a finished Message (internal/inbound): the      *)
(* quarantine of emails no retry can parse, the transaction that stores    *)
(* Thread, Message and attachment manifest (persistence.go), the uploads   *)
(* and the contact lookup that follow outside any transaction, and the     *)
(* short transactions that end in a ready or a failed Message              *)
(* (completion.go, contacts.go, outbox.go).                                *)
(*                                                                         *)
(* Workers are the polls of the instances.  A worker acts under the        *)
(* assignment (owner and generation) it started with; the assignment moves *)
(* at any time, and EnsureEmailProfileAssignment is a plain read, so a     *)
(* worker may still commit after losing the profile.  Each transaction is  *)
(* therefore two steps, the read of the assignment and the rest with the   *)
(* commit.  Any call may fail and any process may die: Abandon ends the    *)
(* handling of an email between two steps, after a commit whose answer was *)
(* lost as well as before one.                                             *)
(*                                                                         *)
(* Emails of one conversation meet in one Thread: here a conversation has  *)
(* at most one regular and one service Thread, and an email of it finds    *)
(* them by its headers.                                                    *)
(***************************************************************************)
EXTENDS Naturals, FiniteSets

CONSTANTS
    Workers,        \* polls, one per instance
    NoWorker,       \* owner_instance_id IS NULL, or a free advisory lock
    Emails,         \* the emails of the mailbox
    NoEmail,
    Malformed,      \* emails that are too large or that the parser rejects
    Service,        \* auto-replies and bounces
    Parts,          \* attachment parts
    PartsOf,        \* [Emails -> SUBSET Parts]: the parts to upload
    Conversations,
    ConversationOf, \* [Emails -> Conversations]
    ReceivedAt,     \* [Emails -> Nat \ {0}]
    MaxAttempts,    \* storage.max_attachment_attempts
    MaxGeneration   \* bound: how often the profile is reassigned

ASSUME PipelineAssumption ==
    /\ NoWorker \notin Workers /\ NoEmail \notin Emails
    /\ Malformed \subseteq Emails /\ Service \subseteq Emails
    /\ PartsOf \in [Emails -> SUBSET Parts]
    /\ ConversationOf \in [Emails -> Conversations]
    /\ ReceivedAt \in [Emails -> Nat \ {0}]
    /\ MaxAttempts \in Nat \ {0}
    /\ MaxGeneration \in Nat \ {0}

VARIABLES
    \* email_profile_runtime: the assignment; and the advisory lock of the profile
    owner, generation, lock,
    \* email.message, its attachments, email.inbound_failure and email.outbox
    msg, threadOf, pending, attempts, failures, outbox,
    \* email.thread: the contact resolution of the regular Thread of a conversation,
    \* and last_message_at of both
    contact, last,
    \* a worker: where it is, its assignment, its email and its snapshots
    pc, token, email, todo, part, unresolved, resolution,
    \* history: emails some Handle returned nil for; operator decisions
    confirmed, manual

profileVars == <<owner, generation>>
messageVars == <<msg, threadOf, pending, attempts, failures, outbox>>
threadVars  == <<contact, last>>
workVars    == <<todo, part, unresolved, resolution>>
vars == <<profileVars, lock, messageVars, threadVars, pc, token, email, workVars, confirmed, manual>>

Kinds == {"regular", "service"}

\* Outcomes of the Contacts service, and what an operator may decide: "bound" is
\* the state resolved with the operator's contact.  "absent": no regular Thread.
Lookup   == {"resolved", "not_found", "ambiguous", "unavailable"}
Decision == {"bound", "unlinked"}
Contact  == {"absent", "pending"} \cup Lookup \cup Decision

Step == {"idle", "begin", "locate", "quarantine", "list", "upload",
         "store", "storing", "spend", "spending", "fail", "failing",
         "complete", "completing", "marking", "incomplete"}

TypeOK ==
    /\ owner \in Workers \cup {NoWorker}
    /\ generation \in 0 .. MaxGeneration
    /\ lock \in Workers \cup {NoWorker}
    /\ msg \in [Emails -> {"none", "processing", "ready", "failed"}]
    /\ threadOf \in [Emails -> Kinds \cup {"none"}]
    /\ pending \in [Emails -> SUBSET Parts]
    /\ attempts \in [Emails -> 0 .. MaxAttempts]
    /\ failures \in SUBSET Emails
    /\ outbox \in [Emails -> Nat]
    /\ contact \in [Conversations -> Contact]
    /\ last \in [Conversations -> [Kinds -> Nat]]
    /\ pc \in [Workers -> Step]
    /\ token \in [Workers -> 0 .. MaxGeneration]
    /\ email \in [Workers -> Emails \cup {NoEmail}]
    /\ todo \in [Workers -> SUBSET Parts]
    /\ part \in [Workers -> SUBSET Parts]
    /\ unresolved \in [Workers -> BOOLEAN]
    /\ resolution \in [Workers -> Lookup \cup {"none"}]
    /\ confirmed \in SUBSET Emails
    /\ manual \in [Conversations -> Decision \cup {"none"}]

Init ==
    /\ owner = NoWorker /\ generation = 0 /\ lock = NoWorker
    /\ msg = [e \in Emails |-> "none"]
    /\ threadOf = [e \in Emails |-> "none"]
    /\ pending = [e \in Emails |-> {}]
    /\ attempts = [e \in Emails |-> 0]
    /\ failures = {}
    /\ outbox = [e \in Emails |-> 0]
    /\ contact = [c \in Conversations |-> "absent"]
    /\ last = [c \in Conversations |-> [k \in Kinds |-> 0]]
    /\ pc = [w \in Workers |-> "idle"]
    /\ token = [w \in Workers |-> 0]
    /\ email = [w \in Workers |-> NoEmail]
    /\ todo = [w \in Workers |-> {}]
    /\ part = [w \in Workers |-> {}]
    /\ unresolved = [w \in Workers |-> FALSE]
    /\ resolution = [w \in Workers |-> "none"]
    /\ confirmed = {}
    /\ manual = [c \in Conversations |-> "none"]
-----------------------------------------------------------------------------
(* The assignment, written by the leader (Assign, Unassign).               *)

Assign(w) ==
    /\ owner # w
    /\ generation < MaxGeneration
    /\ owner' = w
    /\ generation' = generation + 1
    /\ UNCHANGED <<lock, messageVars, threadVars, pc, token, email, workVars, confirmed, manual>>

\* The bound leaves the profile assigned in the end.
Unassign ==
    /\ owner # NoWorker
    /\ generation < MaxGeneration
    /\ owner' = NoWorker
    /\ UNCHANGED <<generation, lock, messageVars, threadVars, pc, token, email, workVars, confirmed, manual>>

Assigned(w) == owner = w /\ generation = token[w]
-----------------------------------------------------------------------------
(* How the handling of an email ends, and what a new one starts from.      *)

Finish(w) ==
    /\ pc' = [pc EXCEPT ![w] = "idle"]
    /\ email' = [email EXCEPT ![w] = NoEmail]
    /\ todo' = [todo EXCEPT ![w] = {}]
    /\ part' = [part EXCEPT ![w] = {}]
    /\ unresolved' = [unresolved EXCEPT ![w] = FALSE]
    /\ resolution' = [resolution EXCEPT ![w] = "none"]
    /\ lock' = IF lock = w THEN NoWorker ELSE lock

\* Handle returned nil: the cursor may pass the email, the poll goes on.
Confirm(w) ==
    /\ Finish(w)
    /\ confirmed' = confirmed \cup {email[w]}
    /\ UNCHANGED token

\* Handle returned an error, which ends the poll, or the process is gone.
Return(w) ==
    /\ Finish(w)
    /\ token' = [token EXCEPT ![w] = 0]
    /\ UNCHANGED confirmed

Abandon(w) ==
    /\ pc[w] # "idle"
    /\ Return(w)
    /\ UNCHANGED <<profileVars, messageVars, threadVars, manual>>

Goto(w, step) == pc' = [pc EXCEPT ![w] = step]

\* A poll starts under the current assignment and may outlive it.
StartPoll(w) ==
    /\ pc[w] = "idle"
    /\ owner = w
    /\ token[w] # generation
    /\ token' = [token EXCEPT ![w] = generation]
    /\ UNCHANGED <<profileVars, lock, messageVars, threadVars, pc, email, workVars, confirmed, manual>>

\* QuarantineHandler.Handle: an email too large or malformed takes its own path.
\* The cursor decides what is delivered; any email may be delivered again.
Deliver(w, e) ==
    /\ pc[w] = "idle"
    /\ token[w] # 0
    /\ email' = [email EXCEPT ![w] = e]
    /\ Goto(w, IF e \in Malformed THEN "quarantine" ELSE "begin")
    /\ UNCHANGED <<profileVars, lock, messageVars, threadVars, token, workVars, confirmed, manual>>

\* Bug: the email is passed although the record was not written.
QuarantineLater(w) ==
    /\ pc[w] = "quarantine"
    /\ Confirm(w)
    /\ UNCHANGED <<profileVars, messageVars, threadVars, manual>>

\* The record is written by position, without a look at the assignment.
Quarantine(w) ==
    /\ pc[w] = "quarantine"
    /\ failures' = failures \cup {email[w]}
    /\ Confirm(w)
    /\ UNCHANGED <<profileVars, msg, threadOf, pending, attempts, outbox, threadVars, manual>>
-----------------------------------------------------------------------------
(* EnsureEmailProfileAssignment, the first statement of every transaction. *)

Ensured ==
    [begin |-> "locate", store |-> "storing", spend |-> "spending",
     fail |-> "failing", complete |-> "completing"]

\* The transaction of Handle takes the advisory lock of the profile first.
EnsureEmailProfileAssignment(w) ==
    /\ pc[w] \in DOMAIN Ensured
    /\ pc[w] = "begin" => lock = NoWorker
    /\ Assigned(w)
    /\ Goto(w, Ensured[pc[w]])
    /\ lock' = IF pc[w] = "begin" THEN w ELSE lock
    /\ UNCHANGED <<profileVars, messageVars, threadVars, token, email, workVars, confirmed, manual>>

\* ErrStaleAssignment: the transaction is rolled back and the email kept.
StaleAssignment(w) ==
    /\ pc[w] \in DOMAIN Ensured \/ (pc[w] = "upload" /\ todo[w] # {})
    /\ ~Assigned(w)
    /\ Return(w)
    /\ UNCHANGED <<profileVars, messageVars, threadVars, manual>>
-----------------------------------------------------------------------------
(* EventWriter.Write and AdvanceLastMessage, inside a transaction that     *)
(* makes e ready in the Thread k of its conversation.                      *)

\* Bug: every Message of a regular Thread is announced.
EligibleByThread(e, k) == k = "regular"

Eligible(e, k) == e \notin Service /\ k = "regular"

\* Bug: the dedup key differs between two deliveries.
AppendAlways(n) == n + 1

\* ON CONFLICT DO NOTHING on the dedup key of the Message.
AppendOnce(n) == IF n = 0 THEN 1 ELSE n

\* Bug: the Thread follows the email that finished last.
LastArrived(old, at) == at

\* AdvanceLastMessage moves the time forwards only.
Advanced(old, at) == IF old < at THEN at ELSE old

\* The row lock of the regular Thread: the transaction that applied a resolution
\* holds it until it ends, and other writes of the row wait.
HoldsThread(w, c) ==
    pc[w] = "marking" /\ resolution[w] # "none" /\ ConversationOf[email[w]] = c

ThreadFree(w, c) == \A v \in Workers \ {w} : ~HoldsThread(v, c)

Visible(w, e, k) ==
    /\ k = "regular" => ThreadFree(w, ConversationOf[e])
    /\ last' = [last EXCEPT ![ConversationOf[e]][k] = Advanced(@, ReceivedAt[e])]
    /\ outbox' = [outbox EXCEPT ![e] = IF Eligible(e, k) THEN AppendOnce(@) ELSE @]

Unresolved(state) == state \in {"pending", "unavailable"}

\* Bug: only a failed lookup is done again.
NeedsRetry(k, state) == k = "regular" /\ state = "unavailable"

NeedsContactResolution(k, state) == k = "regular" /\ Unresolved(state)
-----------------------------------------------------------------------------
(* PersistenceHandler.Handle, under the lock of the profile.               *)

\* An unfinished email is continued with what the lookup says of its Thread.
Continue(w) ==
    LET e == email[w] IN
    /\ pc[w] = "locate"
    /\ msg[e] = "processing"
    /\ unresolved' = [unresolved EXCEPT ![w] =
          NeedsContactResolution(threadOf[e], contact[ConversationOf[e]])]
    /\ Goto(w, "list")
    /\ lock' = NoWorker
    /\ UNCHANGED <<profileVars, messageVars, threadVars, token, email, todo, part, resolution, confirmed, manual>>

Duplicate(w) ==
    /\ pc[w] = "locate"
    /\ msg[email[w]] \in {"ready", "failed"}
    /\ Confirm(w)
    /\ UNCHANGED <<profileVars, messageVars, threadVars, manual>>

\* resolveThread: a regular email only continues a regular Thread; an automatic
\* one joins what its headers find, and opens a service Thread otherwise.
ThreadKinds(e) ==
    LET c == ConversationOf[e]
        known == {k \in Kinds : \E f \in Emails : ConversationOf[f] = c /\ threadOf[f] = k}
    IN  IF e \notin Service THEN {"regular"}
        ELSE IF known = {} THEN {"service"} ELSE known

\* persist: Thread, Message and manifest, and for an email that owes nothing
\* also its visibility and its event, in one transaction.
Persist(w, k) ==
    LET e == email[w]
        c == ConversationOf[e]
        state == IF k = "regular" /\ contact[c] = "absent" THEN "pending" ELSE contact[c]
        unfinished == PartsOf[e] # {} \/ NeedsContactResolution(k, state)
    IN
    /\ pc[w] = "locate"
    /\ msg[e] = "none"
    /\ k \in ThreadKinds(e)
    /\ threadOf' = [threadOf EXCEPT ![e] = k]
    /\ contact' = [contact EXCEPT ![c] = state]
    /\ pending' = [pending EXCEPT ![e] = PartsOf[e]]
    /\ msg' = [msg EXCEPT ![e] = IF unfinished THEN "processing" ELSE "ready"]
    /\ \/ /\ unfinished
          /\ unresolved' = [unresolved EXCEPT ![w] = NeedsContactResolution(k, state)]
          /\ Goto(w, "list")
          /\ lock' = NoWorker
          /\ UNCHANGED <<outbox, last, email, todo, part, resolution, confirmed, token>>
       \/ /\ ~unfinished
          /\ Visible(w, e, k)
          /\ Confirm(w)
    /\ UNCHANGED <<profileVars, attempts, failures, manual>>
-----------------------------------------------------------------------------
(* MessageCompleter.Complete.                                              *)

\* The manifest is read once, outside any transaction.
List(w) ==
    /\ pc[w] = "list"
    /\ todo' = [todo EXCEPT ![w] = pending[email[w]]]
    /\ Goto(w, "upload")
    /\ UNCHANGED <<profileVars, lock, messageVars, threadVars, token, email, part, unresolved, resolution, confirmed, manual>>

\* The storage service takes the file, refuses it, or fails; a part the email
\* no longer yields is given up on like a refused one.
Upload(w, p, answer) ==
    /\ pc[w] = "upload"
    /\ p \in todo[w]
    /\ Assigned(w)
    /\ part' = [part EXCEPT ![w] = {p}]
    /\ Goto(w, CASE answer = "stored"   -> "store"
                 [] answer = "rejected" -> "fail"
                 [] answer = "error"    -> "spend")
    /\ UNCHANGED <<profileVars, lock, messageVars, threadVars, token, email, todo, unresolved, resolution, confirmed, manual>>

MarkStored(w) ==
    /\ pc[w] = "storing"
    /\ pending' = [pending EXCEPT ![email[w]] = @ \ part[w]]
    /\ todo' = [todo EXCEPT ![w] = @ \ part[w]]
    /\ part' = [part EXCEPT ![w] = {}]
    /\ Goto(w, "upload")
    /\ UNCHANGED <<profileVars, lock, msg, threadOf, attempts, failures, outbox, threadVars, token, email, unresolved, resolution, confirmed, manual>>

\* Bug: the Message is failed and nothing says why.
FailUnrecorded(e) ==
    /\ msg' = [msg EXCEPT ![e] = IF @ = "processing" THEN "failed" ELSE @]
    /\ UNCHANGED failures

\* Bug: the state is not part of the condition of MarkFailed.
FailAny(e) ==
    /\ msg' = [msg EXCEPT ![e] = "failed"]
    /\ failures' = failures \cup {e}

\* quarantine: the Message and its failure record, only while it is processing.
QuarantineMessage(e) ==
    IF msg[e] = "processing"
    THEN msg' = [msg EXCEPT ![e] = "failed"] /\ failures' = failures \cup {e}
    ELSE UNCHANGED <<msg, failures>>

Fail(w) ==
    /\ pc[w] = "failing"
    /\ QuarantineMessage(email[w])
    /\ Confirm(w)
    /\ UNCHANGED <<profileVars, threadOf, pending, attempts, outbox, threadVars, manual>>

\* Bug: off by one.
Overspent(n) == n > MaxAttempts

Exhausted(n) == n >= MaxAttempts

\* Bug: the upload error is returned inside the transaction and rolls it back.
SpendRolledBack(w) ==
    /\ pc[w] = "spending"
    /\ msg[email[w]] = "processing"
    /\ Return(w)
    /\ UNCHANGED <<profileVars, messageVars, threadVars, manual>>

\* uploadFailed: the attempt and what it leads to are one transaction; a Message
\* that is no longer processing is not found, which is an error.
SpendAttempt(w) ==
    LET e == email[w] IN
    /\ pc[w] = "spending"
    /\ msg[e] = "processing"
    /\ attempts' = [attempts EXCEPT ![e] = @ + 1]
    /\ \/ /\ Exhausted(attempts[e] + 1)
          /\ QuarantineMessage(e)
          /\ Confirm(w)
       \/ /\ ~Exhausted(attempts[e] + 1)
          /\ Return(w)
          /\ UNCHANGED <<msg, failures>>
    /\ UNCHANGED <<profileVars, threadOf, pending, outbox, threadVars, manual>>

SpendOnFinished(w) ==
    /\ pc[w] = "spending"
    /\ msg[email[w]] # "processing"
    /\ Return(w)
    /\ UNCHANGED <<profileVars, messageVars, threadVars, manual>>

\* resolveContact: the lookup happens outside any transaction too.
ResolveContact(w, answer) ==
    /\ pc[w] = "upload"
    /\ todo[w] = {}
    /\ IF unresolved[w] THEN answer \in Lookup ELSE answer = "none"
    /\ resolution' = [resolution EXCEPT ![w] = answer]
    /\ Goto(w, "complete")
    /\ UNCHANGED <<profileVars, lock, messageVars, threadVars, token, email, todo, part, unresolved, confirmed, manual>>

\* Bug: the answer is stored without a look at the state of the Thread.
AppliesAlways(w) == resolution[w] # "none"

\* storeResolution: an answer applies only while nobody has decided.
Applies(w) == resolution[w] # "none" /\ Unresolved(contact[ConversationOf[email[w]]])

\* markReady, up to the snapshot of its MarkReady statement.  A resolution that
\* applies locks the Thread until the commit; one that does not is dropped.
BeginMarkReady(w) ==
    LET c == ConversationOf[email[w]] IN
    /\ pc[w] = "completing"
    /\ msg[email[w]] = "processing"
    /\ Applies(w) => ThreadFree(w, c)
    /\ resolution' = [resolution EXCEPT ![w] = IF Applies(w) THEN @ ELSE "none"]
    /\ Goto(w, "marking")
    /\ UNCHANGED <<profileVars, lock, messageVars, threadVars, token, email, todo, part, unresolved, confirmed, manual>>

\* The UPDATE sees the row as it is now: still processing, nothing pending.
\* Resolution, state, Thread and event are committed together.
Completes(e) == msg[e] = "processing" /\ pending[e] = {}

CommitReady(w) ==
    LET e == email[w]
        c == ConversationOf[e]
    IN
    /\ pc[w] = "marking"
    /\ Completes(e)
    /\ contact' = [contact EXCEPT ![c] = IF resolution[w] = "none" THEN @ ELSE resolution[w]]
    /\ msg' = [msg EXCEPT ![e] = "ready"]
    /\ Visible(w, e, threadOf[e])
    /\ Confirm(w)
    /\ UNCHANGED <<profileVars, threadOf, pending, attempts, failures, manual>>

\* The UPDATE matched nothing, and the state read back is that of the snapshot,
\* processing: everything is rolled back with "still has pending attachments".
Incomplete(w) ==
    /\ pc[w] = "marking"
    /\ ~Completes(email[w])
    /\ Goto(w, "incomplete")
    /\ UNCHANGED <<profileVars, lock, messageVars, threadVars, token, email, workVars, confirmed, manual>>

ReportIncomplete(w) ==
    /\ pc[w] = "incomplete"
    /\ Return(w)
    /\ UNCHANGED <<profileVars, messageVars, threadVars, manual>>

\* The snapshot already shows the Message finished by another delivery: a ready
\* one is made visible again, a failed one is only confirmed.
AlreadyFinished(w) ==
    LET e == email[w]
        c == ConversationOf[e]
    IN
    /\ pc[w] = "completing"
    /\ msg[e] \in {"ready", "failed"}
    /\ Applies(w) => ThreadFree(w, c)
    /\ contact' = [contact EXCEPT ![c] = IF Applies(w) THEN resolution[w] ELSE @]
    /\ \/ msg[e] = "ready" /\ Visible(w, e, threadOf[e])
       \/ msg[e] = "failed" /\ UNCHANGED <<last, outbox>>
    /\ Confirm(w)
    /\ UNCHANGED <<profileVars, msg, threadOf, pending, attempts, failures, manual>>
-----------------------------------------------------------------------------
(* EmailThread service: an operator binds or unbinds the contact.          *)

SetContactManually(c, decision) ==
    /\ contact[c] # "absent"
    /\ ThreadFree(NoWorker, c)
    /\ contact' = [contact EXCEPT ![c] = decision]
    /\ manual' = [manual EXCEPT ![c] = decision]
    /\ UNCHANGED <<profileVars, lock, messageVars, last, pc, token, email, workVars, confirmed>>
-----------------------------------------------------------------------------
Handle(w) ==
    \/ \E e \in Emails : Deliver(w, e)
    \/ Quarantine(w)
    \/ EnsureEmailProfileAssignment(w)
    \/ StaleAssignment(w)
    \/ Continue(w)
    \/ Duplicate(w)
    \/ \E k \in Kinds : Persist(w, k)
    \/ List(w)
    \/ \E p \in Parts, a \in {"stored", "rejected", "error"} : Upload(w, p, a)
    \/ MarkStored(w)
    \/ Fail(w)
    \/ SpendAttempt(w)
    \/ SpendOnFinished(w)
    \/ \E a \in Lookup \cup {"none"} : ResolveContact(w, a)
    \/ BeginMarkReady(w)
    \/ CommitReady(w)
    \/ Incomplete(w)
    \/ ReportIncomplete(w)
    \/ AlreadyFinished(w)

Next ==
    \/ \E w \in Workers : Assign(w) \/ StartPoll(w) \/ Handle(w) \/ Abandon(w)
    \/ Unassign
    \/ \E c \in Conversations, d \in Decision : SetContactManually(c, d)

Spec == Init /\ [][Next]_vars
-----------------------------------------------------------------------------
(* Fairness.  A worker goes on with the email it has, the leader assigns a  *)
(* profile without an owner, the owner polls, and an email that was not     *)
(* confirmed is fetched again; calls fail and processes die only finitely   *)
(* often.                                                                   *)

Work(w) == Handle(w) /\ pc[w] # "idle"

Redeliver(e) == \E w \in Workers : Assigned(w) /\ e \notin confirmed /\ Deliver(w, e)

Progress ==
    \/ \E w \in Workers : Assign(w) \/ StartPoll(w) \/ Handle(w)
    \/ Unassign
    \/ \E c \in Conversations, d \in Decision : SetContactManually(c, d)

FairSpec ==
    /\ Spec
    /\ <>[][Progress]_vars
    /\ \A w \in Workers : WF_vars(Work(w)) /\ WF_vars(StartPoll(w))
    /\ WF_vars(owner = NoWorker /\ \E w \in Workers : Assign(w))
    /\ \A e \in Emails : SF_vars(Redeliver(e))
-----------------------------------------------------------------------------
(* What the pipeline promises.                                             *)

\* Handle lets the cursor pass an email only once its outcome is stored: a ready
\* Message, a failed one with its record, or the record of an email that cannot
\* be parsed (persistence.go:39-40, completion.go:76-78, quarantine.go:77-78).
ConfirmedDurable ==
    \A e \in confirmed :
        \/ msg[e] = "ready"
        \/ msg[e] \in {"none", "failed"} /\ e \in failures

\* A visible Message owes nothing: every part has its file, and its regular Thread
\* was matched or at least tried, whichever worker did which part (markReady).
ReadyComplete ==
    \A e \in Emails : msg[e] = "ready" =>
        /\ pending[e] = {}
        /\ threadOf[e] = "regular" => contact[ConversationOf[e]] \notin {"absent", "pending"}

\* One event per Message, written with the commit that makes it ready, and only
\* for a regular Message of a regular Thread (docs/events.md:9-11), whatever
\* deliveries complete it at the same time.
EventExactlyOnce ==
    \A e \in Emails :
        outbox[e] = IF msg[e] = "ready" /\ e \notin Service /\ threadOf[e] = "regular" THEN 1 ELSE 0

\* last_message_at of a Thread is the latest ready Message of it: it neither shows
\* an email that is not visible nor misses one that completed out of order.
LastMessageExact ==
    \A c \in Conversations, k \in Kinds :
        LET times == {ReceivedAt[e] : e \in {f \in Emails :
                         msg[f] = "ready" /\ threadOf[f] = k /\ ConversationOf[f] = c}}
        IN  /\ last[c][k] \in times \cup {0}
            /\ \A t \in times : t <= last[c][k]

\* The attempt budget: an email that is still retried has attempts left, and a
\* Message that ran out of them is failed by the same commit (uploadFailed).
AttemptBudget ==
    \A e \in Emails : attempts[e] >= MaxAttempts => msg[e] = "failed" /\ e \in failures

\* An operator's decision outranks any automatic outcome, also one looked up
\* before the decision and stored after it (service/email_thread.go:30-31).
OperatorWins ==
    \A c \in Conversations : manual[c] # "none" => contact[c] = manual[c]

\* What makes these invariants inductive.  A stored Message is one the parser took,
\* and only the malformed emails have a record without a Message; the Thread of a
\* stored Message is known to the contact resolution.
RowInv ==
    \A e \in Emails :
        /\ msg[e] = "none" <=> threadOf[e] = "none"
        /\ msg[e] # "none" => e \notin Malformed
        /\ msg[e] = "failed" => e \in failures
        /\ e \in failures => msg[e] # "none" \/ e \in Malformed
        /\ threadOf[e] = "regular" => contact[ConversationOf[e]] # "absent"

Settled(c) == contact[c] \notin {"absent", "pending"}

\* The steps of Complete, and those of them after the lookup.
Completing == Step \ {"idle", "quarantine", "begin", "locate"}
Looked     == {"complete", "completing", "marking", "incomplete"}

\* A worker completes a stored Message; it has a lookup to do or an answer to store
\* unless somebody has settled the contact; and its row lock keeps that question open.
WorkInv(w) ==
    LET e == email[w] IN
    pc[w] # "idle" =>
        /\ e \in Emails
        /\ pc[w] = "quarantine" <=> e \in Malformed
        /\ pc[w] \in Completing => msg[e] # "none"
        /\ pc[w] \in Completing /\ threadOf[e] = "regular" =>
              \/ Settled(ConversationOf[e])
              \/ IF pc[w] \in Looked THEN resolution[w] # "none" ELSE unresolved[w]
        /\ HoldsThread(w, ConversationOf[e]) => Unresolved(contact[ConversationOf[e]])

\* One transaction holds the row lock of a Thread.
ThreadInv ==
    \A c \in Conversations : \A v, w \in Workers :
        HoldsThread(v, c) /\ HoldsThread(w, c) => v = w

PipelineInv ==
    /\ TypeOK /\ RowInv /\ ThreadInv /\ \A w \in Workers : WorkInv(w)
    /\ ConfirmedDurable /\ ReadyComplete /\ EventExactlyOnce /\ LastMessageExact
    /\ AttemptBudget /\ OperatorWins

\* An outcome is decided once: no late worker turns a ready Message into a failed
\* one, revives a failed one, or takes back an event or a failure record.
OutcomeIsFinal ==
    [][/\ \A e \in Emails : msg[e] \in {"ready", "failed"} => msg'[e] = msg[e]
       /\ \A e \in Emails : outbox'[e] >= outbox[e]
       /\ failures \subseteq failures']_vars

\* "A message a concurrent delivery has just completed is not mistaken for an
\* unfinished one" (store/postgres/email_message_store.go:122-123): the error
\* "still has pending attachments" is never reported for a ready Message.
CompletedNotMistaken ==
    \A w \in Workers : pc[w] = "incomplete" => msg[email[w]] # "ready"

\* Every email of the mailbox reaches a stored outcome the cursor can pass: retries
\* end, by success or by the attempt budget.  It assumes that PostgreSQL accepts the
\* email: the budget counts uploads, and a row the database refuses on every delivery
\* (a body with U+0000) is neither stored nor quarantined.
EventuallyConfirmed == \A e \in Emails : <>(e \in confirmed)
=============================================================================
