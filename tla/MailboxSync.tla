---------------------------- MODULE MailboxSync -----------------------------
(***************************************************************************)
(* Reading one mailbox (internal/polling): the scheduler of each instance  *)
(* lists the due profile and starts a poll (scheduler.go), the poll reads  *)
(* the mailbox from the cursor it was listed with (sync.go), recovers when *)
(* the server renumbered the mailbox (recovery.go), and records the cursor *)
(* under the fence of its assignment (CompletePoll).                       *)
(*                                                                         *)
(* An email is its arrival number, a UID the place of the email in the     *)
(* mailbox, 0 an expunged place.  The handler is abstract here: it         *)
(* confirms an email or fails (InboundPipeline has the details).           *)
(***************************************************************************)
EXTENDS Naturals, Sequences, FiniteSets, FiniteSetsExt, Functions

CONSTANTS
    Instances,
    NoInstance,
    DateOf,            \* sequence: INTERNALDATE of each email, by arrival
    Failing,           \* emails that end failed or quarantined, not ready
    MaxMessagesPerPoll,
    ReadBefore,        \* emails that were read, and deleted, before the run
    Reorders,          \* TRUE: a renumbering may also change the order
    MaxValidity,       \* bound: how often the mailbox is renumbered
    MaxGeneration,     \* bound: how often the profile is reassigned
    MaxExpunged        \* bound: how many emails are expunged

Emails == DOMAIN DateOf

ASSUME MailboxAssumption ==
    /\ NoInstance \notin Instances
    /\ DateOf \in Seq(Nat \ {0})
    /\ Failing \subseteq Emails
    /\ {MaxMessagesPerPoll, MaxValidity, MaxGeneration} \subseteq Nat \ {0}
    /\ ReadBefore \in 0 .. Len(DateOf)
    /\ Reorders \in BOOLEAN
    /\ MaxExpunged \in Nat

VARIABLES
    \* the mailbox on the server
    box, validity, arrived, expunged,
    \* email_profile_runtime
    owner, generation, cursor,
    \* emails the handler confirmed
    done,
    \* the scheduler of an instance: the row ListDue returned, if any
    listed,
    \* its poll: step, generation, cursor, UIDs requested and left to fetch, dates
    \* of the handled ones (0: not handled), whether the limit cut the search, and how the cursor came about
    pc, token, work, requested, left, handled, limited, how,
    \* history: emails that were there before the first cursor; how a stored cursor
    \* came about without confirmed progress behind it; per poll the
    \* emails in the mailbox it examined and those it passed for their date
    baseline, lapses, seen, older

mailVars == <<box, validity, arrived, expunged>>
rowVars  == <<owner, generation, cursor>>
pollVars == <<token, work, requested, left, handled, limited, how, seen, older>>
vars == <<mailVars, rowVars, done, listed, pc, pollVars, baseline, lapses>>

\* Recovery is set iff the checkpoint is; NoCursor is the NULL column.
Cursor(v, last, date, checkpoint, to) ==
    [validity |-> v, last |-> last, date |-> date, checkpoint |-> checkpoint, to |-> to]

NoCursor == Cursor(0, 0, 0, 0, 0)

Dates == {0} \cup Range(DateOf)
Uids  == 1 .. Len(DateOf)

Unhandled == [u \in Uids |-> 0]

Cursors == [validity : 0 .. MaxValidity, last : {0} \cup Uids, date : Dates,
            checkpoint : Dates, to : {0} \cup Uids]

NotListed == [generation |-> 0, cursor |-> NoCursor]

Arrived == Range(box) \ {0}

TypeOK ==
    /\ box \in Seq(Emails \cup {0}) /\ Len(box) <= Len(DateOf)
    /\ validity \in 1 .. MaxValidity
    /\ arrived \in {0} \cup Emails
    /\ expunged \in 0 .. MaxExpunged
    /\ owner \in Instances \cup {NoInstance}
    /\ generation \in 0 .. MaxGeneration
    /\ cursor \in Cursors
    /\ done \subseteq Emails
    /\ listed \in [Instances -> [generation : 0 .. MaxGeneration, cursor : Cursors]]
    /\ pc \in [Instances -> {"idle", "start", "examine", "deliver", "complete"}]
    /\ token \in [Instances -> 0 .. MaxGeneration]
    /\ work \in [Instances -> Cursors]
    /\ requested \in [Instances -> SUBSET Uids] /\ left \in [Instances -> SUBSET Uids]
    /\ handled \in [Instances -> [Uids -> Dates]]
    /\ limited \in [Instances -> BOOLEAN]
    /\ how \in [Instances -> {"none", "first", "end", "stored", "recover", "read"}]
    /\ baseline \subseteq Emails
    /\ lapses \subseteq {"restarted", "no_checkpoint", "newest_stored"}
    /\ seen \in [Instances -> SUBSET Emails]
    /\ older \in [Instances -> SUBSET Emails]

\* A new profile, or one whose first emails were read one after the other and
\* then deleted by their reader.
Init ==
    /\ box = [u \in 1 .. ReadBefore |-> 0]
    /\ validity = 1 /\ arrived = ReadBefore /\ expunged = 0
    /\ owner = NoInstance /\ generation = 0
    /\ cursor = IF ReadBefore = 0 THEN NoCursor
                ELSE Cursor(1, ReadBefore, Max({DateOf[e] : e \in 1 .. ReadBefore}), 0, 0)
    /\ done = 1 .. ReadBefore
    /\ listed = [i \in Instances |-> NotListed]
    /\ pc = [i \in Instances |-> "idle"]
    /\ token = [i \in Instances |-> 0]
    /\ work = [i \in Instances |-> NoCursor]
    /\ requested = [i \in Instances |-> {}]
    /\ left = [i \in Instances |-> {}]
    /\ handled = [i \in Instances |-> Unhandled]
    /\ limited = [i \in Instances |-> FALSE]
    /\ how = [i \in Instances |-> "none"]
    /\ baseline = {} /\ lapses = {}
    /\ seen = [i \in Instances |-> {}]
    /\ older = [i \in Instances |-> {}]
-----------------------------------------------------------------------------
(* The mailbox.  UIDVALIDITY does not change under an open session: a poll *)
(* that examined the old numbering can only end (see Aborted).             *)

Arrive ==
    /\ arrived < Len(DateOf)
    /\ arrived' = arrived + 1
    /\ box' = Append(box, arrived + 1)
    /\ UNCHANGED <<validity, expunged, rowVars, done, listed, pc, pollVars, baseline, lapses>>

Expunge(u) ==
    /\ expunged < MaxExpunged
    /\ box[u] # 0
    /\ box' = [box EXCEPT ![u] = 0]
    /\ expunged' = expunged + 1
    /\ UNCHANGED <<validity, arrived, rowVars, done, listed, pc, pollVars, baseline, lapses>>

\* The emails of s are in the order of the mailbox.
KeepsOrder(s) ==
    \A m, n \in DOMAIN s, u, v \in DOMAIN box :
        m < n /\ box[u] = s[m] /\ box[v] = s[n] => u < v

\* Renumbering drops the expunged places.
Renumber ==
    /\ validity < MaxValidity
    /\ validity' = validity + 1
    /\ box' \in [1 .. Cardinality(Arrived) -> Arrived] /\ IsInjective(box')
    /\ Reorders \/ KeepsOrder(box')
    /\ UNCHANGED <<arrived, expunged, rowVars, done, listed, pc, pollVars, baseline, lapses>>
-----------------------------------------------------------------------------
(* The assignment, written by the leader.                                  *)

Assign(i) ==
    /\ owner # i
    /\ generation < MaxGeneration
    /\ owner' = i
    /\ generation' = generation + 1
    /\ UNCHANGED <<mailVars, cursor, done, listed, pc, pollVars, baseline, lapses>>

\* The bound leaves the profile assigned in the end.
Unassign ==
    /\ owner # NoInstance
    /\ generation < MaxGeneration
    /\ owner' = NoInstance
    /\ UNCHANGED <<mailVars, generation, cursor, done, listed, pc, pollVars, baseline, lapses>>

Fenced(i) == owner = i /\ generation = token[i]
-----------------------------------------------------------------------------
(* The scheduler: dispatch lists the row, and only then looks whether a     *)
(* poll of the profile is running.                                         *)

ListDue(i) ==
    /\ listed[i] = NotListed
    /\ owner = i
    /\ listed' = [listed EXCEPT ![i] = [generation |-> generation, cursor |-> cursor]]
    /\ UNCHANGED <<mailVars, rowVars, done, pc, pollVars, baseline, lapses>>

\* tryStart and run: the poll works on the row as it was listed.
Start(i) ==
    /\ listed[i] # NotListed
    /\ pc[i] = "idle"
    /\ pc' = [pc EXCEPT ![i] = "start"]
    /\ token' = [token EXCEPT ![i] = listed[i].generation]
    /\ work' = [work EXCEPT ![i] = listed[i].cursor]
    /\ listed' = [listed EXCEPT ![i] = NotListed]
    /\ UNCHANGED <<mailVars, rowVars, done, requested, left, handled, limited, how, seen, older, baseline, lapses>>

AlreadyRunning(i) ==
    /\ listed[i] # NotListed
    /\ pc[i] # "idle"
    /\ listed' = [listed EXCEPT ![i] = NotListed]
    /\ UNCHANGED <<mailVars, rowVars, done, pc, pollVars, baseline, lapses>>

\* The poll is over and its state is dropped.
EndPoll(i) ==
    /\ pc' = [pc EXCEPT ![i] = "idle"]
    /\ token' = [token EXCEPT ![i] = 0]
    /\ work' = [work EXCEPT ![i] = NoCursor]
    /\ requested' = [requested EXCEPT ![i] = {}]
    /\ left' = [left EXCEPT ![i] = {}]
    /\ handled' = [handled EXCEPT ![i] = Unhandled]
    /\ limited' = [limited EXCEPT ![i] = FALSE]
    /\ how' = [how EXCEPT ![i] = "none"]
    /\ seen' = [seen EXCEPT ![i] = {}]
    /\ older' = [older EXCEPT ![i] = {}]

StartPoll(i) ==
    /\ pc[i] = "start"
    /\ \/ /\ Fenced(i)
          /\ pc' = [pc EXCEPT ![i] = "examine"]
          /\ UNCHANGED pollVars
       \/ /\ ~Fenced(i)
          /\ EndPoll(i)
    /\ UNCHANGED <<mailVars, rowVars, done, listed, baseline, lapses>>

\* A poll that records no cursor: no connection, an error before the first
\* search, an interrupted or crashed instance, a failed CompletePoll.
Aborted(i) ==
    /\ pc[i] # "idle"
    /\ EndPoll(i)
    /\ UNCHANGED <<mailVars, rowVars, done, listed, baseline, lapses>>
-----------------------------------------------------------------------------
(* sync and recover, up to the search.                                     *)

\* Bug: a second renumbering resumes from the newest email the first recovery
\* has confirmed so far.
NewestConfirmed(c) == c.date

recoveryCheckpoint(c) == IF c.checkpoint # 0 THEN c.checkpoint ELSE c.date

LastReceivedAt == Max({0} \cup {DateOf[e] : e \in done \ Failing})

ResumeFrom(c) == IF recoveryCheckpoint(c) # 0 THEN recoveryCheckpoint(c) ELSE LastReceivedAt

lastUID == Len(box)

startRecovery(checkpoint) == Cursor(validity, 0, checkpoint, checkpoint, lastUID)

finishRecovery(c) == Cursor(c.validity, c.to, c.date, 0, 0)

\* SINCE only drops emails that are older than the checkpoint, which recover
\* passes over as well.
searchUIDs(after, to) == {u \in after + 1 .. to : box[u] # 0}

\* The first n of the UIDs S, which a search gives in ascending order.
First(S, n) == {u \in S : Cardinality({v \in S : v <= u}) <= n}

\* The cursor is placed at the end of the mailbox, without reading it.
PlaceAtEnd(i, reason) ==
    /\ work' = [work EXCEPT ![i] = Cursor(validity, lastUID, 0, 0, 0)]
    /\ how' = [how EXCEPT ![i] = reason]
    /\ pc' = [pc EXCEPT ![i] = "complete"]
    /\ seen' = [seen EXCEPT ![i] = Arrived]
    /\ UNCHANGED <<token, requested, left, handled, limited, older>>

Request(i, c, found, skipped, reason) ==
    LET uids == First(found, MaxMessagesPerPoll) IN
    /\ work' = [work EXCEPT ![i] = c]
    /\ requested' = [requested EXCEPT ![i] = uids]
    /\ left' = [left EXCEPT ![i] = uids \ skipped]
    /\ handled' = [handled EXCEPT ![i] =
          [u \in Uids |-> IF u \in skipped \cap uids THEN DateOf[box[u]] ELSE 0]]
    /\ limited' = [limited EXCEPT ![i] = Cardinality(found) > MaxMessagesPerPoll]
    /\ how' = [how EXCEPT ![i] = reason]
    /\ older' = [older EXCEPT ![i] = {box[u] : u \in skipped \cap uids}]
    /\ pc' = [pc EXCEPT ![i] = "deliver"]
    /\ UNCHANGED <<token, seen>>

\* Bug: an email that arrived together with the newest one read is passed over.
NotNewerThan(checkpoint, uids) == {u \in uids : DateOf[box[u]] <= checkpoint}

\* Strictly older than the checkpoint is passed over.
OlderThan(checkpoint, uids) == {u \in uids : DateOf[box[u]] < checkpoint}

Recover(i, c, reason) ==
    LET found == searchUIDs(c.last, c.to) IN
    \/ /\ c.last >= c.to \/ found = {}
       /\ work' = [work EXCEPT ![i] = finishRecovery(c)]
       /\ how' = [how EXCEPT ![i] = reason]
       /\ pc' = [pc EXCEPT ![i] = "complete"]
       /\ UNCHANGED <<token, requested, left, handled, limited, seen, older>>
    \/ /\ c.last < c.to /\ found # {}
       /\ Request(i, c, found, OlderThan(c.checkpoint, found), reason)

Examine(i) ==
    LET c == work[i]
        renumbered == c.validity # validity
    IN
    /\ pc[i] = "examine"
    /\ \/ c = NoCursor /\ PlaceAtEnd(i, "first")
       \/ /\ c # NoCursor /\ renumbered
          /\ \/ ResumeFrom(c) = 0 /\ PlaceAtEnd(i, "end")
             \/ /\ ResumeFrom(c) # 0
                /\ Recover(i, startRecovery(ResumeFrom(c)),
                           IF recoveryCheckpoint(c) = 0 THEN "stored" ELSE "recover")
       \/ ~renumbered /\ c.checkpoint # 0 /\ Recover(i, c, "recover")
       \/ ~renumbered /\ c.checkpoint = 0 /\ Request(i, c, searchUIDs(c.last, Len(box)), {}, "read")
    /\ UNCHANGED <<mailVars, rowVars, done, listed, baseline, lapses>>
-----------------------------------------------------------------------------
(* deliver, advanceConfirmed and CompletePoll.                              *)

Handle(i) ==
    LET u == Min(left[i]) IN
    /\ pc[i] = "deliver"
    /\ left[i] # {}
    /\ work[i].validity = validity
    /\ left' = [left EXCEPT ![i] = @ \ {u}]
    /\ \/ /\ box[u] # 0
          /\ handled' = [handled EXCEPT ![i][u] = DateOf[box[u]]]
          /\ done' = done \cup {box[u]}
       \/ /\ box[u] = 0
          /\ UNCHANGED <<handled, done>>
    /\ UNCHANGED <<mailVars, rowVars, listed, pc, token, work, requested, limited, how, seen, older, baseline, lapses>>

Confirmed(i) ==
    {u \in requested[i] : \A v \in requested[i] : v <= u => handled[i][v] # 0}

\* Bug: the progress is computed and not kept.
keepCursor(i) == work[i]

advanceConfirmed(i) ==
    LET c == work[i] IN
    Cursor(c.validity, Max({c.last} \cup Confirmed(i)),
           Max({c.date} \cup {handled[i][u] : u \in Confirmed(i)}), c.checkpoint, c.to)

\* A recovery whose range was read without an error and without a limit is over.
Delivered(i) ==
    /\ pc[i] = "deliver"
    /\ left[i] = {}
    /\ work' = [work EXCEPT ![i] =
          IF work[i].checkpoint # 0 /\ ~limited[i] THEN finishRecovery(advanceConfirmed(i))
                                               ELSE advanceConfirmed(i)]
    /\ pc' = [pc EXCEPT ![i] = "complete"]
    /\ UNCHANGED <<mailVars, rowVars, done, listed, token, requested, left, handled, limited, how, seen, older, baseline, lapses>>

\* The handler or the connection failed.
Stopped(i) ==
    /\ pc[i] = "deliver"
    /\ left[i] # {}
    /\ work' = [work EXCEPT ![i] = advanceConfirmed(i)]
    /\ pc' = [pc EXCEPT ![i] = "complete"]
    /\ UNCHANGED <<mailVars, rowVars, done, listed, token, requested, left, handled, limited, how, seen, older, baseline, lapses>>

CompletePoll(i) ==
    /\ pc[i] = "complete"
    /\ IF Fenced(i)
       THEN /\ cursor' = work[i]
            /\ baseline' = IF how[i] = "first" /\ cursor = NoCursor THEN seen[i] ELSE baseline
            /\ lapses' = lapses \cup
                  IF how[i] = "first" /\ cursor # NoCursor THEN {"restarted"}
                  ELSE IF how[i] = "end" THEN {"no_checkpoint"}
                  ELSE IF how[i] = "stored" THEN {"newest_stored"} ELSE {}
       ELSE UNCHANGED <<cursor, baseline, lapses>>
    /\ EndPoll(i)
    /\ UNCHANGED <<mailVars, owner, generation, done, listed>>
-----------------------------------------------------------------------------
Poll(i) ==
    \/ ListDue(i) \/ Start(i) \/ AlreadyRunning(i)
    \/ StartPoll(i) \/ Examine(i) \/ Handle(i) \/ Delivered(i) \/ CompletePoll(i)

Fault(i) == Stopped(i) \/ Aborted(i)

Environment ==
    \/ Arrive \/ Renumber \/ Unassign
    \/ \E u \in 1 .. Len(box) : Expunge(u)
    \/ \E i \in Instances : Assign(i)

Next == Environment \/ \E i \in Instances : Poll(i) \/ Fault(i)

Spec == Init /\ [][Next]_vars
-----------------------------------------------------------------------------
(* Fairness: the leader assigns the profile, its owner lists and polls it,  *)
(* a running poll goes on, and one that lost its numbering ends; handlers   *)
(* and connections fail only finitely often.                                *)

LostNumbering(i) == pc[i] = "deliver" /\ work[i].validity # validity /\ Fault(i)

Work(i) == StartPoll(i) \/ Examine(i) \/ Handle(i) \/ Delivered(i) \/ CompletePoll(i) \/ LostNumbering(i)

Progress == Environment \/ \E i \in Instances : Poll(i) \/ LostNumbering(i)

FairSpec ==
    /\ Spec
    /\ <>[][Progress]_vars
    /\ \A i \in Instances : WF_vars(ListDue(i)) /\ WF_vars(Start(i)) /\ WF_vars(Work(i))
    /\ WF_vars(owner = NoInstance /\ \E i \in Instances : Assign(i))
-----------------------------------------------------------------------------
(* What the cursor promises.                                               *)

\* Emails of the mailbox the handler still has to see.
Unread == Arrived \ (done \cup baseline)

\* Emails the stored cursor keeps later polls from reading.
Passed == IF cursor.validity # validity THEN {}
          ELSE {box[u] : u \in 1 .. Min({cursor.last, Len(box)})}

\* LastUID is the "highest UID confirmed by the handler"
\* (model/email_profile_runtime.go:68): no unread email is behind the cursor.
CursorConfirmed == Passed \cap Unread = {}

\* A cursor was placed at the end of a mailbox that had one already; or, where the
\* server may reorder the mailbox, a recovery had to guess its checkpoint from the
\* newest stored email.
Lapsed == (IF Reorders THEN lapses ELSE lapses \ {"newest_stored"}) # {}

\* The same, short of such a lapse: failing handlers, expunged emails, renumbering,
\* polls started from a stale row, late polls of former owners and recoveries cut
\* short do not lose an email.
NothingSkipped == ~Lapsed => CursorConfirmed

\* "The only checkpoint that survives a UIDVALIDITY change": no unread email is
\* older than the time a recovery from the stored cursor would resume from, in the
\* middle of a recovery too (model/email_profile_runtime.go:70-72, recovery.go:12-14).
CheckpointCoversUnread ==
    ~Lapsed /\ cursor # NoCursor =>
        LET resume == IF cursor.checkpoint # 0 THEN cursor.checkpoint ELSE cursor.date
        IN  \A e \in Unread : DateOf[e] >= resume

\* "Nothing is known to have been read, so there is no gap to recover"
\* (recovery.go:34): a cursor placed at the end for want of a checkpoint passes no
\* unread email.
NoGapWithoutCheckpoint ==
    \A i \in Instances : how[i] = "end" => seen[i] \subseteq done \cup baseline

\* "Strictly older than the checkpoint means the email was already read under the
\* previous UIDs, or it predates this profile" (recovery.go:106-107).
OlderWasRead ==
    ~Lapsed => \A i \in Instances : older[i] \subseteq done \cup baseline

\* Every email that stays in the mailbox is read in the end, short of a lapse: a
\* stale row may set the cursor back, but not again and again.
EventuallyRead ==
    \A e \in Emails : (e \in Unread) ~> (e \notin Unread \/ Lapsed)
-----------------------------------------------------------------------------
(* Why it holds: what is known of every cursor in circulation (the stored   *)
(* one, the ones in listed rows and the ones of polls), as long as emails   *)
(* arrive in the order of their dates.                                     *)

\* The INTERNALDATE of an email is not before that of an email that arrived earlier.
DatesInOrder == \A d, e \in Emails : d < e => DateOf[d] <= DateOf[e]

\* Emails that are unread, or will be once they arrive: the set only shrinks.
Pending == {e \in Emails : e > arrived} \cup Unread

\* Those of them that are behind place n, or still to arrive.
Later(n) == {e \in Pending : e > arrived \/ \E v \in DOMAIN box : v > n /\ box[v] = e}

\* An email behind place n arrived later than all the emails before it.
InOrderFrom(n) ==
    \A u, v \in DOMAIN box : u < v /\ n < v /\ box[u] # 0 /\ box[v] # 0 => box[u] < box[v]

\* A cursor of the present numbering was placed in this mailbox.
Within(c) ==
    /\ c.validity <= validity
    /\ c.validity = validity => c.last <= Len(box) /\ c.to <= Len(box)

\* What arrived since (in a recovery: since it began) follows in the order of arrival.
Placed(c) == InOrderFrom(IF c.checkpoint # 0 THEN c.to ELSE c.last)

\* A recovery from c passes no pending email, a read from c none either, and a recovery
\* that ends at c.to leaves none behind that is older than its newest email.
Good(c) ==
    /\ Within(c)
    /\ \A e \in Pending : DateOf[e] >= recoveryCheckpoint(c)
    /\ c.validity = validity =>
          /\ Placed(c)
          /\ \A u \in 1 .. c.last : box[u] \notin Pending
          /\ c.checkpoint # 0 => \A e \in Later(c.to) : DateOf[e] >= c.date

\* The poll did not place its cursor at the end, nor guess a checkpoint that a reordered
\* mailbox may belie.
Sound(i) == how[i] \in {"read", "recover"} \/ (how[i] = "stored" /\ ~Reorders)

\* The dates confirmed so far are those of no email newer than a pending one; in a
\* recovery, than one behind its range, until nothing in the range is left.
DatesInv(i) ==
    /\ work[i].checkpoint = 0 => \A u \in Uids, e \in Pending : DateOf[e] >= handled[i][u]
    /\ work[i].checkpoint # 0 /\ left[i] = {} /\ ~limited[i] =>
          \A e \in Pending : DateOf[e] >= work[i].date /\ \A u \in Uids : DateOf[e] >= handled[i][u]

\* The request reaches from the cursor to its last UID, or to the end of the recovery
\* when the limit did not cut it, and what is pending of it is left to fetch.
RequestInv(i) ==
    LET c == work[i] IN
    /\ \A u \in requested[i] : box[u] \in Pending => u \in left[i] /\ handled[i][u] = 0
    /\ \A u \in DOMAIN box :
          /\ c.last < u /\ box[u] # 0
          /\ (\E w \in requested[i] : u <= w) \/ (c.checkpoint # 0 /\ ~limited[i] /\ u <= c.to)
          => u \in requested[i]
    /\ c.checkpoint # 0 =>
          /\ \A u \in requested[i] : u <= c.to
          /\ \A e \in Later(c.to), u \in Uids : DateOf[e] >= handled[i][u]

DeliverInv(i) ==
    /\ Good(work[i]) /\ DatesInv(i)
    /\ work[i].validity = validity => RequestInv(i)

\* A first cursor passes the emails the poll has seen, which become the baseline.
FirstInv(i) ==
    /\ Within(work[i]) /\ work[i].date = 0 /\ work[i].checkpoint = 0
    /\ work[i].validity = validity =>
          Placed(work[i]) /\ \A u \in 1 .. work[i].last : box[u] # 0 => box[u] \in seen[i]

PollInv(i) ==
    /\ Good(listed[i].cursor)
    /\ pc[i] \in {"start", "examine"} => Good(work[i])
    /\ pc[i] = "deliver" /\ Sound(i) => DeliverInv(i)
    /\ pc[i] = "complete" /\ Sound(i) => Good(work[i])
    /\ pc[i] = "complete" /\ how[i] = "first" => FirstInv(i)

\* What is left of a request is part of it, and it is for UIDs of the mailbox.
InBox(i) ==
    /\ left[i] \subseteq requested[i]
    /\ work[i].validity = validity => requested[i] \subseteq DOMAIN box

\* The steps of a poll: it has UIDs to fetch only once it has searched.
PollShape(i) ==
    /\ Within(listed[i].cursor) /\ Within(work[i]) /\ InBox(i)
    /\ pc[i] \in {"idle", "start", "examine"} => requested[i] = {}
    /\ pc[i] \in {"deliver", "complete"} => work[i].validity # 0
    /\ pc[i] = "deliver" => how[i] \in {"read", "recover", "stored"}
    /\ pc[i] = "complete" => how[i] # "none"

\* The mailbox, the row and the steps of the polls, lapse or not.
ShapeInv ==
    /\ Len(box) <= arrived /\ \A u \in DOMAIN box : box[u] <= arrived
    /\ ~Reorders => InOrderFrom(0)
    /\ cursor = NoCursor => baseline = {}
    /\ Within(cursor)
    /\ \A i \in Instances : PollShape(i)

\* What was confirmed is not newer than what is pending.
OrderInv == \A d \in done, e \in Pending : DateOf[d] <= DateOf[e]

\* Nothing pending is behind a cursor.
CoverInv ==
    /\ Good(cursor) /\ \A i \in Instances : PollInv(i)
    /\ ~Reorders => OrderInv

MailInv == TypeOK /\ ShapeInv /\ (~Lapsed => CoverInv)
=============================================================================
