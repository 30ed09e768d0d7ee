---------------------------- MODULE MessageFetch ----------------------------
(***************************************************************************)
(* How one poll gets its emails over one IMAP session: the windows of      *)
(* searchUIDs, the fetch batches of deliver, and FetchRaw, which hands a   *)
(* batch over while the server is still answering and falls back to one    *)
(* UID at a time when the answers leave a gap                              *)
(* (internal/polling/sync.go, recovery.go, infra/mail/imap.go).            *)
(*                                                                         *)
(* MailboxSync has the cursor, its owners and the renumbered mailbox, and  *)
(* takes a fetch to deliver the requested emails in order; that is what    *)
(* this module shows.  UIDs are unsigned words of which 0 is no UID.       *)
(***************************************************************************)
EXTENDS Integers, Sequences, FiniteSetsExt

CONSTANTS
    MaxUID,             \* math.MaxUint32, a power of two less one
    WindowSize,         \* the size of a search window
    MaxMessagesPerPoll,
    FetchBatchSize,
    Mailboxes,          \* the mailboxes the run starts with: sets of UIDs
    ReadBefore,         \* in a recovery: emails read under their former UIDs
    LongBefore,         \* the ones of them dated before the day of Since
    MaxArrivals,        \* bound: emails that arrive later
    MaxExpunged,        \* bound: emails that are expunged
    MaxFaults           \* bound: lost connections, failed handlers, refused logins,
                        \* answers without a body

Uids == 1 .. MaxUID

ASSUME FetchAssumption ==
    /\ {MaxUID, WindowSize, MaxMessagesPerPoll, FetchBatchSize} \subseteq Nat \ {0}
    /\ WindowSize <= MaxUID
    /\ \A box \in Mailboxes : box \subseteq Uids /\ box # {}
    /\ ReadBefore \subseteq Uids /\ LongBefore \subseteq ReadBefore
    /\ {MaxArrivals, MaxExpunged, MaxFaults} \subseteq Nat

VARIABLES
    \* the server: the UIDs in the mailbox, the next one, whether it reports UIDNEXT
    mail, uidNext, reports,
    \* the connection, and imapSession.sequentialFetch
    stage, sequentialFetch,
    \* the stored cursor: LastUID, and ToUID of a recovery (0: none)
    lastUID, toUID,
    \* emails read before the mailbox was renumbered: older than the checkpoint
    old,
    \* the poll: its step, the search (start, to, the UIDs found), what was
    \* requested, what is left to fetch, what the handler confirmed, and the errors
    pc, start, to, found, requested, more, left, handled, handlerErr, imapErr,
    \* the loop of fetchRawBatch, and the UIDs left to fetchRawSequential
    f, rest,
    \* history: UIDs handed to the handler in this poll; confirmed in any poll; the
    \* last UID of the mailbox the poll examined
    given, confirmed, bound,
    arrivals, expunged, faults

serverVars == <<mail, uidNext, reports, old, arrivals, expunged>>
connVars   == <<stage, sequentialFetch>>
cursorVars == <<lastUID, toUID>>
searchVars == <<start, to, found, bound>>
pollVars   == <<requested, more, left, handled, handlerErr, imapErr, given>>
vars == <<serverVars, connVars, cursorVars, searchVars, pollVars, pc, f, rest, confirmed, faults>>

Steps == {"idle", "dial", "starttls", "auth", "examine", "search", "dates", "deliver",
          "batch", "single", "done"}

\* The loop of fetchRawBatch.  seen, next, fallbackAt, lastUID, unordered and
\* readErr are its variables; pending are the UIDs the server has yet to answer;
\* expired is set when a handler outlasted the deadline of the command.
NoFetch == [batch |-> <<>>, seen |-> {}, next |-> 0, fallbackAt |-> -1, lastUID |-> 0,
            unordered |-> FALSE, readErr |-> FALSE, pending |-> {}, expired |-> FALSE]

FetchState ==
    [batch : Seq(Uids), seen : SUBSET Uids, next : Nat, fallbackAt : Int, lastUID : Nat,
     unordered : BOOLEAN, readErr : BOOLEAN, pending : SUBSET Uids, expired : BOOLEAN]

TypeOK ==
    /\ mail \subseteq Uids /\ uidNext \in 1 .. MaxUID + 1 /\ reports \in BOOLEAN
    /\ stage \in {"closed", "plain", "secure", "ready"} /\ sequentialFetch \in BOOLEAN
    /\ lastUID \in 0 .. MaxUID /\ toUID \in 0 .. MaxUID
    /\ old \subseteq Uids
    /\ pc \in Steps
    /\ start \in 0 .. MaxUID /\ to \in 0 .. MaxUID /\ bound \in 0 .. MaxUID
    /\ found \in Seq(Uids) /\ requested \in Seq(Uids) /\ left \in Seq(Uids) /\ rest \in Seq(Uids)
    /\ more \in BOOLEAN /\ handlerErr \in BOOLEAN /\ imapErr \in BOOLEAN
    /\ handled \subseteq Uids /\ given \subseteq Uids /\ confirmed \subseteq Uids
    /\ f \in FetchState
    /\ arrivals \in 0 .. MaxArrivals /\ expunged \in 0 .. MaxExpunged /\ faults \in 0 .. MaxFaults

\* The UIDNEXT of EXAMINE; 0 when the server does not report one, or has none
\* left to give.
UIDNext == IF reports /\ uidNext <= MaxUID THEN uidNext ELSE 0

\* The highest UID of the mailbox, which startRecovery takes for its range.
lastUIDOf(box, next) == IF next > 0 THEN next - 1 ELSE Max({0} \cup box)

\* An ordinary cursor before the first email; or a recovery about to begin, some
\* of whose emails were read under their former UIDs.
Init ==
    /\ mail \in Mailboxes
    /\ uidNext = Max({0} \cup mail) + 1
    /\ reports \in BOOLEAN
    /\ stage = "closed" /\ sequentialFetch = FALSE
    /\ lastUID = 0
    /\ \/ toUID = 0 /\ old = {}
       \/ toUID = lastUIDOf(mail, UIDNext) /\ old = mail \cap ReadBefore
    /\ pc = "idle"
    /\ start = 0 /\ to = 0 /\ found = <<>> /\ bound = 0
    /\ requested = <<>> /\ more = FALSE /\ left = <<>>
    /\ handled = {} /\ handlerErr = FALSE /\ imapErr = FALSE /\ given = {}
    /\ f = NoFetch /\ rest = <<>> /\ confirmed = {}
    /\ arrivals = 0 /\ expunged = 0 /\ faults = 0

Fault == faults < MaxFaults /\ faults' = faults + 1
-----------------------------------------------------------------------------
(* The mailbox.  UIDs only grow, and an expunged one is not used again.     *)

Arrive ==
    /\ arrivals < MaxArrivals
    /\ uidNext <= MaxUID
    /\ arrivals' = arrivals + 1
    /\ mail' = mail \cup {uidNext}
    /\ uidNext' = uidNext + 1
    /\ UNCHANGED <<reports, old, expunged, connVars, cursorVars, searchVars, pollVars, pc, f, rest, confirmed, faults>>

\* A running FETCH has no answer for an email that is gone, unless it was sent
\* already.
Expunge(u) ==
    /\ expunged < MaxExpunged
    /\ u \in mail
    /\ expunged' = expunged + 1
    /\ mail' = mail \ {u}
    /\ f' \in {f, [f EXCEPT !.pending = @ \ {u}]}
    /\ UNCHANGED <<uidNext, reports, old, arrivals, connVars, cursorVars, searchVars, pollVars, pc, rest, confirmed, faults>>
-----------------------------------------------------------------------------
(* session and Connect.                                                    *)

Goto(step) == pc' = step

\* The poll ends without a cursor: what it knew is dropped with its session.
Abandon ==
    /\ stage' = "closed" /\ sequentialFetch' = FALSE
    /\ Goto("idle")

\* session(): a session that answers NOOP is used again.
Poll ==
    /\ pc = "idle"
    /\ \/ /\ stage = "ready"
          /\ Goto("examine")
          /\ UNCHANGED <<connVars, faults>>
       \/ /\ stage = "ready" /\ Fault
          /\ stage' = "closed" /\ sequentialFetch' = FALSE
          /\ Goto("dial")
       \/ /\ stage = "closed"
          /\ Goto("dial")
          /\ UNCHANGED <<connVars, faults>>
    /\ UNCHANGED <<serverVars, cursorVars, searchVars, pollVars, f, rest, confirmed>>

\* Bug: the client logs in as soon as it is connected.
ConnectedStep(security) == "auth"

\* What Connect does with the new connection.
AfterDial(security) == IF security = "starttls" THEN "starttls" ELSE "auth"

Dial(security) ==
    /\ pc = "dial"
    /\ \/ /\ stage' = IF security = "tls" THEN "secure" ELSE "plain"
          /\ Goto(AfterDial(security))
          /\ UNCHANGED <<sequentialFetch, faults>>
       \/ Fault /\ Abandon
    /\ UNCHANGED <<serverVars, cursorVars, searchVars, pollVars, f, rest, confirmed>>

\* startIMAPSession: the server may lack STARTTLS, or fail to negotiate.
StartTLS ==
    /\ pc = "starttls"
    /\ \/ /\ stage' = "secure"
          /\ Goto("auth")
          /\ UNCHANGED <<sequentialFetch, faults>>
       \/ Fault /\ Abandon
    /\ UNCHANGED <<serverVars, cursorVars, searchVars, pollVars, f, rest, confirmed>>

\* imapAuthenticate: Login or XOAUTH2.
Authenticate ==
    /\ pc = "auth"
    /\ \/ /\ stage' = "ready"
          /\ Goto("examine")
          /\ UNCHANGED <<sequentialFetch, faults>>
       \/ Fault /\ Abandon
    /\ UNCHANGED <<serverVars, cursorVars, searchVars, pollVars, f, rest, confirmed>>
-----------------------------------------------------------------------------
(* searchUIDs.                                                             *)

\* What a search finds: SINCE leaves out the days before a recovery's checkpoint.
Searched == IF toUID # 0 THEN mail \ (old \cap LongBefore) ELSE mail

\* slices.Sort on the members of a set: the n-th has n - 1 of them before it.
Sorted(S) == [n \in 1 .. Cardinality(S) |->
                CHOOSE u \in S : Cardinality({v \in S : v < u}) = n - 1]

\* The client's view of UID SEARCH from:to, to = 0 being *; a range that ends
\* with * always includes the last email.
SearchUIDsRange(from, last) ==
    LET answer == IF last = 0 THEN {u \in Searched : u >= from \/ u = Max(mail)}
                              ELSE {u \in Searched : u \in from .. last}
    IN  Sorted({u \in answer : u >= from /\ (last # 0 => u <= last)})

lastSearchableUID == IF UIDNext = 0 THEN 0 ELSE UIDNext - 1

\* EXAMINE, and the range of the search: past the cursor, up to the end of the
\* recovery or of the mailbox.  A recovery that is past its range is over.
Examine ==
    /\ pc = "examine"
    /\ \/ /\ bound' = uidNext - 1
          /\ to' = IF toUID # 0 THEN toUID ELSE lastSearchableUID
          /\ found' = <<>>
          /\ IF lastUID = MaxUID \/ (toUID # 0 /\ lastUID >= toUID)
             THEN start' = 0 /\ Goto("done")
             ELSE start' = lastUID + 1 /\ Goto("search")
          /\ UNCHANGED <<connVars, faults>>
       \/ Fault /\ Abandon /\ UNCHANGED searchVars
    /\ UNCHANGED <<serverVars, cursorVars, pollVars, f, rest, confirmed>>

\* Bug: the end of a window is not checked for overflow.
WrappedEnd(from) ==
    LET end == (from + WindowSize - 1) % (MaxUID + 1) IN IF end > to THEN to ELSE end

\* The end of the window that starts at from.
WindowEnd(from) ==
    LET end == (from + WindowSize - 1) % (MaxUID + 1)
    IN  IF end < from \/ end > to THEN to ELSE end

\* The search is over at the limit, at the upper bound, or at the top of the words.
SearchOver(end, all) == Len(all) > MaxMessagesPerPoll \/ end >= to \/ end = MaxUID

\* What is requested of the UIDs found, and the fetch of the requested ones; a
\* recovery fetches their dates first, and is over when there are none.
Request(all) ==
    LET uids == SubSeq(all, 1, Min({Len(all), MaxMessagesPerPoll})) IN
    /\ more' = (Len(all) > MaxMessagesPerPoll)
    /\ requested' = uids
    /\ left' = uids
    /\ Goto(IF toUID = 0 THEN "deliver" ELSE IF uids = <<>> THEN "done" ELSE "dates")
    /\ UNCHANGED <<handled, handlerErr, imapErr, given>>

SearchFailed ==
    /\ Fault
    /\ imapErr' = TRUE
    /\ Goto("done")
    /\ found' = <<>>
    /\ UNCHANGED <<start, requested, more, left, handled, handlerErr, given>>

\* One window of the search.
Search ==
    /\ pc = "search"
    /\ \/ /\ to = 0
          /\ found' = SearchUIDsRange(start, 0)
          /\ Request(found')
          /\ UNCHANGED <<start, faults>>
       \/ /\ to # 0
          /\ LET end == WindowEnd(start) IN
             /\ found' = IF start <= to THEN found \o SearchUIDsRange(start, end) ELSE found
             /\ IF start > to \/ SearchOver(end, found')
                THEN Request(SubSeq(found', 1, Min({Len(found'), MaxMessagesPerPoll + 1}))) /\ UNCHANGED start
                ELSE start' = end + 1 /\ UNCHANGED <<pc, pollVars>>
          /\ UNCHANGED faults
       \/ SearchFailed
    /\ UNCHANGED <<serverVars, connVars, cursorVars, to, bound, f, rest, confirmed>>

\* FetchInternalDates has no date for an email that is gone.
InternalDates(uids) == Range(uids) \cap mail

\* The UIDs that are not among the handled ones, in their order.
fresh(uids, read) ==
    LET kept == Sorted({n \in DOMAIN uids : uids[n] \notin read})
    IN  [k \in DOMAIN kept |-> uids[kept[k]]]

\* recover: an email older than the checkpoint counts as handled; one without a
\* date is fetched like a new one.
Recover ==
    /\ pc = "dates"
    /\ \/ /\ handled' = InternalDates(requested) \cap old
          /\ left' = fresh(requested, handled')
          /\ Goto("deliver")
          /\ UNCHANGED <<imapErr, faults>>
       \/ /\ Fault
          /\ imapErr' = TRUE
          /\ Goto("done")
          /\ UNCHANGED <<handled, left>>
    /\ UNCHANGED <<serverVars, connVars, cursorVars, searchVars, requested, more, handlerErr, given, f, rest, confirmed>>
-----------------------------------------------------------------------------
(* deliver and FetchRaw.                                                   *)

\* The callback of deliver: nothing is handed over after a failure, or once the
\* context is done.
Callback(u) ==
    \/ /\ handlerErr
       /\ UNCHANGED <<handled, handlerErr, given, confirmed, faults>>
    \/ /\ ~handlerErr
       /\ given' = given \cup {u}
       /\ handled' = handled \cup {u}
       /\ confirmed' = confirmed \cup {u}
       /\ UNCHANGED <<handlerErr, faults>>
    \/ /\ ~handlerErr
       /\ Fault
       /\ handlerErr' = TRUE
       /\ given' \in {given, given \cup {u}}
       /\ UNCHANGED <<handled, confirmed>>

AfterBatch == IF handlerErr' THEN "done" ELSE "deliver"

\* The next batch of deliver; FETCH answers for the emails that still exist.
NextBatch ==
    LET batch == SubSeq(left, 1, Min({FetchBatchSize, Len(left)})) IN
    /\ pc = "deliver"
    /\ left' = SubSeq(left, Len(batch) + 1, Len(left))
    /\ IF left = <<>> THEN Goto("done") /\ UNCHANGED <<f, rest>>
       ELSE IF sequentialFetch THEN Goto("single") /\ rest' = batch /\ UNCHANGED f
       ELSE /\ Goto("batch")
            /\ f' = [NoFetch EXCEPT !.batch = batch, !.pending = Range(batch) \cap mail]
            /\ UNCHANGED rest
    /\ UNCHANGED <<serverVars, connVars, cursorVars, searchVars, requested, more, handled, handlerErr, imapErr, given, confirmed, faults>>

\* What the loop notes about the first answer for a requested UID.
Seen(u) == [f EXCEPT !.seen = @ \cup {u}, !.lastUID = u,
                     !.unordered = @ \/ (f.lastUID # 0 /\ u < f.lastUID)]

\* Bug: a gap is taken for an expunged email.
GapPassed(u) == u \in {f.batch[n] : n \in f.next + 1 .. Len(f.batch)}

\* The answer is the next one in order.
Expected(u) == f.next < Len(f.batch) /\ u = f.batch[f.next + 1]

\* An answer with the email.  The handler runs inside the loop, and may outlast
\* the deadline of the command.
Answer(u) ==
    LET g == [Seen(u) EXCEPT !.pending = @ \ {u}] IN
    /\ pc = "batch"
    /\ u \in f.pending
    /\ IF u \in f.seen \/ f.fallbackAt >= 0 \/ f.readErr
       THEN /\ f' = IF u \in f.seen THEN [f EXCEPT !.pending = @ \ {u}] ELSE g
            /\ UNCHANGED <<handled, handlerErr, given, confirmed, faults>>
       ELSE IF ~Expected(u)
       THEN /\ f' = [g EXCEPT !.fallbackAt = f.next]
            /\ UNCHANGED <<handled, handlerErr, given, confirmed, faults>>
       ELSE /\ Callback(u)
            /\ \E slow \in {FALSE, ~handlerErr} :
                  f' = [g EXCEPT !.next = @ + 1, !.expired = @ \/ slow]
    /\ UNCHANGED <<serverVars, connVars, cursorVars, searchVars, requested, more, left, imapErr, pc, rest>>

\* An answer without a body: an unsolicited one, for an email of the mailbox.
NoBody(u) ==
    /\ pc = "batch"
    /\ Fault
    /\ f' = IF u \notin Range(f.batch) \/ u \in f.seen THEN f
            ELSE IF f.fallbackAt >= 0 \/ f.readErr THEN Seen(u)
            ELSE IF ~Expected(u) THEN [Seen(u) EXCEPT !.fallbackAt = f.next]
            ELSE [Seen(u) EXCEPT !.readErr = TRUE]
    /\ UNCHANGED <<serverVars, connVars, cursorVars, searchVars, pollVars, pc, rest, confirmed>>

\* The UIDs FetchRaw still has to fetch one by one.
Fallback == IF f.fallbackAt >= 0 THEN SubSeq(f.batch, f.fallbackAt + 1, Len(f.batch)) ELSE <<>>

\* The command ends: with an error when the connection or its deadline is gone.
EndBatch ==
    /\ pc = "batch"
    /\ sequentialFetch' = (sequentialFetch \/ f.unordered)
    /\ f' = NoFetch
    /\ \/ /\ (f.expired /\ UNCHANGED faults) \/ Fault
          /\ imapErr' = TRUE
          /\ Goto("done")
          /\ UNCHANGED rest
       \/ /\ f.pending = {}
          /\ UNCHANGED faults
          /\ imapErr' = f.readErr
          /\ rest' = IF f.readErr THEN <<>> ELSE Fallback
          /\ Goto(IF f.readErr THEN "done" ELSE IF Fallback # <<>> THEN "single"
                  ELSE IF handlerErr THEN "done" ELSE "deliver")
    /\ UNCHANGED <<serverVars, stage, cursorVars, searchVars, requested, more, left, handled, handlerErr, given, confirmed>>

\* "A message expunged after UID SEARCH is absent from the FETCH response".
fetchRaw(u) == u \in mail

\* One command per UID, whose email is handed over when the command is over.
fetchRawSequential ==
    LET u == Head(rest) IN
    /\ pc = "single"
    /\ \/ /\ IF fetchRaw(u) THEN Callback(u)
                            ELSE UNCHANGED <<handled, handlerErr, given, confirmed, faults>>
          /\ rest' = Tail(rest)
          /\ Goto(IF Tail(rest) # <<>> THEN "single" ELSE AfterBatch)
          /\ UNCHANGED imapErr
       \/ /\ Fault
          /\ imapErr' = TRUE
          /\ rest' = <<>>
          /\ Goto("done")
          /\ UNCHANGED <<handled, handlerErr, given, confirmed>>
    /\ UNCHANGED <<serverVars, connVars, cursorVars, searchVars, requested, more, left, f>>
-----------------------------------------------------------------------------
(* The end of the poll.                                                    *)

\* Bug: the cursor follows the newest confirmed email.
NewestHandled == Max({lastUID} \cup (handled \cap Range(requested)))

\* Bug: the progress of a fetch that failed is dropped.
OnlyClean ==
    IF imapErr THEN lastUID
    ELSE Max({lastUID} \cup {requested[n] : n \in
                {n \in DOMAIN requested : \A m \in 1 .. n : requested[m] \in handled}})

advanceConfirmed ==
    Max({lastUID} \cup {requested[n] : n \in
            {n \in DOMAIN requested : \A m \in 1 .. n : requested[m] \in handled}})

\* A recovery whose range was read without an error or a limit is over.
Finished == toUID # 0 /\ ~imapErr /\ ~handlerErr /\ ~more

\* A session whose command failed is dropped, and sequentialFetch with it.
DropSession ==
    IF imapErr THEN stage' = "closed" /\ sequentialFetch' = FALSE ELSE UNCHANGED connVars

\* poll stores the cursor, unless it was interrupted or the store failed.
CompletePoll ==
    /\ pc = "done"
    /\ DropSession
    /\ \/ /\ lastUID' = IF Finished THEN toUID ELSE advanceConfirmed
          /\ toUID' = IF Finished THEN 0 ELSE toUID
          /\ UNCHANGED faults
       \/ Fault /\ UNCHANGED cursorVars
    /\ Goto("idle")
    /\ start' = 0 /\ to' = 0 /\ found' = <<>> /\ bound' = 0
    /\ requested' = <<>> /\ more' = FALSE /\ left' = <<>>
    /\ handled' = {} /\ handlerErr' = FALSE /\ imapErr' = FALSE /\ given' = {}
    /\ UNCHANGED <<serverVars, f, rest, confirmed>>
-----------------------------------------------------------------------------
Client ==
    \/ Poll \/ StartTLS \/ Authenticate
    \/ \E security \in {"tls", "starttls"} : Dial(security)
    \/ Examine \/ Search \/ Recover
    \/ NextBatch \/ EndBatch \/ fetchRawSequential \/ CompletePoll
    \/ \E u \in f.pending : Answer(u)

Environment ==
    \/ Arrive
    \/ \E u \in mail : Expunge(u) \/ NoBody(u)

Next == Client \/ Environment

Spec == Init /\ [][Next]_vars

\* The scheduler polls again and again, and a poll that runs goes on: every
\* command has a deadline.  Connections and handlers fail finitely often, but a
\* handler may be slow every time, and the server may answer in any order.
FairSpec == Spec /\ WF_vars(Client)
-----------------------------------------------------------------------------
(* What a poll promises.                                                   *)

Fetching == pc \in {"dates", "deliver", "batch", "single"}

\* searchUIDs is exact: the requested UIDs ascend from the cursor, and up to the
\* last one, or up to the end of the range when the limit did not cut it, no email
\* of the mailbox is missing, wherever the windows end and however sparse they are
\* (sync.go:175-177).
SearchExact ==
    Fetching =>
        LET end == IF more THEN requested[Len(requested)] ELSE IF toUID # 0 THEN toUID ELSE bound IN
        /\ \A n \in DOMAIN requested :
              requested[n] > (IF n = 1 THEN lastUID ELSE requested[n - 1])
        /\ \A u \in Searched : lastUID < u /\ u <= end => u \in Range(requested)

\* "sync hands new messages to the handler in UID order" (sync.go:22), whatever the
\* order of the answers; and an email is handed over only after every requested one
\* before it that still exists.
InUIDOrder ==
    [][\A u \in given' \ given :
          /\ \A v \in given : v < u
          /\ \A v \in Range(requested) \cap mail : v < u => v \in given \cup handled]_vars

\* The cursor never passes an email that is still in the mailbox and was not
\* confirmed (sync.go:150), also when a recovery jumps to the end of its range
\* (recovery.go:132-133): what a fetch without an error leaves out is gone.
CursorCovers == \A u \in mail : u <= lastUID => u \in confirmed \cup old

\* Credentials are sent, and commands given, over a secured connection only, and a
\* poll leaves no connection behind that did not get that far (imap.go:155-159).
ConnectClean ==
    /\ pc = "auth" => stage = "secure"
    /\ pc \notin {"idle", "dial", "starttls", "auth"} => stage = "ready"
    /\ pc \in {"idle", "dial"} => stage \in {"closed", "ready"}

\* Every email that stays in the mailbox is confirmed in the end, although handlers
\* may outlast the deadline of every FETCH (imap.go:152-153) and the server may
\* never answer in order.
EventuallyHandled ==
    \A u \in Uids : u \in mail \ old ~> (u \in confirmed \/ u \notin mail)
-----------------------------------------------------------------------------
(* The inductive invariant these rest on.                                  *)

Ascends(s)   == \A i, j \in DOMAIN s : i < j => s[i] < s[j]
Before(s, t) == \A i \in DOMAIN s, j \in DOMAIN t : s[i] < t[j]

\* Every UID in use has been assigned: an email that arrives is beyond them all.
BelowNext ==
    /\ \A u \in mail : u < uidNext
    /\ lastUID < uidNext /\ toUID < uidNext /\ bound < uidNext
    /\ \A n \in DOMAIN found : found[n] < uidNext
    /\ \A n \in DOMAIN requested : requested[n] < uidNext

\* How far Connect has come.
StageInv ==
    /\ pc = "idle" => stage \in {"closed", "ready"}
    /\ pc = "dial" => stage = "closed"
    /\ pc = "starttls" => stage = "plain"
    /\ pc = "auth" => stage = "secure"
    /\ pc \notin {"idle", "dial", "starttls", "auth"} => stage = "ready"

\* Before its search is over, a poll has requested and handled nothing.
BlankInv ==
    pc \notin {"dates", "deliver", "batch", "single", "done"} =>
        /\ requested = <<>> /\ handled = {} /\ given = {}
        /\ ~more /\ ~handlerErr /\ ~imapErr

\* The search has found everything between the cursor and the next window.
SearchInv ==
    pc = "search" =>
        /\ lastUID < start /\ start <= uidNext /\ (to = 0 => start = lastUID + 1)
        /\ IF toUID # 0 THEN to = toUID ELSE to \in {0, bound}
        /\ Ascends(found)
        /\ \A n \in DOMAIN found : lastUID < found[n] /\ found[n] < start
        /\ \A u \in Searched : lastUID < u /\ u < start => u \in Range(found)

\* What was requested has no gap, and reaches the end of the range unless it was
\* cut or the search failed.
RequestInv ==
    Fetching \/ pc = "done" =>
        /\ Ascends(requested)
        /\ \A n \in DOMAIN requested : lastUID < requested[n]
        /\ \A u \in Searched, n \in DOMAIN requested :
              lastUID < u /\ u <= requested[n] => u \in Range(requested)
        /\ ~more /\ ~imapErr =>
              \A u \in Searched :
                 lastUID < u /\ u <= (IF toUID # 0 THEN toUID ELSE bound) => u \in Range(requested)
        /\ more => requested # <<>>
        /\ Fetching => ~imapErr

\* What counts as handled was confirmed, or had been read before.
HandledInv == handled \subseteq confirmed \cup old

\* The UIDs a running FetchRaw works on.
Todo == IF pc = "batch" THEN f.batch ELSE IF pc = "single" THEN rest ELSE <<>>

\* Until a handler fails: what is requested and still exists is handled, in work
\* or left, in this order; and nothing handed over lies beyond what is left.
DeliverInv ==
    /\ pc = "dates" => handled = {} /\ given = {} /\ ~handlerErr
    /\ pc = "deliver" => ~handlerErr
    /\ pc = "single" => rest # <<>>
    /\ pc \in {"deliver", "batch", "single"} =>
          /\ Ascends(left) /\ Ascends(Todo) /\ Before(Todo, left)
          /\ Range(left) \subseteq Range(requested) /\ Range(Todo) \subseteq Range(requested)
          /\ ~handlerErr =>
                /\ \A u \in Range(requested) \cap mail : u \in handled \cup Range(Todo) \cup Range(left)
                /\ \A v \in given, n \in DOMAIN left : v < left[n]
    /\ pc = "single" /\ ~handlerErr => \A v \in given, n \in DOMAIN rest : v < rest[n]
    /\ pc = "done" /\ ~imapErr /\ ~handlerErr => Range(requested) \cap mail \subseteq handled

\* The loop of fetchRawBatch: what it passed was handed over; what is ahead was
\* not, and is still to be answered unless it is gone.
BatchInv ==
    pc = "batch" =>
        /\ f.next <= Len(f.batch) /\ f.fallbackAt \in {-1, f.next}
        /\ ~handlerErr =>
              /\ \A n \in DOMAIN f.batch : n <= f.next => f.batch[n] \in handled
              /\ \A v \in given, n \in DOMAIN f.batch : f.next < n => v < f.batch[n]
        /\ f.fallbackAt = -1 /\ ~f.readErr =>
              \A n \in DOMAIN f.batch : f.next < n =>
                 f.batch[n] \notin f.seen /\ (f.batch[n] \in mail => f.batch[n] \in f.pending)

FetchInv ==
    /\ TypeOK /\ BelowNext /\ StageInv /\ BlankInv /\ SearchInv /\ RequestInv
    /\ HandledInv /\ DeliverInv /\ BatchInv /\ CursorCovers
=============================================================================
