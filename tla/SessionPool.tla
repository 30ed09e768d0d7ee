---------------------------- MODULE SessionPool -----------------------------
(***************************************************************************)
(* The IMAP connections of one instance (internal/polling/scheduler.go and *)
(* worker.go): polls with bounded concurrency, sessions kept open between  *)
(* polls, permits (connSlots) that bound the open connections, the         *)
(* eviction of the least recently used idle session, and the shutdown.     *)
(*                                                                         *)
(* Each step below runs under the scheduler's mutex or is one channel      *)
(* operation.  A Go channel hands a freed place to the goroutine that has  *)
(* waited longest, so a permit given back goes to the head of the queue.   *)
(* A poll forgets its own session and aborts it in one step: nobody but    *)
(* stop looks at the session of a running poll in between.                 *)
(***************************************************************************)
EXTENDS Naturals, Sequences, FiniteSets, Functions

CONSTANTS
    Profiles,
    MaxConcurrency,      \* imap_polling.max_concurrency
    MaxOpenConnections   \* imap_polling.max_open_connections

\* IMAPPollingConfig.validate.
ASSUME PoolAssumption ==
    /\ MaxConcurrency \in Nat \ {0}
    /\ MaxOpenConnections \in Nat /\ MaxOpenConnections >= MaxConcurrency
    /\ IsFiniteSet(Profiles)

VARIABLES
    pc,         \* the poll of each profile; "off" when it is not in running
    sessions,   \* profiles with a cached session, least recently used first
    outdated,   \* profiles whose settings changed since their session was opened
    permits,    \* len(connSlots)
    queue,      \* polls blocked on connSlots
    open,       \* connections whose closeSession has not ended
    closing,    \* connections a goroutine is logging out of
    phase       \* of the scheduler: "on", then the stages of stop()

vars == <<pc, sessions, outdated, permits, queue, open, closing, phase>>

Step == {"off", "session", "acquire", "evict", "enqueue", "wait", "connect", "sync"}

Phase == {"on", "draining", "interrupted", "stopped"}

TypeOK ==
    /\ pc \in [Profiles -> Step]
    /\ sessions \in Seq(Profiles) /\ IsInjective(sessions)
    /\ outdated \subseteq Profiles
    /\ permits \in Nat
    /\ queue \in Seq(Profiles) /\ IsInjective(queue)
    /\ open \in Nat /\ closing \in Nat
    /\ phase \in Phase

Init ==
    /\ pc = [p \in Profiles |-> "off"]
    /\ sessions = <<>> /\ outdated = {}
    /\ permits = 0 /\ queue = <<>>
    /\ open = 0 /\ closing = 0
    /\ phase = "on"

running == {p \in Profiles : pc[p] # "off"}

Cached(p) == p \in Range(sessions)

\* interrupt and the end of stop cancel the context of the polls.
cancelled == phase \in {"interrupted", "stopped"}

\* closeIdleSessions and dispatch are steps of the loop.
looping == phase = "on"

\* s without its element e, if it has it.
Without(s, e) ==
    IF e \notin Range(s) THEN s
    ELSE LET i == CHOOSE i \in DOMAIN s : s[i] = e
         IN  [k \in 1 .. Len(s) - 1 |-> IF k < i THEN s[k] ELSE s[k + 1]]

Goto(p, step) == [pc EXCEPT ![p] = step]
-----------------------------------------------------------------------------
(* Permits and sessions.                                                   *)

\* Bug: the channel has one place too many.
OneTooMany == permits <= MaxOpenConnections

\* connSlots has a free place.
FreePermit == permits < MaxOpenConnections

\* A permit comes back while the polls move to f.
releaseConnSlot(f) ==
    \/ /\ queue = <<>>
       /\ permits' = permits - 1
       /\ pc' = f
       /\ UNCHANGED queue
    \/ /\ queue # <<>>
       /\ pc' = [f EXCEPT ![Head(queue)] = "connect"]
       /\ queue' = Tail(queue)
       /\ UNCHANGED permits

\* closeSession(graceful): a goroutine logs out and then gives the permit back.
logOut(n) == closing' = closing + n /\ UNCHANGED open

\* Bug: the permit is given back twice, by the abort and by a later close.
AbortTwice(f) ==
    /\ open' = open - 1
    /\ closing' = closing + 1
    /\ releaseConnSlot(f)

\* closeSession(not graceful): the connection is gone at once.
abort(f) ==
    /\ open' = open - 1
    /\ releaseConnSlot(f)
    /\ UNCHANGED closing

\* dropSession of p while p's poll moves to the given step.
dropSession(p, graceful, step) ==
    /\ sessions' = Without(sessions, p)
    /\ outdated' = outdated \ {p}
    /\ \/ /\ ~Cached(p)
          /\ pc' = Goto(p, step)
          /\ UNCHANGED <<permits, queue, open, closing>>
       \/ /\ Cached(p) /\ graceful
          /\ logOut(1)
          /\ pc' = Goto(p, step)
          /\ UNCHANGED <<permits, queue>>
       \/ /\ Cached(p) /\ ~graceful
          /\ abort(Goto(p, step))
-----------------------------------------------------------------------------
(* A poll.                                                                 *)

\* dispatch and tryStart.
tryStart(p) ==
    /\ looping
    /\ pc[p] = "off"
    /\ Cardinality(running) < MaxConcurrency
    /\ pc' = Goto(p, "session")
    /\ UNCHANGED <<sessions, outdated, permits, queue, open, closing, phase>>

\* The profile is gone (not graceful), disabled or no longer assigned here.
Unpolled(p, graceful) ==
    /\ pc[p] = "session"
    /\ dropSession(p, graceful, "off")
    /\ UNCHANGED phase

\* A database call of the poll failed; the session is kept.
Skipped(p) ==
    /\ pc[p] = "session"
    /\ pc' = Goto(p, "off")
    /\ UNCHANGED <<sessions, outdated, permits, queue, open, closing, phase>>

\* p becomes the most recently used one.
touchSession(p) == Append(Without(sessions, p), p)

\* session: the cached connection is alive and has the current settings.
Reuse(p) ==
    /\ pc[p] = "session"
    /\ Cached(p) /\ p \notin outdated
    /\ sessions' = touchSession(p)
    /\ pc' = Goto(p, "sync")
    /\ UNCHANGED <<outdated, permits, queue, open, closing, phase>>

\* session: no connection, a dead one (Noop fails) or an outdated one.
Reconnect(p) ==
    /\ pc[p] = "session"
    /\ dropSession(p, p \in outdated, "acquire")
    /\ UNCHANGED phase

\* The credentials cannot be had.
NoCredentials(p) ==
    /\ pc[p] = "acquire"
    /\ pc' = Goto(p, "off")
    /\ UNCHANGED <<sessions, outdated, permits, queue, open, closing, phase>>

\* acquireConnSlot, the first select.
acquireConnSlot(p) ==
    /\ pc[p] = "acquire"
    /\ \/ /\ FreePermit
          /\ permits' = permits + 1
          /\ pc' = Goto(p, "connect")
       \/ /\ ~FreePermit
          /\ pc' = Goto(p, "evict")
          /\ UNCHANGED permits
    /\ UNCHANGED <<sessions, outdated, queue, open, closing, phase>>

\* Bug: no session is ever evicted.
EvictNone(p) == FALSE

\* Bug: a session whose poll is running may be the least recently used one.
EvictAny(p) == TRUE

Evictable(p) == p \notin running

\* The least recently used session no poll is using.
evictForCapacity(p) ==
    /\ pc[p] = "evict"
    /\ pc' = Goto(p, "enqueue")
    /\ \/ \E n \in DOMAIN sessions :
             /\ Evictable(sessions[n]) /\ \A m \in 1 .. n - 1 : ~Evictable(sessions[m])
             /\ sessions' = Without(sessions, sessions[n])
             /\ outdated' = outdated \ {sessions[n]}
             /\ logOut(1)
       \/ /\ \A q \in Range(sessions) : ~Evictable(q)
          /\ UNCHANGED <<sessions, outdated, open, closing>>
    /\ UNCHANGED <<permits, queue, phase>>

\* acquireConnSlot, the second select.
Enqueue(p) ==
    /\ pc[p] = "enqueue"
    /\ \/ /\ FreePermit
          /\ permits' = permits + 1
          /\ pc' = Goto(p, "connect")
          /\ UNCHANGED queue
       \/ /\ ~FreePermit
          /\ queue' = Append(queue, p)
          /\ pc' = Goto(p, "wait")
          /\ UNCHANGED permits
    /\ UNCHANGED <<sessions, outdated, open, closing, phase>>

\* The second select when the context of the polls is done.
GiveUp(p) ==
    /\ pc[p] \in {"enqueue", "wait"}
    /\ cancelled
    /\ queue' = Without(queue, p)
    /\ pc' = Goto(p, "off")
    /\ UNCHANGED <<sessions, outdated, permits, open, closing, phase>>

Connect(p) ==
    /\ pc[p] = "connect"
    /\ open' = open + 1
    /\ sessions' = Append(sessions, p)
    /\ pc' = Goto(p, "sync")
    /\ UNCHANGED <<outdated, permits, queue, closing, phase>>

ConnectFailed(p) ==
    /\ pc[p] = "connect"
    /\ releaseConnSlot(Goto(p, "off"))
    /\ UNCHANGED <<sessions, outdated, open, closing, phase>>

\* sync is over and its result stored.
Complete(p) ==
    /\ pc[p] = "sync"
    /\ pc' = Goto(p, "off")
    /\ UNCHANGED <<sessions, outdated, permits, queue, open, closing, phase>>

\* An IMAP error (not graceful), or the result met another owner.
Drop(p, graceful) ==
    /\ pc[p] = "sync"
    /\ dropSession(p, graceful, "off")
    /\ UNCHANGED phase
-----------------------------------------------------------------------------
(* Between polls.                                                          *)

\* A profile is updated, or its authorization changes.
Update(p) ==
    /\ Cached(p) /\ p \notin outdated
    /\ outdated' = outdated \cup {p}
    /\ UNCHANGED <<pc, sessions, permits, queue, open, closing, phase>>

\* closeIdleSessions: p was not polled for its idle timeout.
closeIdleSession(p) ==
    /\ looping
    /\ Cached(p) /\ p \notin running
    /\ sessions' = Without(sessions, p)
    /\ outdated' = outdated \ {p}
    /\ logOut(1)
    /\ UNCHANGED <<pc, permits, queue, phase>>

\* The goroutine of closeSession ends.
Closed ==
    /\ closing > 0
    /\ closing' = closing - 1
    /\ open' = open - 1
    /\ releaseConnSlot(pc)
    /\ UNCHANGED <<sessions, outdated, phase>>
-----------------------------------------------------------------------------
(* stop.                                                                   *)

stop ==
    /\ phase = "on"
    /\ phase' = "draining"
    /\ UNCHANGED <<pc, sessions, outdated, permits, queue, open, closing>>

\* The shutdown timeout, or the deadline of the stop hook.  The sessions of running
\* polls are aborted in place: they keep their permit until their poll drops them.
interrupt ==
    /\ phase = "draining"
    /\ running # {}
    /\ phase' = "interrupted"
    /\ UNCHANGED <<pc, sessions, outdated, permits, queue, open, closing>>

\* The polls are drained, or the deadline has passed with some still running.
closeAllSessions ==
    /\ phase = "interrupted" \/ (phase = "draining" /\ running = {})
    /\ phase' = "stopped"
    /\ sessions' = <<>>
    /\ outdated' = {}
    /\ logOut(Len(sessions))
    /\ UNCHANGED <<pc, permits, queue>>
-----------------------------------------------------------------------------
poll(p) ==
    \/ \E graceful \in BOOLEAN : Unpolled(p, graceful) \/ Drop(p, graceful)
    \/ Skipped(p) \/ Reuse(p) \/ Reconnect(p) \/ NoCredentials(p)
    \/ acquireConnSlot(p) \/ evictForCapacity(p) \/ Enqueue(p) \/ GiveUp(p)
    \/ Connect(p) \/ ConnectFailed(p) \/ Complete(p)

Next ==
    \/ \E p \in Profiles : tryStart(p) \/ poll(p) \/ Update(p) \/ closeIdleSession(p)
    \/ Closed \/ stop \/ interrupt \/ closeAllSessions

Spec == Init /\ [][Next]_vars

\* Polls and logouts come to an end, a session nobody uses is closed after its idle
\* timeout, dispatch starts every profile of this instance again and again, and the
\* deadlines of stop pass.
FairSpec ==
    /\ Spec
    /\ WF_vars(Closed) /\ WF_vars(interrupt) /\ WF_vars(closeAllSessions)
    /\ \A p \in Profiles : WF_vars(poll(p)) /\ WF_vars(closeIdleSession(p)) /\ SF_vars(tryStart(p))
-----------------------------------------------------------------------------
(* Properties.                                                             *)

\* Polls that hold a permit and have no connection yet.
Connecting(f) == Cardinality({p \in Profiles : f[p] = "connect"})

\* "real open connections never exceed MaxOpenConnections" (worker.go:144-145), with
\* evictions, logouts in progress and reconnections of the same profile under way.
ConnectionsBounded == open <= MaxOpenConnections

\* "a permit is held for a connection's whole life, from Connect to Close/Abort"
\* (scheduler.go:40-41): no path loses a permit or gives it back twice, and a
\* connection belongs to the cache or to a goroutine that closes it.
PermitsExact ==
    /\ permits = open + Connecting(pc)
    /\ open = Len(sessions) + closing

\* "A session currently polling is never closed" (worker.go:167-168), as long as the
\* scheduler is not told to stop.
PollingKept == \A p \in Profiles : pc[p] = "sync" /\ phase # "stopped" => Cached(p)

\* What makes the accounting inductive: a poll that waits is in the queue of connSlots
\* exactly once, so a permit given back reaches one poll, and a poll between
\* dropSession and Connect has no session, so Connect caches a profile once
\* (worker.go:118-165, scheduler.go:38-47).
PoolInv ==
    /\ TypeOK /\ PermitsExact /\ PollingKept
    /\ permits <= MaxOpenConnections
    /\ \A p \in Profiles : pc[p] = "wait" <=> p \in Range(queue)
    /\ \A p \in Profiles :
          pc[p] \in {"acquire", "evict", "enqueue", "wait", "connect"} => ~Cached(p)

\* The last of MaxConcurrency polls to wait for a permit has looked for a session to evict
\* (worker.go:146-160), and no other poll can use one: a connection is being closed, or
\* the permit of one that is closed already is free for the first poll to reach the queue.
GridInv ==
    /\ Cardinality(running) <= MaxConcurrency
    /\ queue # <<>> => ~FreePermit
    /\ Cardinality(running) = MaxConcurrency /\ (\A p \in running : pc[p] \in {"enqueue", "wait"})
          => closing > 0 \/ FreePermit

\* "acquireConnSlot waits for one to free up" (worker.go:191): the polls never all wait
\* for a permit with no connection being closed that would give one back.
NoGridlock ==
    ~(Cardinality({p \in Profiles : pc[p] = "wait"}) = MaxConcurrency /\ closing = 0)

\* A permit is waited for only while "every open session is currently polling"
\* (worker.go:191) or on its way out: an idle session was evicted first.
WaitsForPolling ==
    (\E p \in Profiles : pc[p] = "wait") /\ closing = 0 /\ looping => Range(sessions) \subseteq running

\* "acquireConnSlot waits for one to free up" (worker.go:191): a poll that waits for a
\* permit does not wait forever.
EventuallyConnected == \A p \in Profiles : (pc[p] = "wait") ~> (pc[p] # "wait")
=============================================================================
