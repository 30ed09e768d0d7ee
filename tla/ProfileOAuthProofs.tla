------------------------- MODULE ProfileOAuthProofs -------------------------
(***************************************************************************)
(* The stored refresh token of ProfileOAuth for any number of instances,   *)
(* requests and polls on each, clients, tokens and faults.  OAuthInv is    *)
(* inductive because the mutex of a cache entry covers every step of its   *)
(* instance from the read of the row to its write, a write of another      *)
(* instance in between is recorded in overtaken, and a token is known to   *)
(* one worker only until it is written.                                    *)
(***************************************************************************)
EXTENDS ProfileOAuth, TLAPS

\* Leaves that need arithmetic or many updates at once cite SMT.
USE Zenon

USE OAuthAssumption, JobAssumption

-----------------------------------------------------------------------------
(* Jobs, tokens and types.                                                 *)

\* What a job that is there looks like.
LEMMA JobFields ==
    ASSUME TypeOK, NEW w \in Workers, job[w] # NoJob
    PROVE  /\ job[w] \in Job /\ job[w].kind \in Kind /\ job[w].at \in At
           /\ job[w].client \in Clients \cup {Basic, Gone}
           /\ job[w].token \in 0 .. MaxTokens /\ job[w].next \in 0 .. MaxTokens
           /\ job[w].result \in State
BY DEF TypeOK, Job

\* A worker that is given another job.
LEMMA JobWritten ==
    ASSUME TypeOK, NEW w \in Workers, NEW j \in Job \cup {NoJob}, job' = [job EXCEPT ![w] = j]
    PROVE  /\ job' \in [Workers -> Job \cup {NoJob}] /\ job'[w] = j
           /\ \A v \in Workers \ {w} : job'[v] = job[v]
BY DEF TypeOK

\* A job that starts, or has left the mutex.
LEMMA NewJob ==
    ASSUME NEW k \in Kind, NEW at \in At, NEW c \in Clients \cup {Basic, Gone}
    PROVE  /\ New(k, at, c) \in Job /\ New(k, at, c) # NoJob
           /\ New(k, at, c).kind = k /\ New(k, at, c).at = at
           /\ New(k, at, c).client = c /\ New(k, at, c).next = 0
BY SMT DEF New, Job, State

\* The provider issues one more token.
Grows ==
    /\ Len(issued) \in Nat /\ Len(issued') \in Nat /\ Len(issued) <= Len(issued')
    /\ \A t \in 1 .. Len(issued) : t \in 1 .. Len(issued') /\ issued'[t] = issued[t]

LEMMA Issued ==
    ASSUME TypeOK, NEW c \in Clients, Issue(c)
    PROVE  /\ issued' \in Seq(Clients) /\ Len(issued') = Len(issued) + 1 /\ Len(issued') <= MaxTokens
           /\ issued'[Len(issued) + 1] = c /\ Grows
<1>1. issued \in Seq(Clients) /\ issued' = Append(issued, c) /\ Len(issued) < MaxTokens
  BY DEF TypeOK, Issue
<1>. QED  BY <1>1, SMT DEF Grows

LEMMA NotIssued ==
    ASSUME TypeOK, UNCHANGED issued
    PROVE  Grows
BY SMT DEF Grows, TypeOK

\* RotationKept, without the set of tokens.
Rotated(w) == Is(w, Tokens, "store") /\ job[w].token = stored

LEMMA RotationPointwise ==
    /\ RotationKept <=> stored \in live \cup excused \cup {0} \/ \E w \in Workers : Rotated(w)
    /\ RotationKept' <=> stored' \in live' \cup excused' \cup {0} \/ \E w \in Workers : Rotated(w)'
<1>1. RotationKept <=> stored \in live \cup excused \cup {0} \/ \E w \in Workers : Rotated(w)
  BY DEF RotationKept, Rotated
<1>2. RotationKept' <=> stored' \in live' \cup excused' \cup {0} \/ \E w \in Workers : Rotated(w)'
  BY DEF RotationKept, Rotated, Is
<1>. QED  BY <1>1, <1>2
-----------------------------------------------------------------------------
(* What a step of one worker does to the others.                           *)

\* Their jobs and their hold of a mutex stay, whoever is within its mutex is overtaken by
\* a change of the row, and the tokens on their way stay good and unwritten.
Spared(w, v) ==
    /\ job'[v] = job[v]
    /\ mutex'[Home[v]] = v <=> mutex[Home[v]] = v
    /\ v \in overtaken' => Within(v)
    /\ Within(v) /\ v \notin overtaken' => v \notin overtaken /\ client' = client /\ stored' = stored
    /\ Bringing(v) => job[v].next \in live' \cup excused' /\ job[v].next # stored'

Others(w) == \A v \in Workers \ {w} : Spared(w, v)

LEMMA SparedJob ==
    ASSUME OAuthInv, NEW w \in Workers, NEW v \in Workers, Spared(w, v), Grows
    PROVE  JobInv(v)'
<1>1. JobInv(v) /\ job'[v] = job[v]
  BY DEF OAuthInv, Spared
<1>2. Within(v)' <=> Within(v)
  BY <1>1 DEF Within
<1>3. (mutex'[Home[v]] = v <=> Within(v)') /\ (v \in overtaken' => Within(v)')
  BY <1>1, <1>2 DEF JobInv, Spared
<1>4. ASSUME Bringing(v)' PROVE NewToken(job[v])' /\ job'[v].next # stored'
  <2>1. Bringing(v)
    BY <1>1, <1>4 DEF Bringing
  <2>2. /\ job[v].next \in 1 .. Len(issued) /\ issued[job[v].next] = job[v].client
        /\ job[v].next \in live' \cup excused' /\ job[v].next # stored'
    BY <1>1, <2>1 DEF JobInv, NewToken, Spared
  <2>. QED  BY <1>1, <2>2 DEF NewToken, Grows
<1>5. \A t : t \in 1 .. Len(issued) => t \in 1 .. Len(issued')
  BY DEF Grows
<1>. QED  BY <1>1, <1>3, <1>4, <1>5 DEF JobInv

LEMMA SparedSeen ==
    ASSUME OAuthInv, NEW w \in Workers, NEW v \in Workers, Spared(w, v)
    PROVE  SeenInv(v)'
<1>1. SeenInv(v) /\ job'[v] = job[v]
  BY DEF OAuthInv, Spared
<1>2. SUFFICES ASSUME Within(v)', v \notin overtaken' PROVE SeenInv(v)'
  BY DEF SeenInv
<1>3. Within(v) /\ v \notin overtaken /\ client' = client /\ stored' = stored
  BY <1>1, <1>2 DEF Within, Spared
<1>. QED  BY <1>1, <1>3 DEF SeenInv

\* The whole invariant, from what it says of the worker and of the row.
LEMMA WorkerStep ==
    ASSUME OAuthInv, NEW w \in Workers, TypeOK', Grows, Others(w),
           TokenOfClient', RotationKept', client' = Gone => stored' = 0,
           JobInv(w)', SeenInv(w)', \A v \in Workers : Unread(w, v)' /\ Unread(v, w)'
    PROVE  OAuthInv'
<1>1. ASSUME NEW v \in Workers PROVE JobInv(v)' /\ SeenInv(v)'
  <2>1. CASE v = w
    BY <2>1
  <2>2. CASE v # w
    <3>1. Spared(w, v)
      BY <2>2 DEF Others
    <3>. QED  BY <3>1, SparedJob, SparedSeen
  <2>. QED  BY <2>1, <2>2
<1>2. ASSUME NEW v \in Workers, NEW u \in Workers PROVE Unread(v, u)'
  <2>1. CASE v = w \/ u = w
    BY <2>1
  <2>2. CASE v # w /\ u # w
    <3>1. Unread(v, u) /\ job'[v] = job[v] /\ job'[u] = job[u]
      BY <2>2 DEF OAuthInv, Others, Spared
    <3>. QED  BY <3>1 DEF Unread, Bringing, Is
  <2>. QED  BY <2>1, <2>2
<1>. QED  BY <1>1, <1>2 DEF OAuthInv

\* A worker that is left outside the mutex.
Left(w) ==
    /\ mutex'[Home[w]] # w /\ w \notin overtaken'
    /\ job'[w] # NoJob =>
          /\ job'[w].at \in {"lock", "write"} /\ (job'[w].at = "lock" => job'[w].next = 0)
          /\ job'[w].kind # "update" /\ (job'[w].kind = "complete" => job'[w].client \in Clients)

LEMMA LeftStep ==
    ASSUME OAuthInv, NEW w \in Workers, TypeOK', Grows, Others(w), Left(w),
           TokenOfClient', RotationKept', client' = Gone => stored' = 0
    PROVE  OAuthInv'
<1>1. ~Within(w)' /\ ~Bringing(w)' /\ ~Is(w, Tokens, "refresh")' /\ ~Is(w, Tokens, "store")'
  BY DEF Left, Within, Guarded, Bringing, Is
<1>2. JobInv(w)'
  BY <1>1 DEF Left, JobInv
<1>3. SeenInv(w)'
  BY <1>1 DEF SeenInv
<1>4. \A v \in Workers : Unread(w, v)' /\ Unread(v, w)'
  BY <1>1 DEF Unread
<1>. QED  BY <1>2, <1>3, <1>4, WorkerStep

\* Under a mutex is one worker of the instance: its holder.
LEMMA Holder ==
    ASSUME OAuthInv, NEW w \in Workers, NEW v \in Workers \ {w}, Within(v),
           Within(w) \/ mutex[Home[w]] \in {w, Free}
    PROVE  Home[v] # Home[w]
<1>1. JobInv(v) /\ JobInv(w)
  BY DEF OAuthInv
<1>2. mutex[Home[v]] = v /\ mutex[Home[w]] # v
  BY <1>1 DEF JobInv
<1>. QED  BY <1>2

\* The mutex of w changes hands, or stays.
LEMMA MutexStep ==
    ASSUME OAuthInv, NEW w \in Workers, NEW m \in {w, Free},
           mutex[Home[w]] \in {w, Free}, mutex' = [mutex EXCEPT ![Home[w]] = m]
    PROVE  /\ mutex' \in [Instances -> Workers \cup {Free}] /\ mutex'[Home[w]] = m
           /\ \A v \in Workers \ {w} : mutex'[Home[v]] = v <=> mutex[Home[v]] = v
<1>1. mutex \in [Instances -> Workers \cup {Free}] /\ Home[w] \in Instances
  BY DEF OAuthInv, TypeOK
<1>2. mutex' \in [Instances -> Workers \cup {Free}] /\ mutex'[Home[w]] = m
  BY <1>1
<1>3. ASSUME NEW v \in Workers \ {w} PROVE mutex'[Home[v]] = v <=> mutex[Home[v]] = v
  <2>1. CASE Home[v] = Home[w]
    <3>1. v # w /\ v # Free
      OBVIOUS
    <3>2. mutex'[Home[v]] # v /\ mutex[Home[v]] # v
      BY <1>2, <2>1, <3>1
    <3>. QED  BY <3>2
  <2>2. CASE Home[v] # Home[w]
    BY <1>1, <2>2
  <2>. QED  BY <2>1, <2>2
<1>. QED  BY <1>2, <1>3

\* The others, while the row stays and no token gets lost.
LEMMA QuietOthers ==
    ASSUME OAuthInv, NEW w \in Workers, NEW j \in Job \cup {NoJob}, job' = [job EXCEPT ![w] = j],
           \A v \in Workers \ {w} : mutex'[Home[v]] = v <=> mutex[Home[v]] = v,
           overtaken' \in {overtaken, overtaken \ {w}}, UNCHANGED <<client, stored>>,
           live \cup excused \subseteq live' \cup excused'
    PROVE  Others(w)
<1>1. ASSUME NEW v \in Workers \ {w} PROVE Spared(w, v)
  <2>1. TypeOK /\ JobInv(v)
    BY DEF OAuthInv
  <2>2. job'[v] = job[v]
    BY <2>1, JobWritten
  <2>3. v \in overtaken' <=> v \in overtaken
    OBVIOUS
  <2>4. Bringing(v) => job[v].next \in live' \cup excused' /\ job[v].next # stored'
    BY <2>1 DEF JobInv, NewToken
  <2>5. v \in overtaken => Within(v)
    BY <2>1 DEF JobInv
  <2>. QED  BY <2>2, <2>3, <2>4, <2>5 DEF Spared
<1>. QED  BY <1>1 DEF Others

\* RotationKept while the row stays, no token gets lost and w stores none.
LEMMA QuietRotation ==
    ASSUME OAuthInv, NEW w \in Workers, Others(w), stored' = stored,
           live \cup excused \subseteq live' \cup excused',
           ~Rotated(w) \/ Rotated(w)' \/ stored \in live' \cup excused' \cup {0}
    PROVE  RotationKept'
<1>1. \A v \in Workers \ {w} : Rotated(v) => Rotated(v)'
  BY DEF Others, Spared, Rotated, Is
<1>2. RotationKept
  BY DEF OAuthInv
<1>. QED  BY <1>1, <1>2, RotationPointwise

LEMMA QuietToken ==
    ASSUME OAuthInv, UNCHANGED <<client, stored, crossed>>, Grows
    PROVE  TokenOfClient' /\ (client' = Gone => stored' = 0)
<1>1. TokenOfClient /\ stored \in 0 .. Len(issued) /\ (client = Gone => stored = 0)
  BY DEF OAuthInv, TypeOK
<1>2. stored # 0 => stored \in 1 .. Len(issued)
  BY <1>1, SMT DEF Grows
<1>. QED  BY <1>1, <1>2 DEF TokenOfClient, Grows
-----------------------------------------------------------------------------
(* Outside the mutex.                                                      *)

\* A request or a poll arrives, is refused, or writes its result.
LEMMA OutsideStep ==
    ASSUME OAuthInv, NEW w \in Workers, NEW j \in Job \cup {NoJob}, job' = [job EXCEPT ![w] = j],
           ~Within(w), UNCHANGED <<client, stored, lockVars, cache, providerVars>>, conn' \in State,
           j # NoJob => /\ j.at = "lock" /\ j.next = 0 /\ j.kind # "update"
                        /\ j.kind = "complete" => j.client \in Clients
    PROVE  OAuthInv'
<1>1. TypeOK /\ JobInv(w) /\ UNCHANGED <<mutex, overtaken, crossed, issued, live, excused>>
  BY DEF OAuthInv, lockVars, providerVars
<1>2. job' \in [Workers -> Job \cup {NoJob}] /\ job'[w] = j
  BY <1>1, JobWritten
<1>3. TypeOK'
  BY <1>1, <1>2 DEF TypeOK
<1>4. Left(w)
  BY <1>1, <1>2 DEF Left, JobInv
<1>5. Grows /\ ~Rotated(w)
  BY <1>1, NotIssued DEF Rotated, Is, Within, Guarded
<1>6. Others(w)
  BY <1>1, QuietOthers
<1>7. RotationKept'
  BY <1>1, <1>5, <1>6, QuietRotation
<1>8. TokenOfClient' /\ (client' = Gone => stored' = 0)
  BY <1>1, <1>5, QuietToken
<1>. QED  BY <1>3, <1>4, <1>5, <1>6, <1>7, <1>8, LeftStep

LEMMA ArrivalKeeps ==
    ASSUME OAuthInv, NEW w \in Workers, BeginPoll(w) \/ BeginTest(w) \/ BeginOAuth(w)
    PROVE  OAuthInv'
<1>1. PICK kind \in {"poll", "test", "complete"}, c \in Clients \cup {Basic, Gone} :
          Begin(w, kind, c) /\ (kind = "complete" => c \in Clients)
  BY DEF BeginPoll, BeginTest, BeginOAuth, newOAuthState
<1>2. kind \in Kind /\ "lock" \in At
  BY DEF Kind, At
<1>3. /\ New(kind, "lock", c) \in Job /\ New(kind, "lock", c).at = "lock" /\ New(kind, "lock", c).next = 0
      /\ New(kind, "lock", c).kind = kind /\ New(kind, "lock", c).client = c
  BY <1>2, NewJob, SMT
<1>4. /\ ~Within(w) /\ job' = [job EXCEPT ![w] = New(kind, "lock", c)]
      /\ UNCHANGED <<client, stored, lockVars, cache, providerVars, conn>>
  BY <1>1 DEF Begin, Idle, Within, rowVars
<1>5. conn' \in State
  BY <1>4 DEF OAuthInv, TypeOK
<1>. QED  BY <1>1, <1>3, <1>4, <1>5, OutsideStep

LEMMA AnswerKeeps ==
    ASSUME OAuthInv, NEW w \in Workers, StateRefused(w) \/ storeTestResult(w) \/ CompletePoll(w)
    PROVE  OAuthInv'
<1>1. /\ ~Within(w) /\ job[w] # NoJob /\ job' = [job EXCEPT ![w] = NoJob]
      /\ UNCHANGED <<client, stored, lockVars, cache, providerVars>>
  BY DEF StateRefused, storeTestResult, CompletePoll, Is, Within, Guarded, Finish, rowVars
<1>2. conn \in State /\ job[w].result \in State
  BY <1>1, JobFields DEF OAuthInv, TypeOK
<1>3. conn' \in State
  <2>1. CASE UNCHANGED conn
    BY <1>2, <2>1
  <2>2. CASE \E state \in testConnections(w) \cup Sync(w) : SetConnectionResult(state)
    <3>1. testConnections(w) \subseteq State
      BY <1>2, SMT DEF testConnections, connectionState, State
    <3>2. Sync(w) \subseteq State
      BY <1>2, SMT DEF Sync, State
    <3>. QED  BY <1>2, <2>2, <3>1, <3>2 DEF SetConnectionResult
  <2>. QED  BY <2>1, <2>2 DEF StateRefused, storeTestResult, CompletePoll, rowVars
<1>. QED  BY <1>1, <1>3, OutsideStep
-----------------------------------------------------------------------------
(* Taking the mutex and reading the row.                                   *)

\* A step of a worker that holds its mutex afterwards and brings no token: it has read
\* the row as it is, and nothing else changes.
LEMMA ReadingStep ==
    ASSUME OAuthInv, NEW w \in Workers, NEW j \in Job, job' = [job EXCEPT ![w] = j], j.at \in Guarded \ {"store"},
           mutex[Home[w]] \in {w, Free}, mutex' = [mutex EXCEPT ![Home[w]] = w],
           ~Is(w, Tokens, "store"), UNCHANGED <<rowVars, overtaken, crossed, cache, providerVars>>,
           j.kind = "complete" => j.at = "exchange",
           j.at = "exchange" => j.kind = "complete" /\ j.next = 0,
           j.at = "save" => j.next = 0,
           j.kind = "update" => j.client \in Clients \cup {Basic},
           j.kind = "complete" => j.client \in Clients,
           j.at \in {"read", "refresh"} => j.client \in Clients /\ j.kind \in Tokens,
           j.at = "refresh" => j.token = stored /\ stored # 0,
           w \notin overtaken => (j.at \in {"read", "refresh", "exchange"} => j.client = client)
    PROVE  OAuthInv'
<1>1. TypeOK /\ UNCHANGED <<client, stored, conn, issued, live, excused>>
  BY DEF OAuthInv, rowVars, providerVars
<1>2. job' \in [Workers -> Job \cup {NoJob}] /\ job'[w] = j /\ j # NoJob
  BY <1>1, JobWritten
<1>3. /\ mutex' \in [Instances -> Workers \cup {Free}] /\ mutex'[Home[w]] = w
      /\ \A v \in Workers \ {w} : mutex'[Home[v]] = v <=> mutex[Home[v]] = v
  BY MutexStep
<1>4. TypeOK'
  BY <1>1, <1>2, <1>3 DEF TypeOK
<1>5. Grows /\ ~Rotated(w)
  BY <1>1, NotIssued DEF Rotated
<1>6. Others(w)
  BY <1>1, <1>3, QuietOthers
<1>7. RotationKept'
  BY <1>1, <1>5, <1>6, QuietRotation
<1>8. TokenOfClient' /\ (client' = Gone => stored' = 0)
  BY <1>1, <1>5, QuietToken
<1>9. stored # 0 => stored \in 1 .. Len(issued)
  BY <1>1, SMT DEF TypeOK
<1>10. Within(w)' /\ ~Bringing(w)' /\ ~Is(w, Tokens, "store")'
  BY <1>2 DEF Within, Bringing, Is, Guarded
<1>11. JobInv(w)'
  BY <1>1, <1>2, <1>3, <1>9, <1>10, SMT DEF JobInv, Guarded
<1>12. SeenInv(w)'
  BY <1>1, <1>2 DEF SeenInv
<1>13. ASSUME NEW v \in Workers PROVE Unread(w, v)' /\ Unread(v, w)'
  <2>1. Unread(w, v)'
    BY <1>10 DEF Unread
  <2>2. ASSUME Bringing(v)', Is(w, Tokens, "refresh")' PROVE job'[w].token # job'[v].next
    <3>1. v # w
      BY <1>10, <2>2
    <3>2. job'[v] = job[v] /\ Bringing(v) /\ JobInv(v)
      BY <2>2, <3>1, <1>6 DEF Others, Spared, Bringing, OAuthInv
    <3>3. job[v].next # stored
      BY <3>2 DEF JobInv
    <3>. QED  BY <1>2, <2>2, <3>2, <3>3 DEF Is
  <2>3. Unread(v, w)'
    BY <1>10, <2>2 DEF Unread
  <2>. QED  BY <2>1, <2>3
<1>. QED  BY <1>4, <1>5, <1>6, <1>7, <1>8, <1>11, <1>12, <1>13, WorkerStep

\* store.Locate: the job goes on with the row as it is.
LEMMA LocateKeeps ==
    ASSUME OAuthInv, NEW w \in Workers, Locate(w)
    PROVE  OAuthInv'
<1>1. /\ job[w] # NoJob /\ job[w].at = "lock" /\ client \in Clients /\ Take(w)
      /\ UNCHANGED <<rowVars, overtaken, crossed, cache, providerVars>>
  BY DEF Locate, Is, Take
<1>2. TypeOK /\ JobInv(w) /\ job[w] \in Job /\ job[w].next = 0 /\ ~Is(w, Tokens, "store")
  BY <1>1, JobFields DEF OAuthInv, JobInv, Is
<1>3. mutex[Home[w]] = Free /\ mutex' = [mutex EXCEPT ![Home[w]] = w]
  BY <1>1 DEF Take
<1>4. ASSUME job[w].kind \in Tokens, job' = [job EXCEPT ![w].at = "read", ![w].client = client]
      PROVE  OAuthInv'
  <2>1. PICK j \in Job : j = [job[w] EXCEPT !.at = "read", !.client = client]
    <3>1. [job[w] EXCEPT !.at = "read", !.client = client] \in Job
      BY <1>1, <1>2 DEF Job, At
    <3>. QED  BY <3>1
  <2>2. j.at = "read" /\ j.client = client /\ j.kind = job[w].kind
    BY <1>2, <2>1 DEF Job
  <2>3. job' = [job EXCEPT ![w] = j]
    BY <1>4, <2>1
  <2>4. j.kind # "complete" /\ j.kind # "update" /\ j.at \in Guarded \ {"store"}
    BY <1>4, <2>2 DEF Tokens, Guarded
  <2>. QED  BY <1>1, <1>2, <1>3, <1>4, <2>2, <2>3, <2>4, ReadingStep
<1>5. ASSUME job[w].kind = "complete", client = job[w].client, job' = [job EXCEPT ![w].at = "exchange"]
      PROVE  OAuthInv'
  <2>1. PICK j \in Job : j = [job[w] EXCEPT !.at = "exchange"]
    <3>1. [job[w] EXCEPT !.at = "exchange"] \in Job
      BY <1>1, <1>2 DEF Job, At
    <3>. QED  BY <3>1
  <2>2. j.at = "exchange" /\ j.client = client /\ j.kind = "complete" /\ j.next = 0
    BY <1>2, <1>5, <2>1 DEF Job
  <2>3. job' = [job EXCEPT ![w] = j] /\ j.at \in Guarded \ {"store"}
    BY <1>5, <2>1, <2>2 DEF Guarded
  <2>. QED  BY <1>1, <1>2, <1>3, <2>2, <2>3, ReadingStep
<1>. QED  BY <1>4, <1>5 DEF Locate

\* DisconnectOAuth and Update up to their write.
LEMMA ChangeKeeps ==
    ASSUME OAuthInv, NEW w \in Workers, DisconnectOAuth(w) \/ BeginUpdate(w)
    PROVE  OAuthInv'
<1>1. PICK kind \in {"disconnect", "update"}, c \in Clients \cup {Basic, Gone} :
          /\ job' = [job EXCEPT ![w] = New(kind, "save", c)]
          /\ kind = "update" => c \in Clients \cup {Basic}
  BY DEF DisconnectOAuth, BeginUpdate
<1>2. kind \in Kind /\ "save" \in At
  BY DEF Kind, At
<1>3. PICK j \in Job : j = New(kind, "save", c) /\ j.kind = kind /\ j.at = "save" /\ j.client = c /\ j.next = 0
  BY <1>2, NewJob, SMT
<1>4. /\ mutex[Home[w]] = Free /\ mutex' = [mutex EXCEPT ![Home[w]] = w] /\ ~Is(w, Tokens, "store")
      /\ UNCHANGED <<rowVars, overtaken, crossed, cache, providerVars>>
  BY DEF DisconnectOAuth, BeginUpdate, Idle, Is, Take
<1>5. j.at \in Guarded \ {"store"} /\ j.kind # "complete"
  BY <1>3 DEF Guarded
<1>. QED  BY <1>1, <1>3, <1>4, <1>5, ReadingStep

\* The second read: the token the job then refreshes.
LEMMA ReadTokenKeeps ==
    ASSUME OAuthInv, NEW w \in Workers, ReadToken(w)
    PROVE  OAuthInv'
<1>1. /\ job[w] # NoJob /\ job[w].at = "read" /\ job[w].kind \in Tokens /\ stored # 0
      /\ job' = [job EXCEPT ![w].at = "refresh", ![w].token = stored]
      /\ UNCHANGED <<rowVars, mutex, overtaken, crossed, cache, providerVars>>
  BY DEF ReadToken, Is, lockVars
<1>2. TypeOK /\ JobInv(w) /\ SeenInv(w) /\ job[w] \in Job /\ Within(w) /\ ~Is(w, Tokens, "store")
  BY <1>1, JobFields DEF OAuthInv, Is, Within, Guarded
<1>3. mutex[Home[w]] = w /\ mutex' = [mutex EXCEPT ![Home[w]] = w]
  BY <1>1, <1>2 DEF JobInv, TypeOK
<1>4. stored \in 0 .. MaxTokens
  BY <1>2, SMT DEF TypeOK
<1>5. PICK j \in Job : j = [job[w] EXCEPT !.at = "refresh", !.token = stored]
  <2>1. [job[w] EXCEPT !.at = "refresh", !.token = stored] \in Job
    BY <1>2, <1>4 DEF Job, At
  <2>. QED  BY <2>1
<1>6. j.at = "refresh" /\ j.token = stored /\ j.client = job[w].client /\ j.kind = job[w].kind
  BY <1>2, <1>5 DEF Job
<1>7. job' = [job EXCEPT ![w] = j]
  BY <1>1, <1>5
<1>8. job[w].client \in Clients /\ (w \notin overtaken => job[w].client = client)
  BY <1>1, <1>2 DEF JobInv, SeenInv
<1>9. j.at \in Guarded \ {"store"} /\ j.kind # "complete" /\ j.kind # "update"
  BY <1>1, <1>6 DEF Guarded, Tokens
<1>. QED  BY <1>1, <1>2, <1>3, <1>6, <1>7, <1>8, <1>9, ReadingStep
-----------------------------------------------------------------------------
(* Leaving the mutex.                                                      *)

\* The job ends, or goes on to write its result.
Leaves(w) ==
    \E j \in Job \cup {NoJob} :
        job' = [job EXCEPT ![w] = j] /\ (j # NoJob => j.at = "write" /\ j.kind \in Tokens)

LEMMA WaysToLeave ==
    ASSUME TypeOK, NEW w \in Workers
    PROVE  /\ Finish(w) => Leaves(w)
           /\ \A s \in State : job[w].kind \in Tokens /\ Failed(w, s) => Leaves(w)
           /\ \A t : job[w].kind \in Tokens /\ Got(w, t) => Leaves(w)
<1>1. Finish(w) => Leaves(w)
  BY DEF Finish, Leaves
<1>. DEFINE n == New(job[w].kind, "write", Gone)
<1>2. ASSUME job[w].kind \in Tokens PROVE n \in Job /\ n.kind = job[w].kind /\ n.at = "write"
  <2>1. job[w].kind \in Kind /\ "write" \in At
    BY <1>2 DEF Tokens, Kind, At
  <2>. QED  BY <2>1, NewJob, SMT
<1>3. ASSUME NEW s \in State, job[w].kind \in Tokens, Failed(w, s) PROVE Leaves(w)
  <2>1. job' = [job EXCEPT ![w] = [n EXCEPT !.result = s]]
    BY <1>3 DEF Failed
  <2>. HIDE DEF n
  <2>2. PICK j \in Job : j = [n EXCEPT !.result = s]
    <3>1. [n EXCEPT !.result = s] \in Job
      BY <1>2, <1>3 DEF Job
    <3>. QED  BY <3>1
  <2>3. j.at = "write" /\ j.kind \in Tokens
    BY <1>2, <1>3, <2>2 DEF Job
  <2>. QED  BY <2>1, <2>2, <2>3 DEF Leaves
<1>4. ASSUME NEW t, job[w].kind \in Tokens, Got(w, t) PROVE Leaves(w)
  <2>1. job' = [job EXCEPT ![w] = n]
    BY <1>4 DEF Got
  <2>. HIDE DEF n
  <2>. QED  BY <1>2, <1>4, <2>1 DEF Leaves
<1>. QED  BY <1>1, <1>3, <1>4

LEMMA LeavesFacts ==
    ASSUME OAuthInv, NEW w \in Workers, Leaves(w), mutex'[Home[w]] = Free, w \notin overtaken'
    PROVE  job' \in [Workers -> Job \cup {NoJob}] /\ Left(w)
<1>1. PICK j \in Job \cup {NoJob} :
          job' = [job EXCEPT ![w] = j] /\ (j # NoJob => j.at = "write" /\ j.kind \in Tokens)
  BY DEF Leaves
<1>2. job' \in [Workers -> Job \cup {NoJob}] /\ job'[w] = j
  BY <1>1, JobWritten DEF OAuthInv
<1>. QED  BY <1>1, <1>2 DEF Left, Tokens

\* Leaving without a write of the row.
LEMMA LeaveStep ==
    ASSUME OAuthInv, NEW w \in Workers, Leaves(w), Unlock(w), mutex[Home[w]] \in {w, Free},
           UNCHANGED <<rowVars, issued>>, cache' \in [Instances -> 0 .. Len(issued)],
           live' \subseteq 1 .. Len(issued), excused' \subseteq 1 .. Len(issued),
           live \cup excused \subseteq live' \cup excused',
           ~Rotated(w) \/ stored \in live' \cup excused' \cup {0}
    PROVE  OAuthInv'
<1>1. TypeOK /\ UNCHANGED <<client, stored, conn, crossed>>
  BY DEF OAuthInv, rowVars, Unlock
<1>2. mutex' = [mutex EXCEPT ![Home[w]] = Free] /\ overtaken' = overtaken \ {w}
  BY DEF Unlock
<1>3. /\ mutex' \in [Instances -> Workers \cup {Free}] /\ mutex'[Home[w]] = Free
      /\ \A v \in Workers \ {w} : mutex'[Home[v]] = v <=> mutex[Home[v]] = v
  BY <1>2, MutexStep
<1>4. job' \in [Workers -> Job \cup {NoJob}] /\ Left(w)
  BY <1>2, <1>3, LeavesFacts
<1>5. TypeOK'
  BY <1>1, <1>2, <1>3, <1>4 DEF TypeOK
<1>6. Grows
  BY <1>1, NotIssued
<1>7. PICK j \in Job \cup {NoJob} : job' = [job EXCEPT ![w] = j]
  BY DEF Leaves
<1>8. Others(w)
  BY <1>1, <1>2, <1>3, <1>7, QuietOthers
<1>9. RotationKept'
  BY <1>1, <1>8, QuietRotation
<1>10. TokenOfClient' /\ (client' = Gone => stored' = 0)
  BY <1>1, <1>6, QuietToken
<1>. QED  BY <1>4, <1>5, <1>6, <1>8, <1>9, <1>10, LeftStep

\* Steps that end without a token or with an error.
LEMMA RefusedKeeps ==
    ASSUME OAuthInv, NEW w \in Workers, NotConnected(w) \/ CredentialsFailed(w) \/ SaveFailed(w)
    PROVE  OAuthInv'
<1>1. TypeOK /\ JobInv(w)
  BY DEF OAuthInv
<1>2. /\ job[w] # NoJob /\ job[w].at # "store" /\ UNCHANGED <<rowVars, cache, issued, live, excused>>
      /\ (Within(w) \/ mutex[Home[w]] = Free)
  BY DEF NotConnected, CredentialsFailed, SaveFailed, Is, Within, Guarded, providerVars
<1>3. mutex[Home[w]] \in {w, Free} /\ ~Rotated(w)
  BY <1>1, <1>2 DEF JobInv, Rotated, Is
<1>4. Leaves(w) /\ Unlock(w)
  <2>1. \/ Finish(w) /\ Unlock(w)
        \/ job[w].kind \in Tokens /\ \E s \in State : Failed(w, s)
    BY DEF NotConnected, CredentialsFailed, SaveFailed, State, Tokens
  <2>. QED  BY <1>1, <2>1, WaysToLeave DEF Failed
<1>5. /\ cache' \in [Instances -> 0 .. Len(issued)]
      /\ live' \subseteq 1 .. Len(issued) /\ excused' \subseteq 1 .. Len(issued)
  BY <1>1, <1>2 DEF TypeOK
<1>. QED  BY <1>2, <1>3, <1>4, <1>5, LeaveStep
-----------------------------------------------------------------------------
(* Refreshes and exchanges.                                                *)

LEMMA AtRefresh ==
    ASSUME OAuthInv, NEW w \in Workers, Is(w, Tokens, "refresh") \/ Is(w, Tokens, "store")
    PROVE  /\ job[w] # NoJob /\ job[w] \in Job /\ job[w].kind \in Tokens /\ Within(w)
           /\ mutex[Home[w]] = w /\ job[w].client \in Clients /\ job[w].token \in 1 .. Len(issued)
           /\ w \notin overtaken => job[w].token = stored /\ job[w].client = client
<1>1. job[w] # NoJob /\ job[w].kind \in Tokens /\ job[w].at \in {"refresh", "store"}
  BY DEF Is
<1>2. TypeOK /\ JobInv(w) /\ SeenInv(w) /\ job[w] \in Job /\ Within(w)
  BY <1>1, JobFields DEF OAuthInv, Within, Guarded
<1>. QED  BY <1>1, <1>2 DEF JobInv, SeenInv

\* A worker with a token that was just issued: nobody else has it.
LEMMA BringStep ==
    ASSUME OAuthInv, NEW w \in Workers, Within(w), ~Bringing(w), NEW j \in Job, job' = [job EXCEPT ![w] = j],
           Issue(j.client), j.client \in Clients, j.next = Len(issued) + 1,
           live \ {j.token} \subseteq live', live' \subseteq live \cup {j.next}, j.next \in live',
           UNCHANGED <<rowVars, lockVars, cache, excused>>,
           \/ /\ j.at = "store" /\ j.kind \in Tokens /\ j.token = job[w].token
              /\ job[w].client = j.client /\ Is(w, Tokens, "refresh")
           \/ /\ j.at = "save" /\ j.kind = "complete" /\ live \subseteq live'
              /\ w \notin overtaken => j.client = client
    PROVE  OAuthInv'
<1>1. /\ TypeOK /\ JobInv(w) /\ RotationKept
      /\ UNCHANGED <<client, stored, conn, mutex, overtaken, crossed, excused, cache>>
  BY DEF OAuthInv, rowVars, lockVars
<1>2. job' \in [Workers -> Job \cup {NoJob}] /\ job'[w] = j /\ j # NoJob
      /\ \A v \in Workers \ {w} : job'[v] = job[v]
  BY <1>1, JobWritten
<1>3. /\ issued' \in Seq(Clients) /\ Len(issued') = Len(issued) + 1 /\ Len(issued') <= MaxTokens
      /\ issued'[j.next] = j.client /\ Grows
  BY <1>1, Issued
<1>4. j.next \in 1 .. Len(issued') /\ \A t \in 0 .. Len(issued) : t # j.next /\ t \in 0 .. Len(issued')
  BY <1>3, SMT DEF Grows
<1>5. TypeOK'
  <2>1. live' \subseteq 1 .. Len(issued') /\ excused' \subseteq 1 .. Len(issued')
    BY <1>1, <1>3, <1>4 DEF TypeOK, Grows
  <2>2. stored' \in 0 .. Len(issued') /\ cache' \in [Instances -> 0 .. Len(issued')]
    BY <1>1, <1>4 DEF TypeOK
  <2>. QED  BY <1>1, <1>2, <1>3, <2>1, <2>2 DEF TypeOK
<1>6. ASSUME NEW v \in Workers, Is(v, Tokens, "refresh") \/ Is(v, Tokens, "store") PROVE job[v].token # j.next
  <2>1. job[v].token \in 0 .. Len(issued)
    BY <1>3, <1>6, AtRefresh, SMT DEF Grows
  <2>. QED  BY <1>4, <2>1
<1>7. ASSUME NEW v \in Workers, Bringing(v) PROVE job[v].next # j.next
  <2>1. job[v].next \in 1 .. Len(issued)
    BY <1>7 DEF OAuthInv, JobInv, NewToken
  <2>2. job[v].next \in 0 .. Len(issued)
    BY <1>3, <2>1, SMT DEF Grows
  <2>. QED  BY <1>4, <2>2
<1>8. Others(w)
  <2>1. ASSUME NEW v \in Workers \ {w} PROVE Spared(w, v)
    <3>1. job'[v] = job[v] /\ JobInv(v) /\ Unread(v, w)
      BY <1>2 DEF OAuthInv
    <3>2. ASSUME Bringing(v) PROVE job[v].next \in live' \cup excused' /\ job[v].next # stored'
      <4>1. job[v].next \in live \cup excused /\ job[v].next # stored
        BY <3>1, <3>2 DEF JobInv, NewToken
      <4>2. job[v].next # j.token \/ live \subseteq live'
        BY <3>1, <3>2 DEF Unread
      <4>. QED  BY <1>1, <4>1, <4>2
    <3>3. v \in overtaken => Within(v)
      BY <3>1 DEF JobInv
    <3>. QED  BY <1>1, <3>1, <3>2, <3>3 DEF Spared
  <2>. QED  BY <2>1 DEF Others
<1>9. TokenOfClient' /\ (client' = Gone => stored' = 0)
  BY <1>1, <1>3, QuietToken
<1>10. RotationKept'
  <2>1. \A v \in Workers \ {w} : Rotated(v) => Rotated(v)'
    BY <1>1, <1>2 DEF Rotated, Is
  <2>2. ~Rotated(w)
    BY DEF Rotated, Is, Bringing
  <2>3. CASE \E v \in Workers : Rotated(v)
    BY <2>1, <2>2, <2>3, RotationPointwise
  <2>4. CASE stored \in live' \cup excused \cup {0}
    BY <1>1, <2>4, RotationPointwise
  <2>5. CASE stored = j.token /\ j.at = "store"
    <3>1. Rotated(w)'
      BY <1>1, <1>2, <2>5 DEF Rotated, Is, Tokens
    <3>. QED  BY <3>1, RotationPointwise
  <2>. QED  BY <1>1, <2>3, <2>4, <2>5, RotationPointwise
<1>11. Within(w)' /\ Bringing(w)' /\ mutex[Home[w]] = w
  BY <1>1, <1>2 DEF Within, Bringing, Guarded, JobInv
<1>12. JobInv(w)'
  <2>1. NewToken(j)' /\ j.next # stored'
    <3>1. stored \in 0 .. Len(issued)
      BY <1>1 DEF TypeOK
    <3>. QED  BY <1>1, <1>3, <1>4, <3>1 DEF NewToken
  <2>2. j.at = "store" => j.token \in 1 .. Len(issued')
    BY <1>3, AtRefresh DEF Grows
  <2>3. w \in overtaken' => Within(w)'
    BY <1>11
  <2>4. mutex'[Home[w]] = w
    BY <1>1, <1>11
  <2>. QED  BY <1>2, <1>11, <2>1, <2>2, <2>3, <2>4, SMT DEF JobInv, Tokens
<1>13. SeenInv(w)'
  <2>1. w \notin overtaken => j.client = client /\ (j.at = "store" => j.token = stored)
    BY AtRefresh
  <2>. QED  BY <1>1, <1>2, <2>1 DEF SeenInv
<1>14. ASSUME NEW v \in Workers PROVE Unread(w, v)' /\ Unread(v, w)'
  <2>1. ASSUME v # w PROVE Unread(w, v)' /\ Unread(v, w)'
    <3>1. job'[v] = job[v] /\ Unread(v, w)
      BY <1>2, <2>1 DEF OAuthInv
    <3>2. Unread(w, v)'
      BY <1>2, <1>6, <1>7, <3>1 DEF Unread, Is, Bringing
    <3>3. ASSUME Bringing(v)' PROVE /\ Is(w, Tokens, "refresh")' \/ Is(w, Tokens, "store")' => j.token # job[v].next
                                    /\ j.next # job[v].next
      <4>1. Bringing(v)
        BY <3>1, <3>3 DEF Bringing
      <4>. QED  BY <1>2, <1>7, <3>1, <4>1 DEF Unread, Is
    <3>4. Unread(v, w)'
      BY <1>2, <3>1, <3>3 DEF Unread
    <3>. QED  BY <3>2, <3>4
  <2>2. Unread(w, w)'
    BY <1>2, <1>6 DEF Unread, Is
  <2>. QED  BY <2>1, <2>2
<1>. QED  BY <1>3, <1>5, <1>8, <1>9, <1>10, <1>12, <1>13, <1>14, WorkerStep

\* TokenSource.Token.
LEMMA RefreshKeeps ==
    ASSUME OAuthInv, NEW w \in Workers, Refresh(w)
    PROVE  OAuthInv'
<1>1. Is(w, Tokens, "refresh") /\ UNCHANGED <<rowVars, excused>>
  BY DEF Refresh
<1>2. /\ TypeOK /\ job[w] # NoJob /\ job[w] \in Job /\ job[w].kind \in Tokens /\ Within(w)
      /\ mutex[Home[w]] = w /\ job[w].client \in Clients /\ job[w].token \in 1 .. Len(issued)
  BY <1>1, AtRefresh DEF OAuthInv
<1>3. ~Bringing(w) /\ ~Rotated(w)
  BY <1>1 DEF Is, Bringing, Rotated
<1>4. ASSUME Leaves(w), Unlock(w), cache' \in [Instances -> 0 .. Len(issued)], UNCHANGED <<issued, live>>
      PROVE  OAuthInv'
  <2>1. live' \subseteq 1 .. Len(issued) /\ excused' \subseteq 1 .. Len(issued)
    BY <1>1, <1>2, <1>4 DEF TypeOK
  <2>. QED  BY <1>1, <1>2, <1>3, <1>4, <2>1, LeaveStep
<1>5. CASE Got(w, job[w].token) /\ Unlock(w) /\ UNCHANGED <<issued, live>>
  <2>1. Leaves(w)
    BY <1>2, <1>5, WaysToLeave
  <2>2. job[w].token \in 0 .. Len(issued)
    BY <1>2, SMT DEF TypeOK
  <2>3. cache' \in [Instances -> 0 .. Len(issued)]
    BY <1>2, <1>5, <2>2 DEF Got, TypeOK
  <2>. QED  BY <1>4, <1>5, <2>1, <2>3
<1>6. CASE Failed(w, "reauthorization_required") /\ UNCHANGED <<cache, issued, live>>
  <2>1. Leaves(w) /\ Unlock(w)
    BY <1>2, <1>6, WaysToLeave DEF Failed, State
  <2>2. cache' \in [Instances -> 0 .. Len(issued)]
    BY <1>2, <1>6 DEF TypeOK
  <2>. QED  BY <1>4, <1>6, <2>1, <2>2
<1>7. CASE /\ Issue(job[w].client)
           /\ live' = (live \ {job[w].token}) \cup {Len(issued) + 1}
           /\ job' = [job EXCEPT ![w].at = "store", ![w].next = Len(issued) + 1]
           /\ UNCHANGED <<lockVars, cache>>
  <2>1. PICK n \in 0 .. MaxTokens : n = Len(issued) + 1
    BY <1>2, <1>7, SMT DEF Issue, TypeOK
  <2>2. PICK j \in Job : j = [job[w] EXCEPT !.at = "store", !.next = n]
    <3>1. [job[w] EXCEPT !.at = "store", !.next = n] \in Job
      BY <1>2 DEF Job, At
    <3>. QED  BY <3>1
  <2>3. /\ j.at = "store" /\ j.next = n /\ j.client = job[w].client
        /\ j.kind = job[w].kind /\ j.token = job[w].token
    BY <1>2, <2>2 DEF Job
  <2>4. job' = [job EXCEPT ![w] = j]
    BY <1>7, <2>1, <2>2
  <2>5. live \ {j.token} \subseteq live' /\ live' \subseteq live \cup {j.next} /\ j.next \in live'
    BY <1>7, <2>1, <2>3
  <2>. QED  BY <1>1, <1>2, <1>3, <1>7, <2>1, <2>3, <2>4, <2>5, BringStep
<1>. QED  BY <1>5, <1>6, <1>7 DEF Refresh

\* CompleteOAuth exchanges its code.
LEMMA ExchangeKeeps ==
    ASSUME OAuthInv, NEW w \in Workers, Exchange(w)
    PROVE  OAuthInv'
<1>1. /\ job[w] # NoJob /\ job[w].at = "exchange" /\ job[w].kind = "complete"
      /\ UNCHANGED <<rowVars, cache, excused>>
  BY DEF Exchange, Is
<1>2. /\ TypeOK /\ JobInv(w) /\ SeenInv(w) /\ job[w] \in Job /\ Within(w) /\ ~Bringing(w) /\ ~Rotated(w)
  BY <1>1, JobFields DEF OAuthInv, Within, Guarded, Bringing, Rotated, Is
<1>3. /\ mutex[Home[w]] = w /\ job[w].client \in Clients
      /\ w \notin overtaken => job[w].client = client
  BY <1>1, <1>2 DEF JobInv, SeenInv
<1>4. CASE Finish(w) /\ Unlock(w) /\ UNCHANGED <<issued, live>>
  <2>1. Leaves(w)
    BY <1>2, <1>4, WaysToLeave
  <2>2. /\ cache' \in [Instances -> 0 .. Len(issued)]
        /\ live' \subseteq 1 .. Len(issued) /\ excused' \subseteq 1 .. Len(issued)
    BY <1>1, <1>2, <1>4 DEF TypeOK
  <2>. QED  BY <1>1, <1>2, <1>3, <1>4, <2>1, <2>2, LeaveStep
<1>5. CASE /\ Issue(job[w].client)
           /\ live' = live \cup {Len(issued) + 1}
           /\ job' = [job EXCEPT ![w].at = "save", ![w].next = Len(issued) + 1]
           /\ UNCHANGED lockVars
  <2>1. PICK n \in 0 .. MaxTokens : n = Len(issued) + 1
    BY <1>2, <1>5, SMT DEF Issue, TypeOK
  <2>2. PICK j \in Job : j = [job[w] EXCEPT !.at = "save", !.next = n]
    <3>1. [job[w] EXCEPT !.at = "save", !.next = n] \in Job
      BY <1>2 DEF Job, At
    <3>. QED  BY <3>1
  <2>3. j.at = "save" /\ j.next = n /\ j.client = job[w].client /\ j.kind = "complete"
    BY <1>1, <1>2, <2>2 DEF Job
  <2>4. job' = [job EXCEPT ![w] = j]
    BY <1>5, <2>1, <2>2
  <2>5. live \subseteq live' /\ live' \subseteq live \cup {j.next} /\ j.next \in live'
    BY <1>5, <2>1, <2>3
  <2>. QED  BY <1>1, <1>2, <1>3, <1>5, <2>1, <2>3, <2>4, <2>5, BringStep
<1>. QED  BY <1>4, <1>5 DEF Exchange

\* The provider cannot be reached, its answer is lost, or the successor is not stored.
LEMMA LostKeeps ==
    ASSUME OAuthInv, NEW w \in Workers, RefreshFailed(w) \/ StoreFailed(w)
    PROVE  OAuthInv'
<1>1. Is(w, Tokens, "refresh") \/ Is(w, Tokens, "store")
  BY DEF RefreshFailed, StoreFailed
<1>2. PICK t \in 1 .. Len(issued) : t = job[w].token
  BY <1>1, AtRefresh
<1>3. TypeOK /\ mutex[Home[w]] = w /\ job[w].kind \in Tokens
  BY <1>1, AtRefresh DEF OAuthInv
<1>4. /\ Failed(w, "error") /\ UNCHANGED <<rowVars, cache, issued>>
      /\ \/ UNCHANGED <<live, excused>> /\ Is(w, Tokens, "refresh")
         \/ live' \subseteq live /\ live \ {t} \subseteq live' /\ excused' = excused \cup {t}
  BY <1>2 DEF RefreshFailed, StoreFailed, Lose, providerVars
<1>5. Leaves(w) /\ Unlock(w)
  BY <1>3, <1>4, WaysToLeave DEF Failed, State
<1>6. /\ cache' \in [Instances -> 0 .. Len(issued)]
      /\ live' \subseteq 1 .. Len(issued) /\ excused' \subseteq 1 .. Len(issued)
  BY <1>2, <1>3, <1>4 DEF TypeOK
<1>7. live \cup excused \subseteq live' \cup excused'
  BY <1>4
<1>8. ~Rotated(w) \/ stored \in live' \cup excused' \cup {0}
  BY <1>2, <1>4 DEF Rotated, Is
<1>. QED  BY <1>3, <1>4, <1>5, <1>6, <1>7, <1>8, LeaveStep
-----------------------------------------------------------------------------
(* Writes of the row.                                                      *)

\* A write at the end of a job, or at once: it overtakes the holders of other mutexes.
LEMMA RowStep ==
    ASSUME OAuthInv, NEW w \in Workers, Leaves(w), UnlockWritten(w), mutex[Home[w]] \in {w, Free},
           client' \in Clients \cup {Basic, Gone}, conn' \in State, crossed' \in BOOLEAN,
           NEW t \in 0 .. Len(issued), cache' = [cache EXCEPT ![Home[w]] = t],
           UNCHANGED providerVars, stored' \in 0 .. Len(issued),
           \A v \in Workers \ {w} : Bringing(v) => job[v].next # stored',
           TokenOfClient', RotationKept', client' = Gone => stored' = 0
    PROVE  OAuthInv'
<1>1. TypeOK /\ UNCHANGED <<issued, live, excused>>
  BY DEF OAuthInv, providerVars
<1>2. mutex' = [mutex EXCEPT ![Home[w]] = Free] /\ w \notin overtaken' /\ overtaken' \subseteq Workers
  BY <1>1 DEF UnlockWritten, TypeOK
<1>3. /\ mutex' \in [Instances -> Workers \cup {Free}] /\ mutex'[Home[w]] = Free
      /\ \A v \in Workers \ {w} : mutex'[Home[v]] = v <=> mutex[Home[v]] = v
  BY <1>2, MutexStep
<1>4. job' \in [Workers -> Job \cup {NoJob}] /\ Left(w)
  BY <1>2, <1>3, LeavesFacts
<1>5. TypeOK'
  <2>1. cache' \in [Instances -> 0 .. Len(issued)]
    BY <1>1 DEF TypeOK
  <2>. QED  BY <1>1, <1>2, <1>3, <1>4, <2>1 DEF TypeOK
<1>6. Grows
  BY <1>1, NotIssued
<1>7. ASSUME NEW v \in Workers \ {w} PROVE Spared(w, v)
  <2>1. JobInv(v)
    BY DEF OAuthInv
  <2>2. job'[v] = job[v]
    BY <1>1, JobWritten DEF Leaves
  <2>3. Bringing(v) => job[v].next \in live' \cup excused' /\ job[v].next # stored'
    BY <1>1, <2>1 DEF JobInv, NewToken
  <2>4. v \in overtaken => Within(v)
    BY <2>1 DEF JobInv
  <2>5. Within(v) => Home[v] # Home[w]
    BY Holder
  <2>6. v \in overtaken' <=> v \in overtaken \/ (Within(v) /\ Home[v] # Home[w] /\ (client' # client \/ stored' # stored))
    BY DEF UnlockWritten
  <2>. QED  BY <1>3, <2>2, <2>3, <2>4, <2>5, <2>6 DEF Spared
<1>. QED  BY <1>4, <1>5, <1>6, <1>7, LeftStep DEF Others

LEMMA StoreKeeps ==
    ASSUME OAuthInv, NEW w \in Workers, SetOAuthRefreshToken(w)
    PROVE  OAuthInv'
<1>1. Is(w, Tokens, "store")
  BY DEF SetOAuthRefreshToken
<1>2. /\ TypeOK /\ JobInv(w) /\ job[w] # NoJob /\ job[w].at = "store" /\ job[w].kind \in Tokens
      /\ mutex[Home[w]] = w /\ Bringing(w) /\ UNCHANGED <<client, conn, providerVars>>
      /\ w \notin overtaken => job[w].client = client
      /\ job[w].client \in Clients
  BY <1>1, AtRefresh DEF OAuthInv, Is, Bringing, SetOAuthRefreshToken
<1>3. PICK t \in 1 .. Len(issued) :
          t = job[w].next /\ issued[t] = job[w].client /\ t \in live \cup excused
  BY <1>2 DEF JobInv, NewToken
<1>4. t \in 0 .. Len(issued) /\ t # 0
  BY <1>2, SMT DEF TypeOK
<1>5. CASE /\ client # Gone /\ stored' = t /\ crossed' = (w \in overtaken)
           /\ Got(w, t) /\ UnlockWritten(w)
  <2>1. Leaves(w) /\ cache' = [cache EXCEPT ![Home[w]] = t]
    BY <1>2, <1>5, WaysToLeave DEF Got
  <2>2. client' \in Clients \cup {Basic, Gone} /\ conn' \in State /\ crossed' \in BOOLEAN
    BY <1>2, <1>5, SMT DEF TypeOK
  <2>3. TokenOfClient'
    BY <1>2, <1>3, <1>5 DEF TokenOfClient, providerVars
  <2>4. RotationKept'
    BY <1>2, <1>3, <1>5, RotationPointwise DEF providerVars
  <2>5. ASSUME NEW v \in Workers \ {w}, Bringing(v) PROVE job[v].next # stored'
    BY <1>2, <1>3, <1>5, <2>5 DEF OAuthInv, Unread
  <2>. QED  BY <1>2, <1>4, <1>5, <2>1, <2>2, <2>3, <2>4, <2>5, RowStep
<1>6. CASE client = Gone /\ Failed(w, "error") /\ UNCHANGED <<stored, cache>>
  <2>1. Leaves(w) /\ Unlock(w)
    BY <1>2, <1>6, WaysToLeave DEF Failed, State
  <2>2. stored = 0 /\ UNCHANGED <<rowVars, issued, live, excused>>
    BY <1>2, <1>6 DEF OAuthInv, rowVars, providerVars
  <2>3. /\ cache' \in [Instances -> 0 .. Len(issued)]
        /\ live' \subseteq 1 .. Len(issued) /\ excused' \subseteq 1 .. Len(issued)
    BY <1>2, <1>6, <2>2 DEF TypeOK
  <2>. QED  BY <1>2, <2>1, <2>2, <2>3, LeaveStep
<1>. QED  BY <1>3, <1>5, <1>6 DEF SetOAuthRefreshToken

\* The writes of CompleteOAuth, DisconnectOAuth and Update.
LEMMA SaveKeeps ==
    ASSUME OAuthInv, NEW w \in Workers, SetOAuthRefreshTokenAndState(w) \/ Update(w)
    PROVE  OAuthInv'
<1>1. /\ job[w] # NoJob /\ job[w].at = "save" /\ client # Gone /\ Finish(w) /\ UnlockWritten(w)
      /\ cache' = [cache EXCEPT ![Home[w]] = job[w].next] /\ UNCHANGED providerVars
  BY DEF SetOAuthRefreshTokenAndState, Update, Save, Is
<1>2. /\ TypeOK /\ JobInv(w) /\ SeenInv(w) /\ TokenOfClient /\ RotationKept /\ Leaves(w) /\ Within(w)
      /\ ~Rotated(w) /\ UNCHANGED <<issued, live, excused>>
  BY <1>1, WaysToLeave DEF OAuthInv, Within, Guarded, Rotated, Is, providerVars
<1>3. mutex[Home[w]] = w /\ (job[w].kind = "complete" <=> Bringing(w))
  BY <1>1, <1>2 DEF JobInv, Bringing
<1>4. PICK t \in 0 .. Len(issued) :
          /\ t = job[w].next
          /\ job[w].kind = "complete" => t # 0 /\ job[w].client \in Clients /\ issued[t] = job[w].client
          /\ job[w].kind # "complete" => t = 0
          /\ t \in live \cup excused \cup {0}
  <2>1. CASE job[w].kind = "complete"
    <3>1. job[w].next \in 1 .. Len(issued) /\ issued[job[w].next] = job[w].client /\ job[w].next \in live \cup excused
      BY <1>2, <1>3, <2>1 DEF JobInv, NewToken
    <3>2. job[w].next \in 0 .. Len(issued) /\ job[w].next # 0
      BY <1>2, <3>1, SMT DEF TypeOK
    <3>3. job[w].client \in Clients
      BY <1>1, <1>2, <2>1 DEF JobInv
    <3>. QED  BY <2>1, <3>1, <3>2, <3>3
  <2>2. CASE job[w].kind # "complete"
    <3>1. job[w].next = 0 /\ 0 \in 0 .. Len(issued)
      BY <1>1, <1>2, <2>2, SMT DEF JobInv, TypeOK
    <3>. QED  BY <2>2, <3>1
  <2>. QED  BY <2>1, <2>2
<1>5. CASE SetOAuthRefreshTokenAndState(w)
  <2>1. /\ stored' = t /\ conn' = "idle" /\ client' = client /\ crossed' = (w \in overtaken /\ t # 0)
    BY <1>4, <1>5 DEF SetOAuthRefreshTokenAndState, Save
  <2>2. client' \in Clients \cup {Basic, Gone} /\ conn' \in State /\ crossed' \in BOOLEAN
    BY <1>2, <2>1 DEF TypeOK, State
  <2>3. TokenOfClient'
    <3>1. ASSUME t # 0, w \notin overtaken PROVE client \in Clients /\ issued[t] = client
      <4>1. job[w].kind = "complete" /\ job[w].client = client
        BY <1>1, <1>2, <1>4, <3>1 DEF SeenInv
      <4>. QED  BY <1>4, <3>1, <4>1
    <3>. QED  BY <1>2, <2>1, <3>1 DEF TokenOfClient
  <2>4. RotationKept'
    BY <1>2, <1>4, <2>1, RotationPointwise
  <2>5. ASSUME NEW v \in Workers \ {w}, Bringing(v) PROVE job[v].next # stored'
    <3>1. CASE t = 0
      <4>1. job[v].next \in 1 .. Len(issued)
        BY <2>5 DEF OAuthInv, JobInv, NewToken
      <4>2. job[v].next # 0
        BY <1>2, <4>1, SMT DEF TypeOK
      <4>. QED  BY <2>1, <3>1, <4>2
    <3>2. CASE t # 0
      <4>1. Bringing(w) /\ Unread(w, v) /\ v # w
        BY <1>3, <1>4, <3>2 DEF OAuthInv
      <4>. QED  BY <1>4, <2>1, <2>5, <4>1 DEF Unread
    <3>. QED  BY <3>1, <3>2
  <2>6. client' # Gone
    BY <1>1, <2>1
  <2>. QED  BY <1>1, <1>2, <1>3, <1>4, <2>1, <2>2, <2>3, <2>4, <2>5, <2>6, RowStep
<1>6. CASE Update(w)
  <2>1. /\ stored' = KeptToken(job[w].client) /\ client' = job[w].client /\ conn' = conn
        /\ job[w].kind = "update" /\ crossed' = (crossed /\ stored' # 0)
    BY <1>6 DEF Update, Save, Is
  <2>2. job[w].client \in Clients \cup {Basic}
    BY <1>1, <1>2, <2>1 DEF JobInv
  <2>3. stored' = 0 \/ (stored' = stored /\ client' = client)
    BY <2>1 DEF KeptToken
  <2>4. /\ client' \in Clients \cup {Basic, Gone} /\ conn' \in State /\ crossed' \in BOOLEAN
        /\ client' # Gone
    BY <1>2, <2>1, <2>2 DEF TypeOK
  <2>5. stored' \in 0 .. Len(issued)
    BY <1>2, <2>3, SMT DEF TypeOK
  <2>6. TokenOfClient'
    BY <1>2, <2>1, <2>3 DEF TokenOfClient, TypeOK
  <2>7. RotationKept'
    <3>1. CASE stored' = 0
      BY <3>1, RotationPointwise
    <3>2. CASE stored' = stored
      <4>1. \A v \in Workers \ {w} : job'[v] = job[v]
        BY <1>1, <1>2, JobWritten DEF Finish
      <4>2. \A v \in Workers \ {w} : Rotated(v) => Rotated(v)'
        BY <3>2, <4>1 DEF Rotated, Is
      <4>. QED  BY <1>2, <3>2, <4>2, RotationPointwise
    <3>. QED  BY <2>3, <3>1, <3>2
  <2>8. ASSUME NEW v \in Workers \ {w}, Bringing(v) PROVE job[v].next # stored'
    <3>1. job[v].next \in 1 .. Len(issued) /\ job[v].next # stored
      BY <2>8 DEF OAuthInv, JobInv, NewToken
    <3>2. job[v].next # 0
      BY <1>2, <3>1, SMT DEF TypeOK
    <3>. QED  BY <2>3, <3>1, <3>2
  <2>. QED  BY <1>1, <1>2, <1>3, <1>4, <2>4, <2>5, <2>6, <2>7, <2>8, RowStep
<1>. QED  BY <1>5, <1>6

LEMMA DeleteKeeps ==
    ASSUME OAuthInv, NEW w \in Workers, Delete(w)
    PROVE  OAuthInv'
<1>1. /\ job[w] = NoJob /\ mutex[Home[w]] = Free /\ client' = Gone /\ stored' = 0 /\ crossed' = FALSE
      /\ UnlockWritten(w) /\ cache' = [cache EXCEPT ![Home[w]] = 0]
      /\ UNCHANGED <<conn, job, providerVars>>
  BY DEF Delete, Idle
<1>2. TypeOK
  BY DEF OAuthInv
<1>3. 0 \in 0 .. Len(issued) /\ conn' \in State /\ crossed' \in BOOLEAN
  <2>1. 0 \in 0 .. Len(issued)
    BY <1>2, SMT DEF TypeOK
  <2>2. crossed' \in BOOLEAN
    BY <1>1
  <2>. QED  BY <1>1, <1>2, <2>1, <2>2 DEF TypeOK
<1>4. Leaves(w)
  <2>1. job' = [job EXCEPT ![w] = NoJob]
    BY <1>1, <1>2 DEF TypeOK
  <2>. QED  BY <2>1 DEF Leaves
<1>5. TokenOfClient' /\ RotationKept'
  <2>1. TokenOfClient'
    BY <1>1 DEF TokenOfClient
  <2>2. RotationKept'
    BY <1>1, RotationPointwise
  <2>. QED  BY <2>1, <2>2
<1>6. ASSUME NEW v \in Workers \ {w}, Bringing(v) PROVE job[v].next # stored'
  <2>1. job[v].next \in 1 .. Len(issued)
    BY <1>6 DEF OAuthInv, JobInv, NewToken
  <2>. QED  BY <1>1, <1>2, <2>1, SMT DEF TypeOK
<1>. QED  BY <1>1, <1>3, <1>4, <1>5, <1>6, RowStep
-----------------------------------------------------------------------------
(* Around the service.                                                     *)

\* No job, mutex or row changes, and no token gets lost.
LEMMA AroundStep ==
    ASSUME OAuthInv, UNCHANGED <<rowVars, lockVars, job, issued>>, cache' \in [Instances -> 0 .. Len(issued)],
           live' \subseteq 1 .. Len(issued), excused' \subseteq 1 .. Len(issued),
           live \cup excused \subseteq live' \cup excused'
    PROVE  OAuthInv'
<1>1. TypeOK /\ RotationKept /\ UNCHANGED <<client, stored, conn, mutex, overtaken, crossed>>
  BY DEF OAuthInv, rowVars, lockVars
<1>2. TypeOK'
  BY <1>1 DEF TypeOK
<1>3. Grows
  BY <1>1, NotIssued
<1>4. TokenOfClient' /\ (client' = Gone => stored' = 0)
  BY <1>1, <1>3, QuietToken
<1>5. RotationKept'
  <2>1. \A v \in Workers : Rotated(v) => Rotated(v)'
    BY <1>1 DEF Rotated, Is
  <2>. QED  BY <1>1, <2>1, RotationPointwise
<1>6. ASSUME NEW v \in Workers PROVE JobInv(v)' /\ SeenInv(v)'
  <2>1. JobInv(v)
    BY DEF OAuthInv
  <2>2. Spared(v, v)
    BY <1>1, <2>1 DEF Spared, JobInv, NewToken
  <2>. QED  BY <1>3, <2>2, SparedJob, SparedSeen
<1>7. ASSUME NEW v \in Workers, NEW u \in Workers PROVE Unread(v, u)'
  BY <1>1 DEF OAuthInv, Unread, Bringing, Is
<1>. QED  BY <1>2, <1>4, <1>5, <1>6, <1>7 DEF OAuthInv

LEMMA RevokeKeeps ==
    ASSUME OAuthInv, NEW t \in 1 .. Len(issued), Revoke(t)
    PROVE  OAuthInv'
<1>1. /\ live' = live \ {t} /\ excused' = excused \cup {t}
      /\ UNCHANGED <<rowVars, lockVars, cache, job, issued>>
  BY DEF Revoke, Lose
<1>2. /\ cache' \in [Instances -> 0 .. Len(issued)]
      /\ live' \subseteq 1 .. Len(issued) /\ excused' \subseteq 1 .. Len(issued)
  BY <1>1 DEF OAuthInv, TypeOK
<1>3. live \cup excused \subseteq live' \cup excused'
  BY <1>1
<1>. QED  BY <1>1, <1>2, <1>3, AroundStep

LEMMA ExpireKeeps ==
    ASSUME OAuthInv, NEW i \in Instances, Expire(i)
    PROVE  OAuthInv'
<1>1. TypeOK /\ cache' = [cache EXCEPT ![i] = 0] /\ UNCHANGED <<rowVars, lockVars, job, issued, live, excused>>
  BY DEF OAuthInv, Expire, providerVars
<1>2. 0 \in 0 .. Len(issued)
  BY <1>1, SMT DEF TypeOK
<1>3. /\ cache' \in [Instances -> 0 .. Len(issued)]
      /\ live' \subseteq 1 .. Len(issued) /\ excused' \subseteq 1 .. Len(issued)
  BY <1>1, <1>2 DEF TypeOK
<1>. QED  BY <1>1, <1>3, AroundStep

\* The jobs of the instance are gone, and a rotated token that was not stored with them.
LEMMA RestartKeeps ==
    ASSUME OAuthInv, NEW i \in Instances, Restart(i)
    PROVE  OAuthInv'
<1>1. TypeOK /\ RotationKept /\ UNCHANGED <<client, stored, conn, issued, live, crossed>>
  BY DEF OAuthInv, Restart, rowVars
<1>2. /\ mutex' = [mutex EXCEPT ![i] = Free] /\ cache' = [cache EXCEPT ![i] = 0]
      /\ job' = [w \in Workers |-> IF Home[w] = i THEN NoJob ELSE job[w]]
      /\ overtaken' = overtaken \ {w \in Workers : Home[w] = i}
  BY DEF Restart
<1>3. excused' = excused \cup {job[w].token : w \in {v \in Workers : Home[v] = i /\ Is(v, Tokens, "store")}}
  BY DEF Restart, Lose
<1>4. excused \subseteq excused' /\ \A w \in Workers : Home[w] = i /\ Rotated(w) => stored \in excused'
  BY <1>3 DEF Rotated
<1>5. excused' \subseteq 1 .. Len(issued)
  <2>1. \A w \in Workers : Is(w, Tokens, "store") => job[w].token \in 1 .. Len(issued)
    BY AtRefresh
  <2>. QED  BY <1>1, <1>3, <2>1, ZenonT(40) DEF TypeOK
<1>6. TypeOK'
  <2>1. 0 \in 0 .. Len(issued)
    BY <1>1, SMT DEF TypeOK
  <2>2. cache' \in [Instances -> 0 .. Len(issued)] /\ mutex' \in [Instances -> Workers \cup {Free}]
    BY <1>1, <1>2, <2>1 DEF TypeOK
  <2>3. job' \in [Workers -> Job \cup {NoJob}] /\ overtaken' \subseteq Workers
    BY <1>1, <1>2 DEF TypeOK
  <2>. QED  BY <1>1, <1>5, <2>2, <2>3 DEF TypeOK
<1>7. Grows
  BY <1>1, NotIssued
<1>8. TokenOfClient' /\ (client' = Gone => stored' = 0)
  BY <1>1, <1>7, QuietToken
<1>9. RotationKept'
  <2>1. ASSUME NEW w \in Workers, Rotated(w), Home[w] # i PROVE Rotated(w)'
    BY <1>1, <1>2, <2>1 DEF Rotated, Is
  <2>. QED  BY <1>1, <1>4, <2>1, RotationPointwise
<1>10. ASSUME NEW v \in Workers PROVE JobInv(v)' /\ SeenInv(v)'
  <2>1. CASE Home[v] = i
    <3>1. job'[v] = NoJob /\ mutex'[Home[v]] = Free /\ v \notin overtaken'
      BY <1>1, <1>2, <2>1 DEF TypeOK
    <3>2. ~Within(v)' /\ ~Bringing(v)'
      BY <3>1 DEF Within, Bringing
    <3>3. Free # v
      OBVIOUS
    <3>. QED  BY <3>1, <3>2, <3>3 DEF JobInv, SeenInv
  <2>2. CASE Home[v] # i
    <3>1. job'[v] = job[v] /\ mutex'[Home[v]] = mutex[Home[v]] /\ JobInv(v) /\ (v \in overtaken' <=> v \in overtaken)
      BY <1>1, <1>2, <2>2 DEF TypeOK, OAuthInv
    <3>2. Spared(v, v)
      BY <1>1, <1>4, <3>1 DEF Spared, JobInv, NewToken
    <3>. QED  BY <1>7, <3>2, SparedJob, SparedSeen
  <2>. QED  BY <2>1, <2>2
<1>11. ASSUME NEW v \in Workers, NEW u \in Workers PROVE Unread(v, u)'
  <2>1. Unread(v, u) /\ job'[v] \in {job[v], NoJob} /\ job'[u] \in {job[u], NoJob}
    BY <1>2 DEF OAuthInv
  <2>. QED  BY <2>1 DEF Unread, Bringing, Is
<1>. QED  BY <1>6, <1>8, <1>9, <1>10, <1>11 DEF OAuthInv
-----------------------------------------------------------------------------
(* The theorems.                                                           *)

LEMMA InitInv == Init => OAuthInv
<1>. SUFFICES ASSUME Init PROVE OAuthInv
  OBVIOUS
<1>1. Len(issued) = 0 /\ issued \in Seq(Clients)
  BY SMT DEF Init
<1>2. TypeOK
  <2>1. 0 \in 0 .. Len(issued) /\ Len(issued) <= MaxTokens
    BY <1>1, SMT
  <2>2. crossed \in BOOLEAN
    BY DEF Init
  <2>. QED  BY <1>1, <2>1, <2>2 DEF Init, TypeOK, State
<1>3. \A w \in Workers : ~Within(w) /\ ~Bringing(w) /\ job[w] = NoJob /\ mutex[Home[w]] # w /\ w \notin overtaken
  BY DEF Init, Within, Bringing
<1>4. \A w \in Workers : JobInv(w) /\ SeenInv(w)
  BY <1>3 DEF JobInv, SeenInv
<1>5. \A w, v \in Workers : Unread(w, v)
  BY <1>3 DEF Unread
<1>6. TokenOfClient /\ RotationKept /\ (client = Gone => stored = 0)
  BY DEF Init, TokenOfClient, RotationKept
<1>. QED  BY <1>2, <1>4, <1>5, <1>6 DEF OAuthInv

LEMMA NextInv == OAuthInv /\ [Next]_vars => OAuthInv'
<1>. SUFFICES ASSUME OAuthInv, [Next]_vars PROVE OAuthInv'
  OBVIOUS
<1>1. ASSUME NEW w \in Workers, Step(w) PROVE OAuthInv'
  <2>1. CASE BeginPoll(w) \/ BeginTest(w) \/ BeginOAuth(w)
    BY <2>1, ArrivalKeeps
  <2>2. CASE StateRefused(w) \/ storeTestResult(w) \/ CompletePoll(w)
    BY <2>2, AnswerKeeps
  <2>3. CASE Locate(w)
    BY <2>3, LocateKeeps
  <2>4. CASE DisconnectOAuth(w) \/ BeginUpdate(w)
    BY <2>4, ChangeKeeps
  <2>5. CASE ReadToken(w)
    BY <2>5, ReadTokenKeeps
  <2>6. CASE NotConnected(w) \/ CredentialsFailed(w) \/ SaveFailed(w)
    BY <2>6, RefusedKeeps
  <2>7. CASE Refresh(w)
    BY <2>7, RefreshKeeps
  <2>8. CASE RefreshFailed(w) \/ StoreFailed(w)
    BY <2>8, LostKeeps
  <2>9. CASE SetOAuthRefreshToken(w)
    BY <2>9, StoreKeeps
  <2>10. CASE Exchange(w)
    BY <2>10, ExchangeKeeps
  <2>11. CASE SetOAuthRefreshTokenAndState(w) \/ Update(w)
    BY <2>11, SaveKeeps
  <2>12. CASE Delete(w)
    BY <2>12, DeleteKeeps
  <2>. QED  BY <1>1, <2>1, <2>2, <2>3, <2>4, <2>5, <2>6, <2>7, <2>8, <2>9, <2>10, <2>11, <2>12 DEF Step
<1>2. ASSUME NEW t \in 1 .. Len(issued), Revoke(t) PROVE OAuthInv'
  BY <1>2, RevokeKeeps
<1>3. ASSUME NEW i \in Instances, Expire(i) \/ Restart(i) PROVE OAuthInv'
  BY <1>3, ExpireKeeps, RestartKeeps
<1>4. CASE UNCHANGED vars
  <2>1. UNCHANGED <<rowVars, lockVars, job, issued, cache, live, excused>>
    BY <1>4 DEF vars, providerVars
  <2>2. /\ cache' \in [Instances -> 0 .. Len(issued)]
        /\ live' \subseteq 1 .. Len(issued) /\ excused' \subseteq 1 .. Len(issued)
    BY <2>1 DEF OAuthInv, TypeOK
  <2>. QED  BY <2>1, <2>2, AroundStep
<1>. QED  BY <1>1, <1>2, <1>3, <1>4 DEF Next

\* The inductive invariant, for any number of instances: a mutex orders the operations of
\* its own, and of those of the others a worker knows whether they have overtaken it.
THEOREM OAuthInvariant == Spec => []OAuthInv
BY InitInv, NextInv, PTL DEF Spec

\* The stored token was issued to the client the profile is configured with, whatever
\* Update, CompleteOAuth and refreshes overlap on however many instances, unless the
\* operation that stored it had been overtaken: SetOAuthRefreshToken, by id alone, came
\* after a change that another instance made since the row was read.
THEOREM TokenMatchesClient == Spec => []TokenOfClient
<1>1. OAuthInv => TokenOfClient
  BY DEF OAuthInv
<1>. QED  BY <1>1, OAuthInvariant, PTL

\* No rotated token is lost by an overlap of operations, on any instances: only the user,
\* a fault or a crash can leave the profile with a token the provider refuses.
THEOREM RotationSurvives == Spec => []RotationKept
<1>1. OAuthInv => RotationKept
  BY DEF OAuthInv
<1>. QED  BY <1>1, OAuthInvariant, PTL

\* SetOAuthRefreshToken of a refresh overwrites the very token it rotated, unless another
\* instance has changed the row since the refresh read it.
THEOREM RefreshWritesOwn == Spec => RefreshReplacesOwn
<1>. DEFINE Own == \A w \in Workers : SetOAuthRefreshToken(w) /\ client # Gone /\ w \notin overtaken
                                         => stored = job[w].token
<1>1. OAuthInv => Own
  <2>. SUFFICES ASSUME OAuthInv, NEW w \in Workers, SetOAuthRefreshToken(w), w \notin overtaken
                PROVE  stored = job[w].token
    OBVIOUS
  <2>1. Is(w, Tokens, "store")
    BY DEF SetOAuthRefreshToken
  <2>. QED  BY <2>1, AtRefresh
<1>2. OAuthInv /\ [Next]_vars => [Own]_vars
  BY <1>1
<1>. QED  BY <1>2, OAuthInvariant, PTL DEF Spec, RefreshReplacesOwn
=============================================================================
