---------------------------- MODULE ProfileOAuth ----------------------------
(***************************************************************************)
(* The OAuth2 authorization of one Email Profile                           *)
(* (internal/service/email_profile*.go): the stored refresh token, the     *)
(* token each instance caches, the mutex of its cache entry, refreshes     *)
(* with and without rotation, and the connection state that tests and      *)
(* polls write.  A worker is one request, or one poll, of its instance;    *)
(* each step is one statement, one call to the provider or one locking.    *)
(* Requests arrive at any instance, polls at the owner of the profile; the *)
(* mutex orders those of one instance, and nothing those of two.           *)
(*                                                                         *)
(* A refresh token is a number: its place in issued.                       *)
(***************************************************************************)
EXTENDS Naturals, Sequences, FiniteSets

CONSTANTS
    Workers,
    Instances,
    Home,        \* the instance of each worker
    Owner,       \* the instance that polls the profile
    Clients,     \* OAuth providers with their client ids
    Basic,       \* auth_type 'basic'
    Gone,        \* the profile is deleted
    NoJob,
    Free,
    MaxJobs,     \* bound: requests and polls at a time
    MaxTokens,   \* bound: tokens the provider issues
    MaxLost      \* bound: tokens revoked, or rotated by a refresh that is lost

ASSUME OAuthAssumption ==
    /\ Home \in [Workers -> Instances]
    /\ Owner \in Instances
    /\ Basic # Gone /\ Clients \cap {Basic, Gone} = {}
    /\ Free \notin Workers
    /\ MaxJobs \in Nat /\ MaxTokens \in Nat /\ MaxLost \in Nat

VARIABLES
    client,    \* provider and client id of the row, Basic or Gone
    stored,    \* oauth_refresh_token; 0 for NULL
    conn,      \* connection_state
    mutex,     \* entry.mu of each instance
    cache,     \* the token whose access token the entry of each instance holds; 0 for none
    job,       \* what each worker is doing
    issued,    \* provider: the clients of the tokens issued so far
    live,      \* provider: the tokens it accepts
    excused,   \* tokens revoked by the user, or whose successor a fault lost
    overtaken, \* history: workers that read a row another instance changed since
    crossed    \* history: the stored token was written by such a worker

rowVars == <<client, stored, conn>>
providerVars == <<issued, live, excused>>
lockVars == <<mutex, overtaken, crossed>>
vars == <<rowVars, lockVars, cache, job, providerVars>>

Kind == {"poll", "test", "complete", "disconnect", "update"}

At == {"lock", "read", "refresh", "store", "write", "exchange", "save"}

State == {"idle", "ready", "error", "reauthorization_required"}

\* token: the one the job works with; next: the one a refresh or an exchange returned.
Job == [kind : Kind, at : At, client : Clients \cup {Basic, Gone},
        token : 0 .. MaxTokens, next : 0 .. MaxTokens, result : State]

ASSUME JobAssumption == NoJob \notin Job

TypeOK ==
    /\ client \in Clients \cup {Basic, Gone}
    /\ stored \in 0 .. Len(issued)
    /\ conn \in State
    /\ mutex \in [Instances -> Workers \cup {Free}]
    /\ cache \in [Instances -> 0 .. Len(issued)]
    /\ job \in [Workers -> Job \cup {NoJob}]
    /\ issued \in Seq(Clients) /\ Len(issued) <= MaxTokens
    /\ live \subseteq 1 .. Len(issued) /\ excused \subseteq 1 .. Len(issued)
    /\ overtaken \subseteq Workers /\ crossed \in BOOLEAN

\* A new OAuth2 profile.
Init ==
    /\ client \in Clients /\ stored = 0 /\ conn = "idle"
    /\ mutex = [i \in Instances |-> Free]
    /\ cache = [i \in Instances |-> 0]
    /\ job = [w \in Workers |-> NoJob]
    /\ issued = <<>> /\ live = {} /\ excused = {}
    /\ overtaken = {} /\ crossed = FALSE
-----------------------------------------------------------------------------
Is(w, kinds, at) == job[w] # NoJob /\ job[w].kind \in kinds /\ job[w].at = at

Tokens == {"poll", "test"}    \* the jobs that call accessToken

New(kind, at, c) ==
    [kind |-> kind, at |-> at, client |-> c, token |-> 0, next |-> 0, result |-> "idle"]

Finish(w) == job' = [job EXCEPT ![w] = NoJob]

\* The mutex is held from the read of the row to its write, or the answer.
Guarded == {"read", "refresh", "store", "exchange", "save"}

Within(w) == job[w] # NoJob /\ job[w].at \in Guarded

Unlock(w) ==
    /\ mutex' = [mutex EXCEPT ![Home[w]] = Free]
    /\ overtaken' = overtaken \ {w} /\ UNCHANGED crossed

\* The same after a write of the row, which overtakes whoever holds the mutex of
\* another instance.
UnlockWritten(w) ==
    /\ mutex' = [mutex EXCEPT ![Home[w]] = Free]
    /\ overtaken' = (overtaken \ {w}) \cup
          {v \in Workers : /\ Within(v) /\ Home[v] # Home[w]
                           /\ client' # client \/ stored' # stored}

\* accessToken returns an error.
Failed(w, state) ==
    /\ Unlock(w)
    /\ job' = [job EXCEPT ![w] = [New(job[w].kind, "write", Gone) EXCEPT !.result = state]]

\* accessToken returns a token, which the entry now holds.
Got(w, t) ==
    /\ cache' = [cache EXCEPT ![Home[w]] = t]
    /\ job' = [job EXCEPT ![w] = New(job[w].kind, "write", Gone)]

Lose(tokens) == excused' = excused \cup tokens /\ Cardinality(excused') <= MaxLost

Issue(c) == issued' = Append(issued, c) /\ Len(issued) < MaxTokens
-----------------------------------------------------------------------------
(* Requests and polls arrive.                                              *)

Idle(w) == job[w] = NoJob /\ Cardinality({v \in Workers : job[v] # NoJob}) < MaxJobs

Begin(w, kind, c) ==
    /\ Idle(w)
    /\ job' = [job EXCEPT ![w] = New(kind, "lock", c)]
    /\ UNCHANGED <<rowVars, lockVars, cache, providerVars>>

\* ListDue, tryStart.
BeginPoll(w) ==
    /\ Home[w] = Owner
    /\ \A v \in Workers : job[v] # NoJob => job[v].kind # "poll"
    /\ client \in Clients /\ conn # "reauthorization_required"
    /\ Begin(w, "poll", Gone)

\* Test locates the profile and chooses by its auth_type.
BeginTest(w) == client \in Clients /\ Begin(w, "test", Gone)

\* What the sealed state carries through the provider: for whom the user authorizes.
newOAuthState == client

\* BeginOAuth, and the user comes back with a code and the state.
BeginOAuth(w) == client \in Clients /\ Begin(w, "complete", newOAuthState)

\* openOAuthState: the state of the authorization expired or is not this profile's.
StateRefused(w) ==
    /\ Is(w, {"complete"}, "lock")
    /\ Finish(w)
    /\ UNCHANGED <<rowVars, lockVars, cache, providerVars>>
-----------------------------------------------------------------------------
(* The mutex of the entry is taken, and the row read at once: nothing      *)
(* happens to the worker in between.  A request that is refused or fails   *)
(* before it has a token leaves no trace.                                  *)

Take(w) ==
    /\ mutex[Home[w]] = Free
    /\ mutex' = [mutex EXCEPT ![Home[w]] = w]
    /\ UNCHANGED <<overtaken, crossed>>

\* store.Locate of accessToken and CompleteOAuth, which compares the provider only; a
\* code for another client id is refused by the provider.
Locate(w) ==
    /\ Is(w, Tokens \cup {"complete"}, "lock")
    /\ client \in Clients
    /\ Take(w)
    /\ \/ job[w].kind \in Tokens /\ job' = [job EXCEPT ![w].at = "read", ![w].client = client]
       \/ job[w].kind = "complete" /\ client = job[w].client /\ job' = [job EXCEPT ![w].at = "exchange"]
    /\ UNCHANGED <<rowVars, cache, providerVars>>

\* Bug: DisconnectOAuth clears the token without the mutex.
DisconnectAnyway(w) ==
    /\ Idle(w) /\ client \in Clients
    /\ stored' = 0 /\ conn' = "idle" /\ cache' = [cache EXCEPT ![Home[w]] = 0]
    /\ UNCHANGED <<client, lockVars, job, providerVars>>

DisconnectOAuth(w) ==
    /\ Idle(w) /\ client \in Clients /\ Take(w)
    /\ job' = [job EXCEPT ![w] = New("disconnect", "save", Gone)]
    /\ UNCHANGED <<rowVars, cache, providerVars>>

\* Update with settings the secrets allow (sealBasicPassword, sealOAuthClientSecret).
BeginUpdate(w) ==
    /\ Idle(w) /\ client # Gone /\ Take(w)
    /\ \E c \in Clients \cup {Basic} : job' = [job EXCEPT ![w] = New("update", "save", c)]
    /\ UNCHANGED <<rowVars, cache, providerVars>>
-----------------------------------------------------------------------------
(* Under the mutex.                                                        *)

\* GetOAuthCredentials, once more: the row may be another one by now.
ReadToken(w) ==
    /\ Is(w, Tokens, "read")
    /\ stored # 0
    /\ job' = [job EXCEPT ![w].at = "refresh", ![w].token = stored]
    /\ UNCHANGED <<rowVars, lockVars, cache, providerVars>>

\* There is no token.  RequiresReauthorization: a poll stores that, Test only says so.
NotConnected(w) ==
    /\ Is(w, Tokens, "read")
    /\ stored = 0 /\ client # Gone
    /\ \/ job[w].kind = "poll" /\ Failed(w, "reauthorization_required")
       \/ job[w].kind = "test" /\ Finish(w) /\ Unlock(w)
    /\ UNCHANGED <<rowVars, cache, providerVars>>

\* The profile is gone, of another kind or another client, or it or its secrets cannot
\* be read or decrypted.
CredentialsFailed(w) ==
    /\ (Is(w, Tokens \cup {"complete"}, "lock") /\ mutex[Home[w]] = Free) \/ Is(w, Tokens, "read")
    /\ IF job[w].kind \in Tokens THEN Failed(w, "error") ELSE Finish(w) /\ Unlock(w)
    /\ UNCHANGED <<rowVars, cache, providerVars>>

Cached(w) == cache[Home[w]] = job[w].token

Accepted(w) == job[w].token \in live /\ issued[job[w].token] = job[w].client

\* TokenSource.Token: the cached token, or a refresh that may rotate.
Refresh(w) ==
    /\ Is(w, Tokens, "refresh")
    /\ \/ /\ Cached(w) \/ Accepted(w)
          /\ Got(w, job[w].token) /\ Unlock(w)
          /\ UNCHANGED <<issued, live>>
       \/ /\ ~Cached(w) /\ Accepted(w)
          /\ Issue(job[w].client)
          /\ live' = (live \ {job[w].token}) \cup {Len(issued) + 1}
          /\ job' = [job EXCEPT ![w].at = "store", ![w].next = Len(issued) + 1]
          /\ UNCHANGED <<lockVars, cache>>
       \/ /\ ~Cached(w) /\ ~Accepted(w)
          /\ Failed(w, "reauthorization_required")
          /\ UNCHANGED <<cache, issued, live>>
    /\ UNCHANGED <<rowVars, excused>>

\* The provider cannot be reached, or rotates and its answer is lost.
RefreshFailed(w) ==
    /\ Is(w, Tokens, "refresh")
    /\ ~Cached(w)
    /\ Failed(w, "error")
    /\ \/ UNCHANGED providerVars
       \/ /\ Accepted(w)
          /\ live' = live \ {job[w].token} /\ Lose({job[w].token})
          /\ UNCHANGED issued
    /\ UNCHANGED <<rowVars, cache>>

\* Bug: the rotated token is kept in memory only.
CacheOnly(w) ==
    /\ Is(w, Tokens, "store")
    /\ Got(w, job[w].next) /\ Unlock(w)
    /\ UNCHANGED <<rowVars, providerVars>>

\* SetOAuthRefreshToken.
SetOAuthRefreshToken(w) ==
    /\ Is(w, Tokens, "store")
    /\ UNCHANGED <<client, conn, providerVars>>
    /\ \/ /\ client # Gone
          /\ stored' = job[w].next /\ crossed' = (w \in overtaken)
          /\ Got(w, job[w].next) /\ UnlockWritten(w)
       \/ /\ client = Gone
          /\ Failed(w, "error")
          /\ UNCHANGED <<stored, cache>>

StoreFailed(w) ==
    /\ Is(w, Tokens, "store")
    /\ Failed(w, "error")
    /\ Lose({job[w].token})
    /\ UNCHANGED <<rowVars, cache, issued, live>>

\* CompleteOAuth: the code is exchanged, or refused.
Exchange(w) ==
    /\ Is(w, {"complete"}, "exchange")
    /\ \/ /\ Issue(job[w].client)
          /\ live' = live \cup {Len(issued) + 1}
          /\ job' = [job EXCEPT ![w].at = "save", ![w].next = Len(issued) + 1]
          /\ UNCHANGED lockVars
       \/ /\ Finish(w) /\ Unlock(w)
          /\ UNCHANGED <<issued, live>>
    /\ UNCHANGED <<rowVars, cache, excused>>

\* Bug: a settings change never clears the token.
TokenKept(c) == stored

\* emailProfileStore.Update: the token stays while provider and client stay.
KeptToken(c) == IF c \in Clients /\ c = client THEN stored ELSE 0

\* The write of a change, and the token its entry keeps.  It meets no row once the
\* profile is deleted.
Save(w, kinds, c, t) ==
    /\ Is(w, kinds, "save")
    /\ client # Gone
    /\ client' = c /\ stored' = t
    /\ Finish(w) /\ UnlockWritten(w)
    /\ cache' = [cache EXCEPT ![Home[w]] = job[w].next]
    /\ UNCHANGED <<providerVars>>

\* The write of CompleteOAuth and of DisconnectOAuth.
SetOAuthRefreshTokenAndState(w) ==
    /\ Save(w, {"complete", "disconnect"}, client, job[w].next)
    /\ conn' = "idle" /\ crossed' = (w \in overtaken /\ job[w].next # 0)

Update(w) ==
    /\ Save(w, {"update"}, job[w].client, KeptToken(job[w].client))
    /\ crossed' = (crossed /\ KeptToken(job[w].client) # 0)
    /\ UNCHANGED conn

\* One statement.
Delete(w) ==
    /\ Idle(w) /\ mutex[Home[w]] = Free
    /\ client' = Gone /\ stored' = 0
    /\ UnlockWritten(w) /\ crossed' = FALSE
    /\ cache' = [cache EXCEPT ![Home[w]] = 0]
    /\ UNCHANGED <<conn, job, providerVars>>

\* No row is written: it is gone, or the database call or the encryption failed.
SaveFailed(w) ==
    /\ Is(w, {"complete", "disconnect", "update"}, "save")
    /\ Finish(w) /\ Unlock(w)
    /\ UNCHANGED <<rowVars, cache, providerVars>>
-----------------------------------------------------------------------------
(* With the token, outside the mutex.                                      *)

connectionState(imap, smtp) == IF imap /\ smtp THEN "ready" ELSE "error"

\* With a token the connections decide, without one the error of accessToken.
testConnections(w) ==
    IF job[w].result # "idle" THEN {job[w].result}
    ELSE {connectionState(imap, smtp) : imap, smtp \in BOOLEAN}

\* The connection and the sync of a poll.
Sync(w) == IF job[w].result # "idle" THEN {job[w].result} ELSE {"ready", "error"}

SetConnectionResult(state) == conn' = IF client = Gone THEN conn ELSE state

\* storeTestResult and storeOAuthTokenFailure; the database call may fail.
storeTestResult(w) ==
    /\ Is(w, {"test"}, "write")
    /\ Finish(w)
    /\ (\E state \in testConnections(w) : SetConnectionResult(state)) \/ UNCHANGED conn
    /\ UNCHANGED <<client, stored, lockVars, cache, providerVars>>

\* The fence, or an interruption, may refuse the result of a poll.
CompletePoll(w) ==
    /\ Is(w, {"poll"}, "write")
    /\ Finish(w)
    /\ (\E state \in Sync(w) : SetConnectionResult(state)) \/ UNCHANGED conn
    /\ UNCHANGED <<client, stored, lockVars, cache, providerVars>>
-----------------------------------------------------------------------------
(* Around the service.                                                     *)

\* The user withdraws the authorization at the provider.
Revoke(t) ==
    /\ t \in live
    /\ live' = live \ {t} /\ Lose({t})
    /\ UNCHANGED <<rowVars, lockVars, cache, job, issued>>

\* The cached access token expires.
Expire(i) ==
    /\ cache[i] # 0
    /\ cache' = [cache EXCEPT ![i] = 0]
    /\ UNCHANGED <<rowVars, lockVars, job, providerVars>>

\* The instance dies and starts again.
Restart(i) ==
    LET mine == {w \in Workers : Home[w] = i} IN
    /\ job' = [w \in Workers |-> IF w \in mine THEN NoJob ELSE job[w]]
    /\ mutex' = [mutex EXCEPT ![i] = Free]
    /\ overtaken' = overtaken \ mine
    /\ cache' = [cache EXCEPT ![i] = 0]
    /\ Lose({job[w].token : w \in {v \in mine : Is(v, Tokens, "store")}})
    /\ UNCHANGED <<rowVars, crossed, issued, live>>
-----------------------------------------------------------------------------
Step(w) ==
    \/ BeginPoll(w) \/ BeginTest(w) \/ BeginOAuth(w) \/ StateRefused(w)
    \/ Locate(w) \/ DisconnectOAuth(w) \/ BeginUpdate(w)
    \/ ReadToken(w) \/ NotConnected(w) \/ CredentialsFailed(w)
    \/ Refresh(w) \/ RefreshFailed(w) \/ SetOAuthRefreshToken(w) \/ StoreFailed(w)
    \/ Exchange(w) \/ SetOAuthRefreshTokenAndState(w) \/ Update(w) \/ Delete(w) \/ SaveFailed(w)
    \/ storeTestResult(w) \/ CompletePoll(w)

Next ==
    \/ \E w \in Workers : Step(w)
    \/ \E t \in 1 .. Len(issued) : Revoke(t)
    \/ \E i \in Instances : Expire(i) \/ Restart(i)

Spec == Init /\ [][Next]_vars
-----------------------------------------------------------------------------
(* Properties.                                                             *)

\* The stored refresh token was issued to the client the profile is configured with,
\* whatever Update, CompleteOAuth and refreshes overlap (email_profile_store.go:318-324),
\* unless the operation that stored it had read a row that another instance changed
\* before the write: the mutex is one of the process, and SetOAuthRefreshToken writes by
\* id alone (email_profile_store.go:416-421).
TokenOfClient ==
    stored # 0 /\ ~crossed => client \in Clients /\ issued[stored] = client

\* A rotated token is never lost by an overlap of operations, of one instance or of
\* several: the stored token is accepted by the provider unless the user revoked it, a
\* fault lost its successor, or the refresh that rotated it is about to store the
\* successor (email_profile_oauth.go:173-183).
RotationKept ==
    stored \in live \cup excused \cup {0}
        \cup {job[w].token : w \in {v \in Workers : Is(v, Tokens, "store")}}

\* A refresh replaces only the token it rotated: it does not undo a DisconnectOAuth of
\* its instance, which "clears a profile's stored refresh token"
\* (email_profile_oauth.go:189), nor a newer authorization.  What it overwrites otherwise
\* was written on another instance after the refresh had read the row.
RefreshReplacesOwn ==
    [][\A w \in Workers : SetOAuthRefreshToken(w) /\ client # Gone /\ w \notin overtaken
                             => stored = job[w].token]_vars

\* TokenOfClient without its exception, as it would be if the mutex of
\* email_profile_oauth.go:173-183 were one of the profile and not of the process.
TokenOfClientAnywhere == stored # 0 => client \in Clients /\ issued[stored] = client

\* RefreshReplacesOwn without its exception: DisconnectOAuth "clears a profile's stored
\* refresh token" (email_profile_oauth.go:189), and no refresh of any instance undoes it.
RefreshReplacesOwnAnywhere ==
    [][\A w \in Workers : SetOAuthRefreshToken(w) /\ client # Gone => stored = job[w].token]_vars

\* What makes them inductive.  The mutex of its entry is held by the worker between the
\* read and the write of the row; unless overtaken, the row is what Locate and ReadToken
\* saw.  A token to be written is of the client the worker saw, and nobody has read it.
NewToken(j) ==
    j.next \in 1 .. Len(issued) /\ issued[j.next] = j.client /\ j.next \in live \cup excused

\* The worker is about to write a token.
Bringing(w) == job[w] # NoJob /\ (job[w].at = "store" \/ (job[w].at = "save" /\ job[w].kind = "complete"))

JobInv(w) ==
    LET j == job[w] IN
    /\ mutex[Home[w]] = w <=> Within(w)
    /\ w \in overtaken => Within(w)
    /\ j # NoJob =>
          /\ j.kind = "update" => j.client \in Clients \cup {Basic}
          /\ j.kind = "complete" => j.client \in Clients
          /\ j.at = "exchange" => j.kind = "complete"
          /\ j.at \in {"lock", "exchange"} => j.next = 0
          /\ j.at = "save" /\ j.kind # "complete" => j.next = 0
          /\ j.at \in {"read", "refresh", "store"} => j.client \in Clients /\ j.kind \in Tokens
          /\ j.at \in {"refresh", "store"} => j.token \in 1 .. Len(issued)
    /\ Bringing(w) => NewToken(j) /\ j.next # stored

\* The row is what the worker saw.
SeenInv(w) ==
    LET j == job[w] IN
    Within(w) /\ w \notin overtaken =>
        /\ j.at \in {"read", "refresh", "store"} => j.client = client
        /\ j.at \in {"exchange", "save"} /\ j.kind = "complete" => j.client = client
        /\ j.at \in {"refresh", "store"} => j.token = stored

\* A token to be written is new to every other worker.
Unread(w, v) ==
    Bringing(w) =>
        /\ Is(v, Tokens, "refresh") \/ Is(v, Tokens, "store") => job[v].token # job[w].next
        /\ v # w /\ Bringing(v) => job[v].next # job[w].next

OAuthInv ==
    /\ TypeOK /\ TokenOfClient /\ RotationKept
    /\ client = Gone => stored = 0
    /\ \A w \in Workers : JobInv(w) /\ SeenInv(w)
    /\ \A w, v \in Workers : Unread(w, v)

\* "oauthTokenCache reuses access tokens and serializes refreshes per profile"
\* (email_profile.go:28).
RefreshSerialized ==
    Cardinality({w \in Workers : Is(w, Tokens, "refresh") \/ Is(w, Tokens, "store")}) <= 1

\* "A new authorization remains idle until its IMAP/SMTP connection is tested"
\* (email_profile_oauth.go:124): no job that got no token ends its idle state.
NewAuthorizationIdle ==
    [][conn = "idle" /\ stored # 0 /\ conn' # "idle" =>
          \E w \in Workers : Is(w, Tokens, "write") /\ job[w].result = "idle" /\ job'[w] = NoJob]_vars
=============================================================================
