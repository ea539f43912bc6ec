------------------------------ MODULE ReadCache ------------------------------
(***************************************************************************)
(* The read cache match:* (src/cache/redisClient.js), key by key: the poll *)
(* job that warms it (warmCache in src/jobs/pollScores.js), the routes     *)
(* that read it and re-warm a key they missed (src/routes/matches.js), the *)
(* TTL and outages of Redis.  As in PollJob a value is the index of the    *)
(* provider's list it was taken from, 0 for no key.  Runs of the poll do   *)
(* not overlap here: none outlives its lock.                               *)
(***************************************************************************)
EXTENDS Integers, FiniteSets

CONSTANTS
  Id,        \* match ids
  Last,      \* the provider serves the lists 1 .. Last in turn
  Live,      \* Live[v]: the ids in list v
  Known,     \* Known[v]: the ids the provider has details of at that time
  Request    \* HTTP requests that may be under way at one time

ASSUME CacheAssumption ==
  /\ Last \in Nat \ {0}
  /\ Live \in [1 .. Last -> SUBSET Id] /\ Known \in [1 .. Last -> SUBSET Id]
  /\ "list" \notin Id

VARIABLES
  feed,     \* the list the provider serves
  up,       \* whether Redis can be reached
  cache,    \* [Key -> version]
  poll,     \* [pc, matches, news, todo], the run of the poll job
  polled,   \* poll:snapshot
  req,      \* [Request -> [pc, key, match, status]]
  told,     \* history: the list by which subscribers last heard of a key
  behind    \* history: keys the poll could not write, or a slower route wrote after it

history == <<told, behind>>

vars == <<feed, up, cache, poll, polled, req, history>>

Key == {"list"} \cup Id

\* The keys a run writes, and the matches its announcement is about.
Of(list) == {"list"} \cup Live[list]

NoPoll == [pc |-> "idle", matches |-> 0, news |-> FALSE, todo |-> {}]

Init ==
  /\ feed = 1
  /\ up = TRUE
  /\ cache = [k \in Key |-> 0]
  /\ poll = NoPoll
  /\ polled = 0
  /\ req = [r \in Request |-> [pc |-> "idle", key |-> "list", match |-> 0, status |-> 0]]
  /\ told = [k \in Key |-> 0]
  /\ behind = {}

-----------------------------------------------------------------------------
(* The environment: the provider, the TTL, the connection to Redis *)

Advance ==
  /\ feed < Last
  /\ feed' = feed + 1
  /\ UNCHANGED <<up, cache, poll, polled, req, history>>

\* SET ... EX.
Expire(k) ==
  /\ cache[k] # 0
  /\ cache' = [cache EXCEPT ![k] = 0]
  /\ behind' = behind \ {k}
  /\ UNCHANGED <<feed, up, poll, polled, req, told>>

LoseRedis ==
  /\ up /\ up' = FALSE
  /\ UNCHANGED <<feed, cache, poll, polled, req, history>>

RegainRedis ==
  /\ ~up /\ up' = TRUE
  /\ UNCHANGED <<feed, cache, poll, polled, req, history>>

-----------------------------------------------------------------------------
(* cacheSet: a write is skipped when Redis cannot be reached. *)
CacheSet(k, value) == cache' = IF up THEN [cache EXCEPT ![k] = value] ELSE cache

\* Mutant: the cache is left alone when nothing changed.
WarmsWhenQuiet_not == FALSE

WarmsWhenQuiet == TRUE

\* Lock, fetch, diff, snapshot: one step here, PollJob has them one by one.  The first
\* list is no news, and neither is one that differs in no field the diff compares.
PollFetch ==
  /\ up
  /\ poll.pc = "idle"
  /\ \E news \in {FALSE, polled \notin {0, feed}} :
       LET writes == news \/ polled = 0
       IN  /\ polled' = IF writes THEN feed ELSE polled
           /\ poll' = [pc |-> "warm", matches |-> feed, news |-> news,
                       todo |-> IF writes \/ WarmsWhenQuiet THEN Of(feed) ELSE {}]
  /\ UNCHANGED <<feed, up, cache, req, history>>

\* The list first, then the details one after the other.
WarmKey(k) ==
  /\ poll.pc = "warm" /\ k \in poll.todo
  /\ "list" \in poll.todo => k = "list"
  /\ CacheSet(k, poll.matches)
  /\ behind' = IF up THEN behind \ {k} ELSE behind \cup {k}
  /\ poll' = [poll EXCEPT !.todo = @ \ {k}]
  /\ UNCHANGED <<feed, up, polled, req, told>>

\* Mutant: the run does not wait for its writes.
Warmed_not == TRUE

Warmed == poll.todo = {}

\* matchUpdated: the subscribers hear of the list and of its matches.
Emit ==
  /\ poll.pc = "warm" /\ Warmed /\ poll.news
  /\ told' = [k \in Key |-> IF k \in Of(poll.matches) THEN poll.matches ELSE told[k]]
  /\ poll' = NoPoll
  /\ UNCHANGED <<feed, up, cache, polled, req, behind>>

PollEnd ==
  /\ poll.pc = "warm" /\ Warmed /\ ~poll.news
  /\ poll' = NoPoll
  /\ UNCHANGED <<feed, up, cache, polled, req, history>>

\* The worker dies between two awaits and is started again, or the reply to the SET
\* of the snapshot is lost.
PollDies ==
  /\ poll.pc = "warm"
  /\ poll' = NoPoll
  /\ UNCHANGED <<feed, up, cache, polled, req, history>>

\* The job polls no more: POLL_ENABLED=false, a failing provider, a dead worker.
PollStops ==
  /\ poll.pc = "idle"
  /\ poll' = [poll EXCEPT !.pc = "stopped"]
  /\ UNCHANGED <<feed, up, cache, polled, req, history>>

-----------------------------------------------------------------------------
(* GET /matches/live and GET /matches/:id *)

\* Mutant: a missing key (null) is taken for an answer.
Hit_null(k) == up

\* cacheGet: an outage is a miss.
Hit(k) == up /\ cache[k] # 0

Get(r, k) ==
  /\ req[r].pc \in {"idle", "done"}
  /\ req' = [req EXCEPT ![r] =
       IF Hit(k)
       THEN [pc |-> "done", key |-> k, match |-> cache[k], status |-> 200]
       ELSE [pc |-> "miss", key |-> k, match |-> 0, status |-> 0]]
  /\ UNCHANGED <<feed, up, cache, poll, polled, history>>

\* getMatchDetail throws NotFoundError when the provider does not know the id.
CachesAnswer(k) == k = "list" \/ k \in Known[feed]

\* The direct call to the provider.
Fallback(r) ==
  /\ req[r].pc = "miss"
  /\ req' = [req EXCEPT ![r] =
       IF CachesAnswer(@.key) THEN [@ EXCEPT !.pc = "rewarm", !.match = feed]
                              ELSE [@ EXCEPT !.pc = "done", !.status = 404]]
  /\ UNCHANGED <<feed, up, cache, poll, polled, history>>

\* The typed errors of the client: 503 and 502.
FallbackFails(r) ==
  /\ req[r].pc = "miss"
  /\ \E status \in {502, 503} : req' = [req EXCEPT ![r].pc = "done", ![r].status = status]
  /\ UNCHANGED <<feed, up, cache, poll, polled, history>>

Rewarm(r) ==
  /\ req[r].pc = "rewarm"
  /\ LET k == req[r].key
     IN  /\ CacheSet(k, req[r].match)
         /\ behind' = IF ~up THEN behind
                      ELSE IF req[r].match < polled THEN behind \cup {k} ELSE behind \ {k}
  /\ req' = [req EXCEPT ![r].pc = "done", ![r].status = 200]
  /\ UNCHANGED <<feed, up, poll, polled, told>>

-----------------------------------------------------------------------------
Next ==
  \/ Advance \/ LoseRedis \/ RegainRedis
  \/ PollFetch \/ Emit \/ PollEnd \/ PollDies \/ PollStops
  \/ \E k \in Key : Expire(k) \/ WarmKey(k)
  \/ \E r \in Request : Fallback(r) \/ FallbackFails(r) \/ Rewarm(r)
  \/ \E r \in Request : \E k \in Key : Get(r, k)

Spec == Init /\ [][Next]_vars

\* No poll refreshes the key any more.
Abandoned(k) == poll.pc = "stopped" \/ k \notin Of(feed)

\* Steps under way are finished (a route's call to the provider is bounded), Redis
\* comes back for long enough, the job polls unless it has stopped and does not die at
\* the same place for ever, and the TTL of a key nobody refreshes runs out.
FairSpec ==
  /\ Spec
  /\ WF_vars(RegainRedis) /\ SF_vars(PollFetch) /\ WF_vars(Emit \/ PollEnd)
  /\ \A k \in Key : SF_vars(up /\ WarmKey(k)) /\ WF_vars(WarmKey(k))
  /\ \A k \in Key : WF_vars(Abandoned(k) /\ Expire(k))
  /\ \A r \in Request : WF_vars(Fallback(r) \/ FallbackFails(r)) /\ WF_vars(Rewarm(r))

-----------------------------------------------------------------------------
(* Properties *)

\* Types, and a 200 carries a match list or a match.
TypeOK ==
  /\ feed \in 1 .. Last /\ up \in BOOLEAN /\ polled \in 0 .. Last
  /\ cache \in [Key -> 0 .. Last]
  /\ poll \in [pc : {"idle", "warm", "stopped"}, matches : 0 .. Last, news : BOOLEAN,
               todo : SUBSET Key]
  /\ req \in [Request -> [pc : {"idle", "miss", "rewarm", "done"}, key : Key,
                          match : 0 .. Last, status : {0, 200, 404, 502, 503}]]
  /\ \A r \in Request : req[r].status = 200 => req[r].match # 0

\* Who has been told of a match finds no older one in the cache (snapshot, then cache,
\* then emit): whatever runs died half-way, keys ran out and routes wrote in between,
\* a hit is at least the list of the last announcement.  The exceptions are a key whose
\* last write by the poll was skipped, and one that a route wrote after the poll with
\* what it had asked the provider for before.
NewsIsReadable == \A k \in Key \ behind : cache[k] # 0 => cache[k] >= told[k]

\* Once the provider has moved on for good, no older value stays readable: a
\* stale write of a slow route is overwritten by the next poll, and what no poll
\* writes any more runs out.
StaleDataGoes == feed = Last ~> [](\A k \in Key : cache[k] \in {0, Last})
=============================================================================
