--------------------------- MODULE ReadCacheProofs ---------------------------
(***************************************************************************)
(* Proofs about ReadCache, for any lists, any ids, any number of requests  *)
(* and any outages.                                                        *)
(***************************************************************************)
EXTENDS ReadCache, TLAPS

(* What a route is about to write and to answer is a value of the provider: a miss
   never turns into an answer. *)
AnswersInv == \A r \in Request : req[r].pc = "rewarm" => req[r].match # 0

Status == {0, 200, 404, 502, 503}

RequestType ==
  [pc : {"idle", "miss", "rewarm", "done"}, key : Key, match : 0 .. Last, status : Status]

RequestsInv ==
  /\ req \in [Request -> RequestType]
  /\ \A r \in Request : req[r].status = 200 => req[r].match # 0
  /\ AnswersInv

PollType ==
  [pc : {"idle", "warm", "stopped"}, matches : 0 .. Last, news : BOOLEAN, todo : SUBSET Key]

ServerInv ==
  /\ feed \in 1 .. Last /\ up \in BOOLEAN /\ polled \in 0 .. Last
  /\ poll \in PollType

StoredInv == cache \in [Key -> 0 .. Last] /\ told \in [Key -> 0 .. Last]

CacheInv == ServerInv /\ StoredInv /\ RequestsInv

(* What is read at k is no older than list v, or there is an excuse. *)
AtLeast(k, v) == k \in behind \/ cache[k] = 0 \/ cache[k] >= v

(* Nobody has been told of more than the snapshot, which is no newer than what a run
   writes; and a run that is going to announce its list has written the keys that it
   does not have before it any more. *)
RunInv ==
  /\ polled <= feed
  /\ poll.pc = "warm" => poll.matches \in 1 .. Last /\ polled <= poll.matches
  /\ poll.pc = "warm" /\ poll.news =>
       /\ polled = poll.matches
       /\ \A k \in Of(poll.matches) \ poll.todo : AtLeast(k, poll.matches)

ToldInv == \A k \in Key : told[k] <= polled /\ AtLeast(k, told[k])

NewsInv == RunInv /\ ToldInv

(* They are what the two theorems claim, and more. *)
LEMMA InvSuffices == CacheInv /\ NewsInv => TypeOK /\ NewsIsReadable
  BY DEF CacheInv, ServerInv, StoredInv, TypeOK, PollType, RequestType, Status, RequestsInv,
         NewsInv, ToldInv, AtLeast, NewsIsReadable

(* 0 is no version, and every version may be a value. *)
LEMMA LastIsNat ==
  Last \in Nat /\ 0 \in 0 .. Last /\ \A i \in 1 .. Last : i \in 0 .. Last /\ i # 0
  BY CacheAssumption

(* What is asked for and answered depends on the requests only. *)
LEMMA RequestsFrame == RequestsInv /\ UNCHANGED req => RequestsInv'
  BY DEF RequestsInv, AnswersInv

LEMMA NoPollIsPoll == NoPoll \in PollType /\ NoPoll.pc = "idle"
  BY LastIsNat DEF NoPoll, PollType

LEMMA OfIsKeys == \A v \in 1 .. Last : Of(v) \in SUBSET Key
  BY CacheAssumption DEF Of, Key

(* Nothing is cached, asked for or announced at first. *)
LEMMA CacheStart == Init => CacheInv /\ NewsInv
<1> SUFFICES ASSUME Init PROVE CacheInv /\ NewsInv
  OBVIOUS
<1>1. ServerInv
  BY CacheAssumption, NoPollIsPoll DEF Init, ServerInv
<1>2. StoredInv /\ RequestsInv
  BY CacheAssumption DEF Init, StoredInv, RequestsInv, RequestType, Status, AnswersInv, Key
<1>3. NewsInv
  BY NoPollIsPoll DEF Init, NewsInv, RunInv, ToldInv, AtLeast
<1> QED
  BY <1>1, <1>2, <1>3 DEF CacheInv

(* A step after which keys are read as they were, with no more told of them. *)
LEMMA NewsFrame ==
  ASSUME NewsInv, UNCHANGED <<polled, poll, told>>, polled' <= feed',
         \A k \in Key, v \in 0 .. Last : AtLeast(k, v) => AtLeast(k, v)',
         CacheInv
  PROVE  NewsInv'
<1>1. ToldInv'
  BY DEF NewsInv, ToldInv, CacheInv, StoredInv
<1>2. RunInv'
  <2>1. poll.pc = "warm" /\ poll.news => polled = poll.matches
    BY DEF NewsInv, RunInv
  <2>2. ASSUME poll.pc = "warm", poll.news, NEW k \in Of(poll.matches) \ poll.todo
        PROVE  AtLeast(k, poll.matches)'
    <3>1. poll.matches \in 1 .. Last /\ poll.matches \in 0 .. Last
      BY <2>2, LastIsNat DEF NewsInv, RunInv
    <3>2. k \in Key
      BY <2>2, <3>1, OfIsKeys
    <3> QED
      BY <2>2, <3>1, <3>2 DEF NewsInv, RunInv
  <2> QED
    BY <2>1, <2>2 DEF NewsInv, RunInv
<1> QED
  BY <1>1, <1>2 DEF NewsInv
(* The provider, the TTL, an outage. *)
LEMMA CacheEnvironment ==
  ASSUME CacheInv, NewsInv, Advance \/ LoseRedis \/ RegainRedis \/ \E k \in Key : Expire(k)
  PROVE  CacheInv' /\ NewsInv'
<1>1. CASE Advance
  <2>1. CacheInv'
    BY <1>1, RequestsFrame, CacheAssumption
    DEF CacheInv, ServerInv, StoredInv, Advance, history
  <2>2. polled' <= feed' /\ UNCHANGED <<polled, poll, told, cache, behind>>
    BY <1>1, LastIsNat DEF Advance, history, CacheInv, ServerInv, NewsInv, RunInv
  <2> QED
    BY <2>1, <2>2, NewsFrame DEF AtLeast
<1>2. CASE LoseRedis \/ RegainRedis
  <2>1. CacheInv'
    BY <1>2, RequestsFrame
    DEF CacheInv, ServerInv, StoredInv, LoseRedis, RegainRedis, history
  <2>2. polled' <= feed' /\ UNCHANGED <<polled, poll, told, cache, behind>>
    BY <1>2 DEF LoseRedis, RegainRedis, history, NewsInv, RunInv
  <2> QED
    BY <2>1, <2>2, NewsFrame DEF AtLeast
<1>3. ASSUME NEW k \in Key, Expire(k) PROVE CacheInv' /\ NewsInv'
  <2>1. /\ cache' = [cache EXCEPT ![k] = 0] /\ behind' = behind \ {k}
        /\ UNCHANGED <<feed, up, poll, polled, req, told>>
    BY <1>3 DEF Expire
  <2>2. CacheInv'
    BY <2>1, RequestsFrame, LastIsNat DEF CacheInv, ServerInv, StoredInv
  <2>3. \A j \in Key, v \in 0 .. Last : AtLeast(j, v) => AtLeast(j, v)'
    BY <2>1 DEF AtLeast, CacheInv, StoredInv
  <2>4. polled' <= feed'
    BY <2>1 DEF NewsInv, RunInv
  <2> QED
    BY <2>1, <2>2, <2>3, <2>4, NewsFrame
<1> QED
  BY <1>1, <1>2, <1>3

(* The poll fetches a list and compares it. *)
LEMMA CacheFetch ==
  ASSUME CacheInv, NewsInv, PollFetch
  PROVE  CacheInv' /\ NewsInv'
<1>1. PICK news \in {FALSE, polled \notin {0, feed}} :
        /\ polled' = IF news \/ polled = 0 THEN feed ELSE polled
        /\ poll' = [pc |-> "warm", matches |-> feed, news |-> news,
                    todo |-> IF (news \/ polled = 0) \/ WarmsWhenQuiet THEN Of(feed) ELSE {}]
  BY DEF PollFetch
<1>2. UNCHANGED <<feed, up, cache, req, told, behind>>
  BY DEF PollFetch, history
<1>3. poll' = [pc |-> "warm", matches |-> feed, news |-> news, todo |-> Of(feed)]
  BY <1>1 DEF WarmsWhenQuiet
<1>4. /\ feed \in 1 .. Last /\ feed \in 0 .. Last /\ polled \in 0 .. Last /\ polled <= feed
      /\ Last \in Nat
  BY LastIsNat DEF CacheInv, ServerInv, NewsInv, RunInv
<1>5. polled' \in 0 .. Last /\ polled <= polled' /\ polled' <= feed /\ (news => polled' = feed)
  BY <1>1, <1>4
<1>6. poll' \in PollType
  BY <1>3, <1>4, OfIsKeys DEF PollType
<1>7. CacheInv'
  BY <1>2, <1>5, <1>6, RequestsFrame DEF CacheInv, ServerInv, StoredInv
<1>8. RunInv'
  BY <1>2, <1>3, <1>4, <1>5 DEF RunInv
<1>9. ToldInv'
  BY <1>2, <1>4, <1>5 DEF NewsInv, ToldInv, AtLeast, CacheInv, StoredInv
<1> QED
  BY <1>7, <1>8, <1>9 DEF NewsInv

(* It writes the list it fetched, under the keys of that list. *)
LEMMA CacheWarm ==
  ASSUME CacheInv, NewsInv, NEW k \in Key, WarmKey(k)
  PROVE  CacheInv' /\ NewsInv'
<1>1. /\ poll.pc = "warm" /\ k \in poll.todo
      /\ cache' = IF up THEN [cache EXCEPT ![k] = poll.matches] ELSE cache
      /\ behind' = IF up THEN behind \ {k} ELSE behind \cup {k}
      /\ poll' = [poll EXCEPT !.todo = @ \ {k}]
      /\ UNCHANGED <<feed, up, polled, req, told>>
  BY DEF WarmKey, CacheSet
<1>2. /\ poll \in PollType /\ poll.matches \in 1 .. Last /\ poll.matches \in 0 .. Last
      /\ polled <= poll.matches /\ polled \in 0 .. Last
  BY <1>1, LastIsNat DEF CacheInv, ServerInv, NewsInv, RunInv
<1>3. /\ poll' \in PollType /\ poll'.pc = "warm" /\ poll'.matches = poll.matches
      /\ poll'.news = poll.news /\ poll'.todo = poll.todo \ {k}
  BY <1>1, <1>2 DEF PollType
<1>4. CacheInv'
  BY <1>1, <1>2, <1>3, RequestsFrame DEF CacheInv, ServerInv, StoredInv
<1>5. AtLeast(k, poll.matches)'
  BY <1>1, <1>2 DEF AtLeast, CacheInv, StoredInv, PollType
<1>6. \A j \in Key \ {k} : cache'[j] = cache[j] /\ (j \in behind' <=> j \in behind)
  BY <1>1 DEF CacheInv, StoredInv
<1>7. RunInv'
  <2>1. ASSUME poll.news, NEW j \in Of(poll.matches) \ (poll.todo \ {k})
        PROVE  AtLeast(j, poll.matches)'
    <3>1. j \in Key
      BY <1>2, <2>1, OfIsKeys
    <3>2. CASE j = k
      BY <1>5, <3>2
    <3>3. CASE j # k
      <4>1. AtLeast(j, poll.matches)
        BY <1>1, <2>1, <3>3 DEF NewsInv, RunInv
      <4> QED
        BY <1>3, <1>6, <3>1, <3>3, <4>1 DEF AtLeast
    <3> QED
      BY <3>2, <3>3
  <2> QED
    BY <1>1, <1>2, <1>3, <2>1 DEF NewsInv, RunInv, AtLeast
<1>8. ToldInv'
  <2>1. ASSUME NEW j \in Key
        PROVE  told[j] <= polled /\ AtLeast(j, told[j])'
    <3>1. told[j] <= polled /\ AtLeast(j, told[j]) /\ told[j] \in 0 .. Last
      BY DEF NewsInv, ToldInv, CacheInv, StoredInv
    <3>2. CASE j = k
      BY <1>1, <1>2, <1>3, <1>5, <3>1, <3>2, LastIsNat DEF AtLeast, CacheInv, StoredInv
    <3>3. CASE j # k
      BY <1>1, <1>6, <3>1, <3>3 DEF AtLeast
    <3> QED
      BY <3>2, <3>3
  <2> QED
    BY <1>1, <2>1 DEF ToldInv, AtLeast
<1> QED
  BY <1>4, <1>7, <1>8 DEF NewsInv

(* It announces the list, or ends in another way. *)
LEMMA CachePollEnds ==
  ASSUME CacheInv, NewsInv, Emit \/ PollEnd \/ PollDies \/ PollStops
  PROVE  CacheInv' /\ NewsInv'
<1>1. CASE Emit
  <2> DEFINE new == [k \in Key |-> IF k \in Of(poll.matches) THEN poll.matches ELSE told[k]]
  <2>1. /\ poll.pc = "warm" /\ poll.todo = {} /\ poll.news /\ told' = new /\ poll' = NoPoll
        /\ UNCHANGED <<feed, up, cache, polled, req, behind>>
    BY <1>1 DEF Emit, Warmed
  <2>2. /\ poll.matches \in 0 .. Last /\ polled = poll.matches
        /\ \A k \in Of(poll.matches) : AtLeast(k, poll.matches)
    BY <2>1, LastIsNat DEF NewsInv, RunInv
  <2>3. told' \in [Key -> 0 .. Last]
    BY <2>1, <2>2 DEF CacheInv, StoredInv
  <2>4. CacheInv'
    BY <2>1, <2>3, NoPollIsPoll, RequestsFrame DEF CacheInv, ServerInv, StoredInv
  <2>5. RunInv'
    BY <2>1, NoPollIsPoll DEF NewsInv, RunInv
  <2>6. ToldInv'
    <3>1. ASSUME NEW k \in Key
          PROVE  told'[k] <= polled /\ AtLeast(k, told'[k])
      <4>1. CASE k \in Of(poll.matches)
        <5>1. told'[k] = poll.matches
          BY <2>1, <4>1
        <5> QED
          BY <2>2, <4>1, <5>1, LastIsNat DEF AtLeast
      <4>2. CASE k \notin Of(poll.matches)
        <5>1. told'[k] = told[k]
          BY <2>1, <4>2
        <5> QED
          BY <5>1 DEF NewsInv, ToldInv
      <4> QED
        BY <4>1, <4>2
    <3> QED
      BY <2>1, <3>1 DEF ToldInv, AtLeast
  <2> QED
    BY <2>4, <2>5, <2>6 DEF NewsInv
<1>2. CASE PollEnd \/ PollDies \/ PollStops
  <2>1. /\ poll' = NoPoll \/ poll' = [poll EXCEPT !.pc = "stopped"]
        /\ UNCHANGED <<feed, up, cache, polled, req, told, behind>>
    BY <1>2 DEF PollEnd, PollDies, PollStops, history
  <2>2. poll' \in PollType /\ poll'.pc # "warm"
    BY <2>1, NoPollIsPoll DEF CacheInv, ServerInv, PollType
  <2>3. CacheInv'
    BY <2>1, <2>2, RequestsFrame DEF CacheInv, ServerInv, StoredInv
  <2> QED
    BY <2>1, <2>2, <2>3 DEF NewsInv, RunInv, ToldInv, AtLeast
<1> QED
  BY <1>1, <1>2

(* What a step makes of one request. *)
Becomes(r, a) == req' = [req EXCEPT ![r] = a]

ProviderDown == {502, 503}

Done(q, code) == [q EXCEPT !.pc = "done", !.status = code]

(* A request that has an answer keeps its type. *)
LEMMA RequestDone ==
  ASSUME NEW q \in RequestType, NEW code \in Status
  PROVE  /\ Done(q, code) \in RequestType
         /\ Done(q, code).status = code /\ Done(q, code).pc = "done"
         /\ Done(q, code).match = q.match
  BY DEF RequestType, Done

(* The two fields are set at once. *)
LEMMA RequestSet ==
  ASSUME NEW r \in Request, NEW code, req \in [Request -> RequestType],
         req' = [req EXCEPT ![r].pc = "done", ![r].status = code]
  PROVE  Becomes(r, Done(req[r], code))
  BY DEF Becomes, Done

(* One request goes on, with a value if it answers with one. *)
LEMMA OneRequest ==
  ASSUME CacheInv, NEW r \in Request, NEW a \in RequestType, Becomes(r, a),
         a.status = 200 \/ a.pc = "rewarm" => a.match # 0
  PROVE  RequestsInv'
  BY DEF CacheInv, RequestsInv, AnswersInv, Becomes

(* A route that reads, or asks the provider, leaves the cache alone. *)
LEMMA CacheReads ==
  ASSUME CacheInv, NewsInv, NEW r \in Request,
         Fallback(r) \/ FallbackFails(r) \/ \E k \in Key : Get(r, k)
  PROVE  CacheInv' /\ NewsInv'
<1>1. /\ feed \in 1 .. Last /\ cache \in [Key -> 0 .. Last]
      /\ req \in [Request -> RequestType] /\ req[r] \in RequestType
      /\ req[r].status = 200 => req[r].match # 0
  BY DEF CacheInv, ServerInv, StoredInv, RequestsInv
<1>2. UNCHANGED <<feed, up, cache, poll, polled, told, behind>>
  BY DEF Fallback, FallbackFails, Get, history
<1>3. \E a \in RequestType :
        Becomes(r, a) /\ (a.status = 200 \/ a.pc = "rewarm" => a.match # 0)
  <2>1. CASE Fallback(r) /\ CachesAnswer(req[r].key)
    <3> DEFINE a == [req[r] EXCEPT !.pc = "rewarm", !.match = feed]
    <3>1. Becomes(r, a)
      BY <2>1 DEF Fallback, Becomes
    <3>2. a \in RequestType /\ a.match # 0
      BY <1>1, LastIsNat DEF RequestType
    <3> HIDE DEF a
    <3> QED
      BY <3>1, <3>2
  <2>2. CASE Fallback(r) /\ ~CachesAnswer(req[r].key)
    <3>1. Becomes(r, Done(req[r], 404))
      BY <2>2 DEF Fallback, Becomes, Done
    <3>2. 404 \in Status
      BY DEF Status
    <3> QED
      BY <1>1, <3>1, <3>2, RequestDone
  <2>3. CASE FallbackFails(r)
    <3>1. PICK code \in ProviderDown : req' = [req EXCEPT ![r].pc = "done", ![r].status = code]
      BY <2>3 DEF FallbackFails, ProviderDown
    <3>2. Becomes(r, Done(req[r], code))
      BY <1>1, <3>1, RequestSet
    <3>3. code \in Status /\ code # 200
      BY DEF Status, ProviderDown
    <3> QED
      BY <1>1, <3>2, <3>3, RequestDone
  <2>4. ASSUME NEW k \in Key, Get(r, k), Hit(k)
        PROVE  \E a \in RequestType :
                 Becomes(r, a) /\ (a.status = 200 \/ a.pc = "rewarm" => a.match # 0)
    <3> DEFINE a == [pc |-> "done", key |-> k, match |-> cache[k], status |-> 200]
    <3>1. Becomes(r, a)
      BY <2>4 DEF Get, Becomes
    <3>2. a \in RequestType /\ a.match # 0
      BY <1>1, <2>4 DEF Hit, RequestType, Status
    <3> HIDE DEF a
    <3> QED
      BY <3>1, <3>2
  <2>5. ASSUME NEW k \in Key, Get(r, k), ~Hit(k)
        PROVE  \E a \in RequestType :
                 Becomes(r, a) /\ (a.status = 200 \/ a.pc = "rewarm" => a.match # 0)
    <3> DEFINE a == [pc |-> "miss", key |-> k, match |-> 0, status |-> 0]
    <3>1. Becomes(r, a)
      BY <2>5 DEF Get, Becomes
    <3>2. a \in RequestType /\ a.status # 200 /\ a.pc # "rewarm"
      BY LastIsNat DEF RequestType, Status
    <3> HIDE DEF a
    <3> QED
      BY <3>1, <3>2
  <2> QED
    BY <2>1, <2>2, <2>3, <2>4, <2>5
<1>4. CacheInv'
  BY <1>2, <1>3, OneRequest DEF CacheInv, ServerInv, StoredInv
<1>5. NewsInv'
  BY <1>2 DEF NewsInv, RunInv, ToldInv, AtLeast
<1> QED
  BY <1>4, <1>5

(* A route that writes what it asked for answers with it; what is older than the
   snapshot has an excuse. *)
LEMMA CacheRewarm ==
  ASSUME CacheInv, NewsInv, NEW r \in Request, Rewarm(r)
  PROVE  CacheInv' /\ NewsInv'
<1> DEFINE k == req[r].key
           match == req[r].match
<1>1. /\ cache' = IF up THEN [cache EXCEPT ![k] = match] ELSE cache
      /\ behind' = IF ~up THEN behind
                   ELSE IF match < polled THEN behind \cup {k} ELSE behind \ {k}
      /\ req' = [req EXCEPT ![r].pc = "done", ![r].status = 200]
      /\ UNCHANGED <<feed, up, poll, polled, told>>
  BY DEF Rewarm, CacheSet
<1>2. /\ req \in [Request -> RequestType] /\ req[r] \in RequestType /\ match # 0
      /\ k \in Key /\ match \in 0 .. Last /\ polled \in 0 .. Last
  BY DEF Rewarm, CacheInv, ServerInv, RequestsInv, AnswersInv, RequestType
<1>3. RequestsInv'
  <2>1. Becomes(r, Done(req[r], 200)) /\ 200 \in Status
    BY <1>1, <1>2, RequestSet DEF Status
  <2> QED
    BY <1>2, <2>1, RequestDone, OneRequest
<1> HIDE DEF k, match
<1>4. CacheInv'
  BY <1>1, <1>2, <1>3 DEF CacheInv, ServerInv, StoredInv
<1>5. ASSUME NEW j \in Key, NEW v \in 0 .. Last, v <= polled, AtLeast(j, v)
      PROVE  AtLeast(j, v)'
  <2>1. CASE j = k /\ up
    BY <1>1, <1>2, <1>5, <2>1, LastIsNat DEF AtLeast, CacheInv, StoredInv
  <2>2. CASE j # k \/ ~up
    BY <1>1, <1>5, <2>2 DEF AtLeast, CacheInv, StoredInv
  <2> QED
    BY <2>1, <2>2
<1>6. ToldInv'
  <2>1. ASSUME NEW j \in Key
        PROVE  told[j] <= polled /\ AtLeast(j, told[j])'
    <3>1. told[j] <= polled /\ AtLeast(j, told[j]) /\ told[j] \in 0 .. Last
      BY DEF NewsInv, ToldInv, CacheInv, StoredInv
    <3> QED
      BY <1>1, <1>5, <3>1 DEF AtLeast
  <2> QED
    BY <1>1, <2>1 DEF ToldInv, AtLeast
<1>7. RunInv'
  <2>1. ASSUME poll.pc = "warm", poll.news, NEW j \in Of(poll.matches) \ poll.todo
        PROVE  AtLeast(j, poll.matches)'
    <3>1. /\ poll.matches \in 1 .. Last /\ poll.matches \in 0 .. Last
          /\ polled = poll.matches /\ AtLeast(j, poll.matches)
      BY <2>1, LastIsNat DEF NewsInv, RunInv
    <3>2. j \in Key /\ poll.matches <= polled
      BY <1>2, <2>1, <3>1, OfIsKeys, LastIsNat
    <3> QED
      BY <1>1, <1>5, <3>1, <3>2 DEF AtLeast
  <2> QED
    BY <1>1, <2>1 DEF NewsInv, RunInv, AtLeast
<1> QED
  BY <1>4, <1>6, <1>7 DEF NewsInv

(* Every step keeps it. *)
LEMMA CacheStep == CacheInv /\ NewsInv /\ [Next]_vars => CacheInv' /\ NewsInv'
<1> SUFFICES ASSUME CacheInv, NewsInv, [Next]_vars PROVE CacheInv' /\ NewsInv'
  OBVIOUS
<1>1. CASE UNCHANGED vars
  BY <1>1, RequestsFrame
  DEF vars, history, CacheInv, ServerInv, StoredInv, NewsInv, RunInv, ToldInv, AtLeast
<1> QED
  BY <1>1, CacheEnvironment, CacheFetch, CacheWarm, CachePollEnds, CacheReads, CacheRewarm
  DEF Next

THEOREM CacheAlways == Spec => [](CacheInv /\ NewsInv)
  BY CacheStart, CacheStep, PTL DEF Spec

(* A route that answers 200 has a value to answer with, wherever it took it from. *)
THEOREM CacheTypes == Spec => []TypeOK
  BY InvSuffices, CacheAlways, PTL

(* For any lists, routes, outages and deaths of the worker: what is found in the cache
   is no older than the last announcement of it, unless the poll could not write the
   key or a slower route wrote it afterwards (runPollOnce, snapshot, cache, emit). *)
THEOREM NewsCached == Spec => []NewsIsReadable
  BY InvSuffices, CacheAlways, PTL
=============================================================================
