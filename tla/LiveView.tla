------------------------------ MODULE LiveView ------------------------------
(***************************************************************************)
(* From the poll to the page: a server process that starts, polls, pushes  *)
(* and shuts down (src/server.js, startPolling and stopPolling of          *)
(* src/jobs/pollScores.js, src/realtime/socket.js) and browsers that show  *)
(* one match each (client/src/hooks/useMatchSocket.js, useMatches.js).     *)
(*                                                                         *)
(* A copy of the match list is the index of the list in Feed, as in        *)
(* PollJob, whose run is reduced here to three steps: what several         *)
(* processes, retries and the lock add is checked there.  What the cache   *)
(* adds when requests are slow is checked in ReadCache.                    *)
(***************************************************************************)
EXTENDS MatchDiff

CONSTANTS
  Browser,
  Feed,       \* the provider's successive match lists
  Nothing,    \* no page, no room
  MaxStarts,  \* bound: how often the process is started
  MaxDrops,   \* bound: connections that break
  MaxVisits   \* bound: pages a browser opens

VARIABLES
  provider,   \* what the provider serves
  snapshot,   \* poll:snapshot, 0 before the first poll
  cached,     \* the match:<id> keys, 0 without one
  boot,       \* where start() is
  down,       \* where shutdown() is
  worker,     \* the BullMQ worker takes jobs
  bridge,     \* the socket bridge listens to the notifier
  handlers,   \* the notification handlers listen to the notifier
  run,        \* the poll under way
  starts,
  page,       \* the match a browser shows
  shown,      \* its query cache: per match what it holds, 0 for no entry
  fetch,      \* its GET /matches/:id
  link,       \* its socket is connected
  joining,    \* its join-match is on the way
  room,       \* the room its socket is in
  wire,       \* the scoreUpdates on the way to it
  drops, visits,
  excused     \* history: entries that miss an announcement nobody could send them

redisVars == <<snapshot, cached>>
serverVars == <<boot, down, worker, bridge, handlers, starts>>
socketVars == <<link, joining, room, wire>>
boundVars == <<drops, visits>>
pageVars == <<page, shown, fetch>>

vars == <<provider, redisVars, serverVars, run, socketVars, pageVars, boundVars, excused>>

Matches == UNION {DOMAIN MatchesById(Feed[i]) : i \in DOMAIN Feed}

ASSUME LiveViewAssumption ==
  /\ Len(Feed) \in Nat \ {0} /\ DOMAIN Feed = 1 .. Len(Feed)
  /\ Nothing \notin Matches
  /\ MaxStarts \in Nat /\ MaxDrops \in Nat /\ MaxVisits \in Nat

Lists(m) == {i \in DOMAIN Feed : m \in DOMAIN MatchesById(Feed[i])}

Match(i, m) == MatchesById(Feed[i])[m]

NoRun == [pc |-> "idle", before |-> 0, after |-> 0]

NoFetch == [pc |-> "none", answer |-> 0]

Asked == [pc |-> "asked", answer |-> 0]

Init ==
  /\ provider = 1 /\ snapshot = 0 /\ cached = [m \in Matches |-> 0]
  /\ boot = "off" /\ down = "no" /\ starts = 0
  /\ worker = FALSE /\ bridge = FALSE /\ handlers = FALSE
  /\ run = NoRun
  /\ page = [b \in Browser |-> Nothing]
  /\ shown = [b \in Browser |-> [m \in Matches |-> 0]]
  /\ fetch = [b \in Browser |-> NoFetch]
  /\ link = [b \in Browser |-> FALSE] /\ joining = link
  /\ room = page
  /\ wire = [b \in Browser |-> <<>>]
  /\ drops = 0 /\ visits = [b \in Browser |-> 0]
  /\ excused = [b \in Browser |-> {}]

Advance ==
  /\ provider < Len(Feed)
  /\ provider' = provider + 1
  /\ UNCHANGED <<redisVars, serverVars, run, socketVars, pageVars, boundVars, excused>>

-----------------------------------------------------------------------------
(* start() and shutdown() *)

Listening == boot \in {"polling", "up"}

\* Mutant: the listeners are detached as soon as the signal arrives.
ListensAtSignal_not(attached) == FALSE

\* fastify.close() comes first, and everything stays attached until it is done.
ListensAtSignal(attached) == attached

OnTheWay(b) == {wire[b][i].id : i \in DOMAIN wire[b]}

\* The entries of a browser that miss something once these are lost for it.
Missing(b, ids) == excused[b] \cup {id \in ids : shown[b][id] # 0}

Unannounced ==
  IF run.pc = "emit" THEN {c.id : c \in DiffMatches(Feed[run.before], Feed[run.after])} ELSE {}

\* The process is gone, with its memory and its connections.
Gone ==
  /\ boot' = "off" /\ down' = "no"
  /\ worker' = FALSE /\ bridge' = FALSE /\ handlers' = FALSE
  /\ run' = NoRun
  /\ link' = [b \in Browser |-> FALSE] /\ joining' = link'
  /\ room' = [b \in Browser |-> Nothing]
  /\ wire' = [b \in Browser |-> <<>>]
  /\ excused' = [b \in Browser |-> Missing(b, OnTheWay(b) \cup Unannounced)]
  /\ UNCHANGED <<provider, redisVars, starts, pageVars, boundVars>>

\* The container is started and start() awaits Postgres.
Start ==
  /\ boot = "off" /\ starts < MaxStarts
  /\ starts' = starts + 1
  /\ boot' = "connect"
  /\ UNCHANGED <<provider, redisVars, down, worker, bridge, handlers, run, socketVars,
                 pageVars, boundVars, excused>>

\* listen, initSocket and the part of startPolling up to its first await.
Listen ==
  /\ boot = "connect" /\ down = "no"
  /\ boot' = "polling"
  /\ bridge' = TRUE /\ worker' = TRUE
  /\ UNCHANGED <<provider, redisVars, down, handlers, starts, run, socketVars, pageVars,
                 boundVars, excused>>

\* startPolling returns and initNotificationHandlers follows without an await.
\* A SIGTERM meanwhile does not stop it.
AttachHandlers ==
  /\ boot = "polling"
  /\ boot' = "up"
  /\ handlers' = TRUE
  /\ UNCHANGED <<provider, redisVars, down, worker, bridge, starts, run, socketVars, pageVars,
                 boundVars, excused>>

\* process.exit(1).
StartFails == boot \in {"connect", "polling"} /\ Gone

Crash == boot = "up" /\ Gone

\* SIGTERM: shutdown() calls fastify.close().
Shutdown ==
  /\ boot # "off" /\ down = "no"
  /\ down' = "closing"
  /\ handlers' = ListensAtSignal(handlers)
  /\ UNCHANGED <<provider, redisVars, boot, worker, bridge, starts, run, socketVars, pageVars,
                 boundVars, excused>>

\* fastify.close() waits for the connections there are, and a WebSocket is one:
\* nothing closes it before closeSocket, which detaches the bridge first.
CloseHttp ==
  /\ down = "closing" /\ \A b \in Browser : ~link[b]
  /\ down' = "sockets"
  /\ bridge' = FALSE
  /\ UNCHANGED <<provider, redisVars, boot, worker, handlers, starts, run, socketVars, pageVars,
                 boundVars, excused>>

\* closeSocket is done: closeNotificationHandlers, then stopPolling up to its first
\* await, from where on the worker takes no more jobs.
CloseSocket ==
  /\ down = "sockets"
  /\ down' = "drain"
  /\ handlers' = FALSE /\ worker' = FALSE
  /\ UNCHANGED <<provider, redisVars, boot, bridge, starts, run, socketVars, pageVars, boundVars,
                 excused>>

\* worker.close() has drained the active job.  worker.close(true) waits for the same:
\* BullMQ answers it with the promise of the close that is under way.
Drained ==
  /\ down \in {"drain", "forced"} /\ run = NoRun
  /\ down' = "disconnect"
  /\ UNCHANGED <<provider, redisVars, boot, worker, bridge, handlers, starts, run, socketVars,
                 pageVars, boundVars, excused>>

\* WORKER_CLOSE_TIMEOUT_MS is over and the job still runs: worker.close(true).
ForceClose ==
  /\ down = "drain" /\ run # NoRun
  /\ down' = "forced"
  /\ UNCHANGED <<provider, redisVars, boot, worker, bridge, handlers, starts, run, socketVars,
                 pageVars, boundVars, excused>>

\* The connections are closed, prisma.$disconnect, process.exit(0).
Exit == down = "disconnect" /\ Gone

-----------------------------------------------------------------------------
(* The poll *)

RunKeeps == UNCHANGED <<provider, serverVars, pageVars, boundVars>>

\* Mutant: the worker goes on taking jobs while it is drained.
TakesJobs_always == Listening

TakesJobs == worker

\* Lock, provider call, GET of the snapshot.
PollBegins ==
  /\ TakesJobs /\ run = NoRun
  /\ run' = [pc |-> "write", before |-> snapshot, after |-> provider]
  /\ UNCHANGED <<redisVars, socketVars, excused>>
  /\ RunKeeps

Differs(r) == r.before # 0 /\ DiffMatches(Feed[r.before], Feed[r.after]) # {}

\* SET of the snapshot unless nothing has changed, and of the cache; cacheSet
\* swallows its errors.  The first snapshot is announced to nobody.
PollWrites ==
  /\ run.pc = "write"
  /\ snapshot' = IF snapshot = 0 \/ Differs(run) THEN run.after ELSE snapshot
  /\ \/ cached' = [m \in Matches |-> IF run.after \in Lists(m) THEN run.after ELSE cached[m]]
     \/ UNCHANGED cached
  /\ run' = IF Differs(run) THEN [run EXCEPT !.pc = "emit"] ELSE NoRun
  /\ excused' = IF snapshot = 0 THEN [b \in Browser |-> Missing(b, Matches)] ELSE excused
  /\ UNCHANGED socketVars
  /\ RunKeeps

\* The provider or Redis fails before anything is written.
PollFails ==
  /\ run.pc = "write"
  /\ run' = NoRun
  /\ UNCHANGED <<redisVars, socketVars, excused>>
  /\ RunKeeps

\* Mutant: everyone who is in some room gets the update.
InRoom_any(b, id) == room[b] # Nothing

InRoom(b, id) == room[b] = id

\* The scoreUpdates of an announcement for one browser; `match' of the code is
\* the match in list `at', or null if that list lacks it.
UpdatesFor(b, changes, at) ==
  LET mine == {c.id : c \in {d \in changes : InRoom(b, d.id)}}
      update(id) == [id |-> id, at |-> at, gone |-> at \notin Lists(id)]
  IN  IF mine = {} THEN <<>> ELSE <<update(CHOOSE id \in mine : TRUE)>>

\* Nobody can send an update to a browser that shows something else, is not
\* connected, or whose join has not arrived.
CannotHear(b, id) == page[b] # id \/ ~link[b] \/ joining[b]

\* notifier.emit: the bridge sends at once, the handlers start.
Emit ==
  /\ run.pc = "emit"
  /\ LET changes == DiffMatches(Feed[run.before], Feed[run.after])
         ids == {c.id : c \in changes}
     IN  /\ wire' = [b \in Browser |->
                       IF bridge THEN wire[b] \o UpdatesFor(b, changes, run.after) ELSE wire[b]]
         /\ excused' = [b \in Browser |-> Missing(b, {id \in ids : CannotHear(b, id)})]
  /\ run' = NoRun
  /\ UNCHANGED <<redisVars, link, joining, room>>
  /\ RunKeeps

-----------------------------------------------------------------------------
(* The page *)

BrowserKeeps ==
  UNCHANGED <<provider, redisVars, serverVars, run>>

Unplugged(b) ==
  /\ link' = [link EXCEPT ![b] = FALSE]
  /\ joining' = [joining EXCEPT ![b] = FALSE]
  /\ room' = [room EXCEPT ![b] = Nothing]
  /\ wire' = [wire EXCEPT ![b] = <<>>]
  /\ excused' = [excused EXCEPT ![b] = Missing(b, OnTheWay(b))]

\* Without an entry the page fetches; with one it may be fresh enough (staleTime).
OpenPage(b, m) ==
  /\ page[b] = Nothing
  /\ visits[b] < MaxVisits
  /\ visits' = [visits EXCEPT ![b] = @ + 1]
  /\ page' = [page EXCEPT ![b] = m]
  /\ \/ fetch' = [fetch EXCEPT ![b] = Asked]
     \/ shown[b][m] # 0 /\ UNCHANGED fetch
  /\ UNCHANGED <<shown, socketVars, drops, excused>>
  /\ BrowserKeeps

\* The cleanup of the effect: leave-match, off, disconnect.  The query has no
\* observer left and its request is aborted; what the socket has stored stays.
ClosePage(b) ==
  /\ page[b] # Nothing
  /\ page' = [page EXCEPT ![b] = Nothing]
  /\ fetch' = [fetch EXCEPT ![b] = NoFetch]
  /\ Unplugged(b)
  /\ UNCHANGED <<shown, boundVars>>
  /\ BrowserKeeps

\* Mutant: only the first connection of a page joins.
Joins_once(b) == shown[b][page[b]] = 0

\* Every connect joins, a reconnect too.
Joins(b) == TRUE

Connect(b) ==
  /\ page[b] # Nothing /\ ~link[b]
  /\ Listening /\ down = "no"
  /\ link' = [link EXCEPT ![b] = TRUE]
  /\ joining' = [joining EXCEPT ![b] = Joins(b)]
  /\ UNCHANGED <<room, wire, pageVars, boundVars, excused>>
  /\ BrowserKeeps

\* The server gets join-match.
Join(b) ==
  /\ joining[b]
  /\ joining' = [joining EXCEPT ![b] = FALSE]
  /\ room' = [room EXCEPT ![b] = page[b]]
  /\ UNCHANGED <<link, wire, pageVars, boundVars, excused>>
  /\ BrowserKeeps

\* The connection breaks; what was on the way is lost.
Drop(b) ==
  /\ link[b] /\ drops < MaxDrops
  /\ drops' = drops + 1
  /\ Unplugged(b)
  /\ UNCHANGED <<pageVars, visits>>
  /\ BrowserKeeps

\* A list is no older than the last announced one as far as a match is concerned.
UpToDate(i, m) ==
  \/ i >= snapshot
  \/ snapshot \notin Lists(m)
  \/ i \in Lists(m) /\ ChangedFields(Match(i, m), Match(snapshot, m)) = {}

\* Mutant: an update without a match is stored like any other.
Stores_null(b, update) == update.id = page[b]

\* onScoreUpdate: not another match's, not `removed'.
Stores(b, update) == update.id = page[b] /\ ~update.gone

Receive(b) ==
  /\ wire[b] # <<>>
  /\ LET update == Head(wire[b])
     IN  IF Stores(b, update)
         THEN /\ shown' = [shown EXCEPT ![b][page[b]] = update.at]
              /\ excused' = IF UpToDate(update.at, page[b])
                            THEN [excused EXCEPT ![b] = @ \ {page[b]}] ELSE excused
         ELSE UNCHANGED <<shown, excused>>
  /\ wire' = [wire EXCEPT ![b] = Tail(@)]
  /\ UNCHANGED <<page, fetch, link, joining, room, boundVars>>
  /\ BrowserKeeps

\* GET /matches/:id: from the cache, or from the provider (an expired key, an
\* outage) with a re-warm that may fail.
Answer(b) ==
  /\ fetch[b].pc = "asked"
  /\ Listening /\ down \in {"no", "closing"}
  /\ \E i \in {cached[page[b]], provider} \cap Lists(page[b]) :
       /\ fetch' = [fetch EXCEPT ![b] = [@ EXCEPT !.pc = "answered", !.answer = i]]
       /\ cached' \in {cached, [cached EXCEPT ![page[b]] = i]}
  /\ UNCHANGED <<provider, snapshot, serverVars, run, socketVars, page, shown, boundVars,
                 excused>>

\* An answer that is up to date makes good for what the entry has missed; an older
\* one overwrites whatever is there.
Land(b) ==
  /\ fetch[b].pc = "answered"
  /\ excused' = [excused EXCEPT ![b] = IF UpToDate(fetch[b].answer, page[b])
                                       THEN @ \ {page[b]} ELSE @ \cup {page[b]}]
  /\ shown' = [shown EXCEPT ![b][page[b]] = fetch[b].answer]
  /\ fetch' = [fetch EXCEPT ![b] = NoFetch]
  /\ UNCHANGED <<page, socketVars, boundVars>>
  /\ BrowserKeeps

\* A 404, or no answer after the retries: the entry stays as it is.
FetchFails(b) ==
  /\ fetch[b].pc # "none"
  /\ fetch' = [fetch EXCEPT ![b] = NoFetch]
  /\ UNCHANGED <<page, shown, socketVars, boundVars, excused>>
  /\ BrowserKeeps

\* refetchOnWindowFocus, when the entry is stale; there is no refetchInterval.
Refocus(b) ==
  /\ page[b] # Nothing /\ fetch[b] = NoFetch
  /\ fetch' = [fetch EXCEPT ![b] = Asked]
  /\ UNCHANGED <<page, shown, socketVars, boundVars, excused>>
  /\ BrowserKeeps

Next ==
  \/ Advance
  \/ Start \/ Listen \/ AttachHandlers \/ StartFails \/ Crash
  \/ Shutdown \/ CloseHttp \/ CloseSocket \/ Drained \/ ForceClose \/ Exit
  \/ PollBegins \/ PollWrites \/ PollFails \/ Emit
  \/ \E b \in Browser, m \in Matches : OpenPage(b, m)
  \/ \E b \in Browser :
       \/ ClosePage(b) \/ Connect(b) \/ Join(b) \/ Drop(b) \/ Receive(b)
       \/ Answer(b) \/ Land(b) \/ FetchFails(b) \/ Refocus(b)

Spec == Init /\ [][Next]_vars

\* shutdown() goes on: what it awaits settles, except that a poll may hang and a
\* browser may stay, and its timer fires.
FairSpec ==
  Spec /\ WF_vars(CloseHttp) /\ WF_vars(CloseSocket) /\ WF_vars(Drained)
       /\ WF_vars(ForceClose) /\ WF_vars(Exit)

-----------------------------------------------------------------------------
(* Properties *)

\* The type invariant: what a page holds is a match that its list has, and a
\* socket is in no room but that of its page.
TypeOK ==
  /\ provider \in DOMAIN Feed /\ snapshot \in 0 .. Len(Feed)
  /\ boot \in {"off", "connect", "polling", "up"}
  /\ down \in {"no", "closing", "sockets", "drain", "disconnect", "forced"}
  /\ run \in [pc : {"idle", "write", "emit"}, before : 0 .. Len(Feed), after : 0 .. Len(Feed)]
  /\ \A m \in Matches : cached[m] \in {0} \cup Lists(m)
  /\ \A b \in Browser, m \in Matches : shown[b][m] \in {0} \cup Lists(m)
  /\ \A b \in Browser : room[b] \in {Nothing, page[b]} /\ (room[b] # Nothing => link[b])

\* No match goes back to what it was: a list between two that agree on it agrees too.
NoReturn ==
  \A m \in Matches : \A i, j, k \in Lists(m) :
    (i <= j /\ j <= k /\ ChangedFields(Match(i, m), Match(k, m)) = {})
      => ChangedFields(Match(j, m), Match(k, m)) = {}

\* When nothing is on the way, an open page shows its match as it was last
\* announced, after any number of reconnects, restarts and refetches, unless an
\* announcement went out while its socket was away or its join had not arrived, an
\* older answer landed on it, or nobody was there to announce, as for the first
\* snapshot of all.  A feed in which a match goes back (NoReturn) is a further
\* exception: a page that fetched what lay between two polls that agree is told
\* nothing.
PageUpToDate ==
  \A b \in Browser :
    (page[b] # Nothing /\ fetch[b] = NoFetch /\ wire[b] = <<>> /\ run.pc # "emit")
      => \/ page[b] \in excused[b]
         \/ shown[b][page[b]] = 0
         \/ UpToDate(shown[b][page[b]], page[b])

\* "A client viewing match 3 gets nothing when only match 7 changed"
\* (socket.js:77-78), also after it went from one to the other.
OnlyOwnMatch ==
  \A b \in Browser : \A i \in DOMAIN wire[b] : wire[b][i].id = page[b]

\* While shutdown waits for the connections, polls go on and their events find the
\* notification handlers attached: events are lost between the first poll and
\* initNotificationHandlers and while the last poll is drained, never else.
EventsFindHandlers ==
  [][run.pc = "emit" /\ run' = NoRun /\ boot' # "off"
       => handlers \/ boot = "polling" \/ down \in {"drain", "disconnect", "forced"}]_vars

\* "No in-flight poll writes a half-baked snapshot" (server.js:153-154): however
\* long the drain took, when it came to its end no poll is left that the exit could
\* cut in two.
DrainedBeforeDisconnect == down = "disconnect" => run = NoRun

\* Once no browser is connected a shutdown ends, unless the poll that was under way
\* when the worker was closed never does: no connection comes back meanwhile, and a
\* closing worker begins no other poll.  The timeout that was to keep "a wedged job
\* from blocking shutdown forever" (pollScores.js:418-419) does not spare it that wait.
ShutdownEnds ==
  (down # "no" /\ \A b \in Browser : ~link[b])
    ~> (boot = "off" \/ [](down \in {"drain", "forced"} /\ run # NoRun))
=============================================================================
