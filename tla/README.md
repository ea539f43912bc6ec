# PitchPulse in TLA+

PitchPulse polls a cricket provider, keeps the current matches in Redis, pushes
score changes to browsers over Socket.io and writes notifications for the
followers of a team. This directory models that system, model-checks the models
with TLC and proves, with TLAPS and for every value of the constants, each safety
property that a passing run checks; liveness is left to TLC.
Paths below are relative to the repository root.

## 1. The system

| Part | State it keeps | Operations | What makes it correct |
|---|---|---|---|
| Poll job, `src/jobs/pollScores.js` | `poll:lock` and `poll:snapshot` in Redis, a BullMQ queue | scheduler tick, `pollProcessor`, `runPollOnce` | one run at a time; every change announced once, in order; nothing wedges the poller |
| Diff and events, same file | none | `diffMatches`, `deriveMatchEvents` | the changes rebuild the new list; wickets, milestones and starts are counted once over consecutive polls |
| Notifier, `src/events/notifier.js` | listeners | `emit`, synchronous | — |
| Notification handlers, `src/events/notificationHandlers.js` | rows of `Notification` | one handler per semantic event | only followers are told, once each, and no steady follower is left out |
| Follows, `src/routes/follows.js` | rows of `FollowedTeam`, `FollowedPlayer` | follow, unfollow | answers and rows agree, also for two tabs at a time |
| Read cache, `src/cache/redisClient.js` | `match:*` keys with a TTL, a connection state | `cacheGet`, `cacheSet` | whoever is told of a match finds no older one; stale values do not stay |
| Match routes, `src/routes/matches.js` | none | hit, miss, fallback, re-warm | as the cache |
| Provider client, `src/lib/cricketApiClient.js`, `src/lib/retry.js` | `lastCallAt`, `quota` | `getLiveMatches`, `getMatchDetail` | attempts bounded, spacing, Retry-After, every call ends, errors typed |
| Normalisation, `src/lib/cricketSchemas.js` | none | `parseOrThrow`, `normalizeMatch` | an innings is credited to the team it names |
| Mock provider, `src/lib/mockCricketApi.js`, `mockMatches.js` | matches that go on with the clock, a failure counter | `getCurrentMatches`, `getMatchInfo` | what it holds is what the app sees |
| Socket bridge, `src/realtime/socket.js` | rooms | join, leave, broadcast | a page hears of its match and of no other |
| Lifecycle, `src/server.js` | what is started | `start`, `shutdown` | nothing is announced while nobody listens; a shutdown ends and cuts no poll in two |
| Notification routes, `src/routes/notifications.js` | `read` flags | list with a cursor, mark read | the pages list every row, once |
| Accounts, `src/routes/auth.js`, `src/plugins/authenticate.js` | users | signup, login | an account is created once; a dead token ends its session |
| Error handler, `src/plugins/errorHandler.js` | none | error to status | — |
| React data layer, `client/src/hooks`, `query`, `api`, `auth` | query cache, session | page fetch, socket updates, optimistic clicks, login, logout | the cache ends up with what the server has for the user who is logged in |
| Health and reference routes, deployment | none of interest | read-only, configuration | — |

How they interact. The scheduler puts a job in the queue every interval; a worker
of any process takes it and runs `runPollOnce`: SET NX of the lock, the provider
call (through the client), GET and SET of the snapshot, the writes of the cache,
one synchronous `emit`, the scripted release of the lock. The emit calls the
socket bridge, which sends to the rooms at once, and starts the notification
handlers, which go on by themselves against Postgres. Routes read the cache and,
on a miss, call the provider themselves and write the cache too. A match page
fetches its match and then lives on what the socket pushes; the bell polls; the
lists of a user are patched by a click before the server has heard of it and read
again afterwards.

What is hard about it:

- *interleaving*: every `await` lets another run, request or handler in;
- *time*: the lock has a TTL that a slow run outlives; the client's gate reads
  `lastCallAt` before its sleep and writes it after;
- *failure*: Redis and the provider fail between any two steps, a reply may be
  lost after the command was applied, a process may die between the snapshot
  and the emit, Redis may go away in the middle of a request;
- *history*: changes and events are right only when consecutive polls fit
  together, and the feed only when consecutive pages do;
- *two copies*: a page has a fetched copy and a pushed one, an optimistic entry a
  patched copy, a remembered one and one that is being read, and requests outlive
  the page and the session they were made in.

`PROJECT.json` lists each hazard at its line with the properties that would
catch it, and the one that no property covers.

## 2. The modules

| Module | Models | Used by |
|---|---|---|
| `MatchDiff` | `diffMatches`, `deriveMatchEvents` and their helpers, as operators on match lists | `PollJob`, `ChangeFeed`, `LiveView`, `Scores` |
| `Scores` | `normalizeMatch` and its helpers, as operators on external matches | `MockProvider` |
| `MockProvider` | fixtures, `evolve`, `toExternal`, failure injection, as operators | `ListHistory` |
| `ListHistory` | three consecutive polls of an HTTP provider or of the mock | `MCListHistory` |
| `PollJob` | the poll job in any number of processes on one Redis and one queue | `MCPollJob`, `PollJobProofs` |
| `ChangeFeed` | what the poll job promises: an abstract log of announcements | instantiated by `PollJob` |
| `PollJobProofs` | theorems about `PollJob` | — |
| `MatchDiffProofs` | lemmas about the operators of `MatchDiff` | `PollJobProofs`, `ListHistoryProofs` |
| `ListHistoryProofs` | theorems about `ListHistory` with its `Scores` and `MockProvider` | — |
| `CricketClientProofs` | theorems about `CricketClient` | — |
| `BrowserProofs` | theorems about `Browser` | — |
| `LiveViewProofs` | theorems about `LiveView` | — |
| `ReadCacheProofs` | theorems about `ReadCache` | — |
| `NotificationsProofs` | theorems about `Notifications` with its `Accounts`, `Follows` and `NotificationPages` | — |
| `LiveView` | one process from `start` to `shutdown` with its poll, its sockets and its match pages | `MCLiveView` |
| `CricketClient` | the provider client and `withRetry`, several callers | `MCCricketClient` |
| `ReadCache` | the `match:*` keys, the poll that warms them, the routes | `MCReadCache` |
| `Accounts` | signup, query by query | `Follows` |
| `Follows` | follow and unfollow, query by query | `Notifications` |
| `NotificationPages` | the pages of the feed and the walk through them, as operators | `Notifications` |
| `Notifications` | the notification handlers while users sign up and follow | `MCNotifications` |
| `Browser` | one tab: session, two cache entries, optimistic clicks | `MCBrowser` |

**MatchDiff.** A match is a record; `score` is `Null` or a function from team
names to runs and wickets, which is what the code's `"runs/wkts"` strings carry.
The arrays of changes and events are sets, because no consumer looks at their
order inside one announcement.

**Scores, MockProvider, ListHistory.** An external match has the fields that
`normalizeMatch` reads. A team's name is a sequence of words, because an innings
finds its team by a prefix of its label; a status text is the set of the keyword
classes it contains; a score is made of numbers, `"runs/wkts"` as in `MatchDiff`.
`ListHistory` starts with either provider, as `pickProvider` chooses one, and
stays with it. The HTTP provider answers anything from a set of bodies; the mock
goes on by any number of ticks with any roll of its dice, which stand for
`pseudoRandom`, and a route may call it between two polls. `IsFixture` is what
`buildMatch` makes of a match and `evolve` keeps; `IsRaw` and `IsAnswer` are what is
left of a body once `parseOrThrow` has let it pass.

**PollJob.** A copy of a match list, wherever it lies (provider, local variable,
snapshot, announcement), is the index of the list it is a copy of. Each `await` of
`runPollOnce` is an action on `run[p].pc`: `lock`, `fetch`, `get`, `seed` or
`write`, `warmQuiet` or `warm`, `emit`, `release`, `settle`. The seed of the first
run and the quiet run warm the cache and end without an emit; a changed list is
written, warmed and announced, in that order. What the warming writes is not kept
here: the routes write the same keys, and `ReadCache` has them one by one.
`outcome` is what leaves the function: `Settle` gives the job back to BullMQ,
which retries a transient error up to `Attempts` and ends the job on a success or
a parse error (`UnrecoverableError`). A run's token is the name of its process
while the run lasts and `Orphan` when it is over, so a later run never owns an old
token. `Overrun` is the TTL running out under a run that goes on; `ExpireOrphan`
frees the key of one that does not exist any more. `Crash`, `Restart` and `Stall`
(BullMQ's stalled-job check) are about processes. A rejected command is applied or
not: the lost reply (`LostReply`) has a bound of its own because it is what makes
announcements disappear.

**ChangeFeed.** The subscribers' view: a list they know, a log, `Announce` only
forward and only on a difference, `Lose` for a crash or a lost reply.
`PollJob!Promise` maps the job to it: what the subscribers know is the snapshot,
except between a run's SET and its emit, when it is still what the run compared
with. `FeedSafe` is its initial states and its steps, `FeedSpec` adds the fairness.

**LiveView.** One process, whose run of the job is `PollBegins`, `PollWrites`,
`Emit`: several processes and the lock are the subject of `PollJob`. `boot` and
`down` are where `start()` and `shutdown()` are; `worker`, `bridge` and `handlers`
say what is attached. The browser side is `useMatch` and `useMatchSocket`: `shown`
is the cache entry, `fetch` the request of its query, `link`, `joining`, `room`,
`wire` are the socket, its `join-match`, its room and the updates on the way.
`excused` is a history variable: the entries of which an announcement is missing
that nobody could send them; an update or an answer that is up to date makes good
for it. `fastify.close()` is external: it stops accepting connections and waits
for those there are, WebSockets included. So is React Query: a query whose last
observer goes away has its request aborted, and what the socket has stored in the
entry meanwhile stays. So is BullMQ: `worker.close(true)` returns the promise of
the close that is under way, so the forced end waits for the active job too
(`Drained` from either). Leaving a page takes its socket with the room and what is
on the way: every page opens a connection of its own.

**CricketClient.** Time is relative and in ticks: `age` since `lastCallAt`, the
`sleep` a call still has, `notBefore` for Retry-After, `quota.resetIn`. An
answer is a status, a kind of body, a Retry-After and the two quota headers; the
operators up to `Finished` classify it as `httpGet`, `assertOk`, `assertBodyOk`,
`callProvider` and the `finish` of its two callers do.

**ReadCache.** Key by key. `poll` is a run of the job reduced to its fetch (lock,
provider, diff and snapshot in one step, `PollJob` has them apart), its 1+N writes
and its emit; `PollDies` ends it between any two of them. `req` is a route handler
between its awaits; it writes the same keys, whatever `pollScores.js:261` says of
"the ONLY writer". `Advance` changes what the provider serves at any moment, also
between a route's fallback and its re-warm. `told` is a history: the list by which
the subscribers last heard of a key. So is `behind`: the keys the poll's last write
did not reach, or that a route has written after it with an older answer. A write
that is applied although its reply is lost is a write followed by `LoseRedis`,
because `cacheSet` goes on either way.

**Accounts, Follows, Notifications.** Each Prisma query is a step. A signup is its
lookup, and then, after the hash, its create; only an account can follow. A create
that fails may have left its row (`SignupFails`); `unheard` counts the accounts of
which the server got no reply. `Doomed` is the row an unfollow read, by id;
`Deleted` is false when it is gone, which Prisma reports as P2025 and the error
handler as a 500. A handler is a task with the positions of the teams still to be
asked about and the users chosen so far. `balance`, `steady` and `ever` are
histories for the properties and influence nothing. The three handlers differ in
how many names their event carries (`TeamsOf`). A row has its `createdAt`, equal
in the rows of one `createMany` and possibly in those of two.

**NotificationPages.** `PagesBefore` are the pages the database may answer with,
several where `createdAt` leaves the order open; `Walks` are the sequences of
pages `useInfiniteQuery` collects by following `nextCursor` until it is null.

**Browser.** Two cache entries, the list of follows and the unread notifications,
as sets of items; a notification is known by its number in the order of
`createdAt`, and the bell reads the newest `BellLimit` of those that are unread.
Follow buttons are there before the list of follows is (`MatchDetailPage`): such a
click starts an entry, and its rollback leaves it (`useFollows.js:48`, `:60`). The
notifications page lists what the bell may lack (`OnFeed`): such a click patches
nothing in the bell's entry but cancels its read. `read` is the request of a
query, `clicks` the mutations with what `onMutate` remembered. React Query is
modelled by what its calls do here: `cancelQueries` and unmounting drop the
request of a read, `setQueryData` and a landing answer clear the stale mark,
`invalidateQueries` sets it and reads again what is on the screen, unless that is
an entry's very first read, which goes on; `clear()` drops the entries and their
requests, and nothing stops a mutation. A login is a number and so is its token.
`subject` fixes the entry a behaviour clicks on, because the two entries share
nothing but the session.

## 3. What is checked

| Run | Question | Properties |
|---|---|---|
| `poll_safety` | can two runs be in the critical section, announce a change or report an event twice? | `TypeOK` `LockKept` `NeverEmittedTwice` `EventsNeverRepeat` |
| `poll_promise` | does the job implement `ChangeFeed`, and does anything wedge it? | `KeepsPromise` `CatchesUp` |
| `poll_double_emit` | does the lock alone keep a change from being announced twice? (no) | `NoEventTwice` |
| `poll_missed_emit` | does a missed emit heal? (no) | `MissedEmitHeals` |
| `list_history` | do normalisation, changes and events fit together over consecutive polls? | `ChangesRebuildList` `DeltasAddUp` `MilestonesOnce` `StartedMeansWentLive` `MockRoundTrip` `InningsKeepTheirTeam` |
| `client_calls` | do concurrent calls keep their limits and end? | `TypeOK` `RetryAfterHonoured` `CallEnds` |
| `client_spacing` | are calls of two callers spaced? (no) | `FirstAttemptsSpaced` |
| `client_abort` | is a timeout always transient? (no) | `AbortIsTransient` |
| `cache` | does whoever is told of a match find an older one, does a stale value stay? | `TypeOK` `NewsIsReadable` `StaleDataGoes` |
| `notifications` | who is told, when accounts and follows change meanwhile, and what does the feed list? | `TypeOK` `OneAccountPerEmail` `StrangersNotTold` `OncePerUser` `SteadyFollowersTold` `AnswersAddUp` `FeedMissesOnlyTies` `LaterFollowKept` |
| `live_page` | what does an open page show, who gets updates, does a shutdown end well? | `TypeOK` `PageUpToDate` `OnlyOwnMatch` `DrainedBeforeDisconnect` `EventsFindHandlers` `ShutdownEnds` |
| `browser` | does the cache agree with the server after clicks, failures, logins and dead tokens? | `TypeOK` `QuietMeansInSync` `NoForeignList` `UnreadShown` `DeadTokenGoes` |

The runs that end in a violation show where the code does not do what a comment
of it says:

- `poll_double_emit`: `pollScores.js:8` says a run "can never double-emit". A run
  slower than `POLL_LOCK_TTL_MS` never looks at the lock again; a second run
  compares with the same snapshot, and one wicket is reported twice.
- `poll_missed_emit`: `pollScores.js:26-27` says "a missed emit self-heals on the
  next poll". The snapshot is written before the emit, so after a crash in
  between the next poll sees no difference.
- `client_spacing`: two callers that arrive within one interval read the same
  `lastCallAt`, sleep equally long and go out together.
- `client_abort`: a timeout while the body is read is caught inside `httpGet`;
  the body becomes `null` and the call a parse error, which nobody retries.

With `NeverEmittedTwice` and `EventsNeverRepeat` the opposite side is exact: one
overrun is what it takes, and no combination of failures, lost replies, retries,
stalls and crashes does it without.

Some passing properties are exact: their exceptions are what the code does, and
each was found by leaving it out of the property and reading the counterexample.

- `PageUpToDate`: an open page misses what is announced while its socket is away
  or its join is on the way, and nothing fetches then (`useMatchSocket.js:25-28`
  only joins again; there is no `refetchInterval`). It also goes back in time when
  an older answer lands after an update. Each lasts until the next update or answer. In a feed where a match goes back
  to what it was (`NoReturn` says that it does not, and `MCLiveView` checks that of
  its feed) there is one more: a page that fetched the list in between two polls
  that agree is told nothing of the way back.
- `EventsFindHandlers`: events are lost between the first poll and
  `initNotificationHandlers` (`server.js:121`), and while the last poll is drained
  (`server.js:152`), whose snapshot is written and not announced again.
- `ShutdownEnds`: `fastify.close()` comes before `closeSocket()`, so a browser that
  stays on a match page keeps the process until its container is killed; what
  does end is a shutdown nobody stays connected to. A poll that never ends is the
  other thing that keeps it: the timeout at `pollScores.js:418-419`, "a hard timeout
  stops a wedged job from blocking shutdown forever", leads to `worker.close(true)`,
  which waits for the same job.
- `NewsIsReadable`: a subscriber that refetches may find an older value in a key the
  poll could not write while Redis was away, and in one that a route wrote after the
  poll with what it had asked the provider for before. The next poll or the TTL
  makes good for it, which is `StaleDataGoes`.
- `OneAccountPerEmail`: an account may be there that nobody was welcomed to, when
  the reply of its create was lost (`auth.js:33`); the next signup is then told that
  the email is taken.
- `UnreadShown`: the bell reads 20 rows (`useNotifications.js:20`), so an older
  notification waits while as many newer ones are unread.
- `FeedMissesOnlyTies`: `nextCursor` is a `createdAt` with `lt`; a row with the same
  `createdAt` as the last row of a page is never listed.
- `QuietMeansInSync`: a click that settles during the first read of a list does not
  start that read again; the answer from before the click stays, unmarked, until the
  next refetch. That is a click that outlives its session, or one on the
  notifications page before the bell's list is there.
- `NoForeignList`: the rollback of a click that outlives its session brings the
  other user's list back, marked stale, so that it is seen until the refetch.
- `InningsKeepTheirTeam`: innings of "India A" are credited to an "India" that is
  listed before it.

### Bounds

- *PollJob*: two processes and two jobs, enough for one run to meet another at
  every await and for a job to be retried while another is active. Three lists
  (a wicket and a milestone, an end and a start), in `poll_safety` a fourth that
  differs only in what is not compared. `MaxFaults`, `MaxLost`, `MaxOverruns`,
  `MaxCrashes` count failures; one of each in `poll_safety`, and no overrun in
  `poll_promise`, whose question is what holds without. `Attempts` is 2 (the
  code's 3 in `poll_double_emit`): the first retry and the last are told apart
  by 2. The theorems hold for every value of all of them.
- *ListHistory*: answers with up to three matches, scores on both sides of a
  milestone and across two, a team that appears later, an entry without id, one
  id listed twice, four innings, labels and figures that are missing, names that
  begin alike, and every order of three of them. The mock has its own six
  fixtures, two ticks and a roll below and above the wicket's nine tenths; its
  failures are none, once and every third call.
- *LiveView*: one browser, because browsers share nothing but the server; two
  matches, one moving on while the other is unlisted; two visits (the same page
  again, or another), two starts, one broken connection.
- *CricketClient*: two callers, three attempts (`MaxRetries` of the code is 3),
  an interval of two ticks, a Retry-After longer than the largest backoff.
- *ReadCache*: one match, which is unlisted later and whose details are unknown and
  then known again, three lists, one request at a time beside the poll, any number
  of expiries, outages and runs that die. One match has two keys, the list and its
  detail, so that a run may die between two writes; a second match would add keys
  that meet the first ones nowhere.
- *Notifications*: two users who sign up first, or two signups of one email; two
  seeded teams and one that is not, two requests at a time, `MaxRows` 2 rows ever
  created, one failing query, which may be the create of a signup, one crash, pages of one row, so that every tie can
  fall on the end of a page.
  `RoomForRow` keeps a follow from starting when its row might not fit the bound.

- *Browser*: two users, two logins, two clicks: enough for a click of one session to
  settle in the next, the same user's or another's, and for two clicks on one entry
  to roll back over each other. One team: clicks on different teams meet only in
  the entry they share, and two clicks on one are the harder case. Two notifications
  and a bell with room for one (`BellLimit`, 20 in the code), so that one may hide
  the other. `MaxEvents` bounds notifications, clicks, failed requests and expired
  tokens together: three in a behaviour that clicks on follows, four in one about
  notifications.

Symmetry is used where no temporal property with liveness is checked.

### Fairness

- *PollJob*: an `await` settles, because every provider attempt has a timeout and
  ioredis gives up or reconnects; the scheduler's entry lives in Redis and keeps
  adding jobs; an idle worker takes a waiting job; BullMQ finds stalled jobs;
  Redis expires keys; `docker-compose.yml` restarts the container
  (`unless-stopped`). Nothing makes the provider move on or a failure happen.
- *CricketClient*: time passes and timers fire, and a request is answered or
  aborted.
- *ReadCache*: handlers go on, Redis comes back for long enough that a poll gets
  through (`SF` on the steps that need it), and the TTL of a key that nobody
  refreshes runs out. A poll that has stopped stays stopped.
- *LiveView*: only the steps of `shutdown()` are fair: its awaits settle and its
  timers fire. A poll may hang for ever, and a browser may stay: the drain is fair
  only in that it ends once the poll has.
- *Browser*: the server answers, answers are handled, and the timer of the bell
  fires (`refetchInterval`, in the background too). A click's request may take for
  ever.
- *ListHistory*, *Notifications*: no fairness; their properties are safety properties.

## 4. What is proved

Every theorem holds for every value of the constants that the assumptions at the
end of this section allow: any number of processes, users, requests, browsers,
callers, any feed, any bounds. The invariants that are not properties of a run
were checked by TLC on the run's instance before they were proved.

`PollJobProofs`:

1. `TypeCorrect`: `Spec => []TypeOK`.
2. `LockSafe`: `Spec => []LockKept`. `LockKept` is inductive given the types:
   the lock goes from `None` to the process that acquires it, from a process only
   by its own release, crash or overrun, and an overrun is recorded.
3. `NoDoubleEmit`: `Spec => []NeverEmittedTwice`. `NeverEmittedTwice` is not
   inductive: nothing in it says what a run that is about to emit holds. The
   invariant is `RunsInOrder`, `NoOverrun => InOrder`: no run has lost its lock, so by
   `LockKept` at most one is critical; what it fetched is no older than the
   snapshot; a run about to write compared with the snapshot there is; a run
   about to emit wrote the snapshot there is, and everything announced so far is
   no newer than what it compared with. The overrun count never falls, so a
   state without overruns has only predecessors without.
4. `PromiseSafe`: `Spec /\ []NoOverrun => Promise!FeedSafe`, the safety half of the
   refinement: initial states map to initial states, every action to `Serve`, `Seed`,
   `Announce`, `Lose` or a stutter. It takes `ToldIs` (what the subscribers know while
   a run announces is what that run compared with; there is one such run) and
   `NewsOnly` (what a run is about to announce is a newer list that differs). That
   `NoOverrun` holds is what `poll_promise` builds in with `MaxOverruns` 0.
5. `NeverRepeat`: `FeedGrows` gives `Spec => []EventsNeverRepeat`. Announcements are
   intervals of the feed that follow one another (`InOrder`, `Forward`); a wicket or a
   milestone in two of them would be a total that passes the same number twice
   (`FallsOnce`, `ReachesOnce`), a start a match that is live twice (`StartsOnce`).

`NotificationsProofs`:

6. `OneAccount`: `Spec => []OneAccountPerEmail`, inductive with the types of the
   counters (`AccountsInv`): the create of a signup and the unique index are one step,
   and its reply, come or lost, is counted with it.
7. `FollowsAddUp`: `Spec => []AnswersAddUp`. The balance alone is not inductive: an
   unfollow deletes by the id it has read, so the row with that id must still be
   that of its user and team. `FollowsInv` says that ids are given once and below
   `nextId`, that the index holds (`RowsInv`), that a pending delete's id, if there is
   still a row with it, belongs to its pair (`RequestsInv`), and what the balance is.
8. `LaterFollow`: `Spec => LaterFollowKept`, an action property: a row goes only by a
   request that has read its id.
9. `FollowersOnly`, `ToldOnce`, `SteadyTold`: `StrangersNotTold`, `OncePerUser`,
    `SteadyFollowersTold` from one invariant per event (`EventInv`). `TaskInv`: a
    handler asks for its teams in their order and chooses a user once. `ChosenInv`:
    whoever is chosen followed a team that was asked for at some time, and whoever has
    followed one all along is chosen, for that team or an earlier one. `NotesInv`: the
    rows in the table are those choices. `ever` only grows and `steady` only shrinks,
    which is what carries the invariant over the follows that change meanwhile.
10. `NotesTyped`: `Spec => []TypeOK`. Its bounds need counting: `RoomInv`, a request
    that is to create a row has room for it (`nextId` and the number of such requests
    together), and `ClockInv`, `createdAt` ticks at most once for a task, at its end.
11. `FeedListsAll`: `Spec => []FeedMissesOnlyTies`. A reader's pages come with falling
    cursors (`CursorsFall`), so no row is on two (`PagesApart`); a row on no page is
    older than every cursor unless a listed row ties with it (`OnlyTiesMissed`), and
    the last page is not full, for there are not more full pages than rows
    (`WalkEnds`). That the tie is of another event is `OncePerUser`.

`LiveViewProofs`:

12. `DrainedFirst` and `EventsHeard`: `DrainedBeforeDisconnect` and
    `EventsFindHandlers` from `ProcessInv`, which follows `start()` and `shutdown()`:
    jobs are taken only by a process that serves and has not begun to drain, the
    handlers of one that is up are attached until the drain, and past the end of the
    drain, forced or not, nothing runs.
13. `OwnMatchOnly`: `Spec => []OnlyOwnMatch`. The invariant `OwnInv` adds that a
    socket is in the room of its page or in none, and that a browser without a page
    has nothing on the way; that `Emit` keeps it takes `ListsInv` (a run compares two
    lists of the feed), because a change is then of a match, and no match is `Nothing`.
14. `PagesTyped`: `Spec => []TypeOK`. `ServerInv`: a run compares with the snapshot
    there is, and has fetched nothing older; `SocketInv`: a connected socket is in the
    room of its page unless its join is on the way; `CopiesInv`: what is stored,
    fetched, cached or sent of a match is of a list that has it.
15. `PageStaysCurrent`: `NoReturn` gives `Spec => []PageUpToDate`. `FreshInv`: the
    updates on the way are in the order of the lists and the last one is right, and an
    entry is right, excused, or of a page with an update on the way. Right is up to
    date with the snapshot or, while a run is about to emit, with what was announced
    before it: between a run's write and its emit a page may be either.

`ReadCacheProofs`:

16. `CacheTypes` and `NewsCached`: `TypeOK`, by which a 200 carries a value, and
    `NewsIsReadable`, from `CacheInv` and `NewsInv`. The first needs `AnswersInv`: what
    the answer after a re-warm carries is there since the fallback. The second is not
    inductive: `RunInv` says that a run that is going to announce has the list of the
    snapshot and that the keys it has done are as new, `ToldInv` that nobody has been
    told of more than the snapshot.

`ListHistoryProofs`, on the lemmas of `MatchDiffProofs` about what `DiffMatches`
and `DeriveMatchEvents` return:

17. `ChangesRebuild`: `Spec => []ChangesRebuildList`; it holds of any two lists.
18. `StartedEvents`, `DeltasSum`, `MilestonesReportedOnce`: `StartedMeansWentLive`,
    `DeltasAddUp`, `MilestonesOnce`, from `ListsWellFormed` (`Spec => []ListsInv`): the
    figures of a list are numbers, whichever provider it came from.
19. `TeamsKeepInnings`: `Spec => []InningsKeepTheirTeam`. A label without its last word
    that is a team's name is a prefix of the label, and `TeamOfInnings` takes the
    first team of which that is true (`OwnerOfLabel`).
20. `MockSurvives`: `Spec => []MockRoundTrip`. `ListsInv` keeps `IsFixture` of the mock's
    matches over any number of ticks; for a match of that shape `ToExternal` and then
    `NormalizeMatch` is the identity (`RoundTripFields`, `RoundTripScore`).

`CricketClientProofs`:

21. `ClientTypes`: `Spec => []TypeOK`, the bound on attempts among it. `Paced`: a call
    that may still send has an attempt left.
22. `RetryAfter`: `Spec => RetryAfterHonoured`, an action property, from the other half
    of `Paced`: a call sleeps at least as long as the provider asked for.
23. `AloneSpaced`: with one caller, `Spec => FirstAttemptsSpaced` (`AtGate`). The race of
    `client_spacing` takes two callers, and nothing else than two callers.

`BrowserProofs`:

24. `TabTypes`: `Spec => []TypeOK` from `TypeInv`: a read belongs to the session and to
    a query on the screen, and a click that is not settled has a session of its own.
    `NotesInv`, which `NotesAlways` proves, keeps the table of notifications in bounds.
25. `QuietInSync` and `ForeignListMarked`: `QuietMeansInSync` and `NoForeignList` from
    `FitInv`. `LeftStale`: what is kept after a session is marked. `AnswerFits`: with no
    click of its kind under way, an answer is still right when it lands. `EntryFits`:
    an entry that is not marked is the session's own and, if it is sure, right.

The assumptions are those the modules name: `FeedAssumption` and
`LiveViewAssumption` (a non-empty feed, no match called `Nothing`), `LockAssumption`
(the two lock values are no processes, `None` no job), `BoundAssumption` (naturals,
at least one attempt), `AccountsAssumption`, `FollowsAssumption` (the seeded teams are
teams, `Nobody` no user), `EventAssumption` (an event names one team or two, as those
of the code do; a page has a row), `CacheAssumption` (the lists are of ids, and "list"
is none), `ClientAssumption` and `AnswerAssumption` (limits and headers are numbers),
`BodiesAssumption` (a body has the shape `parseOrThrow` lets pass), `GainsAssumption`
and `FixtureAssumption` (the dice give numbers, the fixtures are as `buildMatch` makes
them), `BrowserAssumption` (`NoData` is no list; bounds are naturals, the bell asks for
at least one row). TLC evaluates each of them on the
runs. Some theorems have a hypothesis of their own:

- `NotesTyped` and `FeedListsAll`: `Event` is finite, and for the first `Request` too.
  Both properties count.
- `StartedEvents` and `MockSurvives`: `NullIsNoFunction`, the model's value for
  JavaScript's `null` is not a function, hence no match and no score.
- `NeverRepeat` (`FeedGrows`) and `PageStaysCurrent` (`NoReturn`): about cricket, not
  about the program. Scores do not fall, a match starts once. `MCPollJob` and
  `MCLiveView` assume the same of their feeds, so that TLC evaluates them there.
  `AloneSpaced` is about one caller, as it says.

Only model-checked: liveness (`CatchesUp`, `CallEnds`, `StaleDataGoes`,
`ShutdownEnds`, `UnreadShown`, `DeadTokenGoes`) and the fairness half
of `KeepsPromise`, that what `ChangeFeed` promises to announce it announces or loses:
liveness under fairness is out of the prover's reach. The properties of the four
violated runs are, of course, not theorems; what holds instead is 3, 5 and 23. The
library's induction theorems take an operator as a parameter, which no installed
prover instantiates; where a proof needs induction (`CursorsFall`, `OnlyTiesMissed`,
a first or last element) it uses `SetInduction` or `WFMin`, which are about sets.

## 5. What is not modelled

- Health and reference routes, rendering, the logger and the deployment keep no
  state a property is about.
- *Routes*: malformed ids and bodies (400), wrong passwords (401), the wording of
  answers; players, whose follows are the same code as teams'.
- *Wording*: notifications, `polledAt`, log lines.
- *Poll job*: a Redis that loses `poll:snapshot`; errors of closing the queue and
  its connections.
- *Cache*: a corrupt value under a key, for nothing writes one.
- *LiveView*: the live list, which polls by itself, and the patch the socket makes
  in its cache entry; the connection status on the page; requests from other
  pages. `Crash` is a crash of the running server; start and shutdown have their
  own failures. Notification handlers that are still writing when
  `prisma.$disconnect` comes are not waited for; their loss is `HandlerFails` of
  `Notifications`.
- *Browser*: several tabs, which share the token in `localStorage` but neither
  session state nor cache, and a reload, which is a new tab with a token; the
  cache entry of the feed, which `patchRead` changes like the bell's. The 409 and
  404 of a click (`Accepts`) are failures like any other for the client. What the
  notifications page lists is not kept either: `OnFeed` allows a click on any row of
  the user and on what a rollback has brought back, more than one page may show.

## 6. Plan

What is left, in order of importance:

1. The live list of `MatchesPage`: its polling against the patches of the socket.
2. Several tabs of one browser: a token that another tab replaces.
