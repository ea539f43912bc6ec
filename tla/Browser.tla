------------------------------ MODULE Browser -------------------------------
(***************************************************************************)
(* One tab of the React client: its session (client/src/auth/AuthProvider, *)
(* api/client.js), the two entries of the query cache that belong to a     *)
(* user -- the list of follows and the unread notifications -- and the     *)
(* optimistic mutations on them (hooks/useFollows.js,                      *)
(* hooks/useNotifications.js), against the routes that keep the rows.      *)
(*                                                                         *)
(* An entry is the set of its items: the teams that are followed, the      *)
(* notifications that are not read.  A login is known by its number, and   *)
(* so is its token.  React Query is modelled by what its calls do here:    *)
(* cancelQueries and unmounting drop the request of a read, invalidating   *)
(* marks the entry stale and reads it again if it is on the screen, and    *)
(* neither stops a mutation.                                               *)
(***************************************************************************)
EXTENDS Naturals, Sequences, FiniteSets

CONSTANTS
  User,       \* the accounts
  Team,
  NoData,
  BellLimit,  \* notifications the bell asks for (20 in the code)
  MaxNotes,   \* bound: notifications
  MaxLogins,  \* bound: logins
  MaxClicks,  \* bound: mutations
  MaxEvents   \* bound, for each subject: notifications, mutations, failed requests and
              \* expired tokens

VARIABLES
  subject,    \* bound: the entry that a behaviour clicks on
  rows,       \* the server's FollowedTeam and unread Notification rows
  notes,      \* whose the n-th Notification row is
  logins,     \* whose token the n-th login has got
  expired,    \* tokens that are no longer accepted
  token,      \* the session of the tab, 0 for none
  followsPage,  \* a page with follow buttons is on the screen
  entry,      \* the query cache
  read,       \* the request of a query
  clicks,     \* the mutations, in the order of the clicks
  faults

sessionVars == <<logins, token>>
serverVars == <<subject, rows, notes>>
cacheVars == <<entry, read>>

vars == <<serverVars, sessionVars, expired, followsPage, cacheVars, clicks, faults>>

Key == {"follows", "unread"}

\* A notification is known by its number, in the order of their createdAt.
Note == 1 .. MaxNotes

Items(k) == IF k = "follows" THEN Team ELSE Note

ASSUME BrowserAssumption ==
  /\ \A k \in Key : \A s \in SUBSET Items(k) : NoData # s
  /\ BellLimit \in Nat \ {0} /\ MaxNotes \in Nat
  /\ MaxLogins \in Nat /\ MaxClicks \in Nat /\ MaxEvents \in [Key -> Nat]

\* An entry: its items, the login its list was read with, whether it is marked
\* stale, and (history) whether it comes from a read that had been answered when an
\* invalidation could not start it again.
NoEntry == [items |-> NoData, of |-> 0, stale |-> FALSE, unsure |-> FALSE]

NoRead == [pc |-> "none", token |-> 0, items |-> NoData, unsure |-> FALSE]

Asked(t) == [NoRead EXCEPT !.pc = "asked", !.token = t]

Mounted(k) == token # 0 /\ (k = "unread" \/ followsPage)

\* The items on the screen.
Shown(k) == IF entry[k].items = NoData THEN {} ELSE entry[k].items

\* Nothing of a mutation is left once it has settled.
Settled == [key |-> "none", pc |-> "settled", held |-> FALSE]

Under(k) == {c \in DOMAIN clicks : clicks[c].key = k}

Init ==
  /\ subject \in Key
  /\ rows = [u \in User |-> [k \in Key |-> {}]]
  /\ notes = <<>>
  /\ logins = <<>> /\ token = 0 /\ expired = {}
  /\ followsPage = FALSE
  /\ entry = [k \in Key |-> NoEntry]
  /\ read = [k \in Key |-> NoRead]
  /\ clicks = <<>>
  /\ faults = 0

\* Two entries meet in nothing but the session: the rows of the one change while
\* the other is read.

\* The bound on what happens from outside.
InBounds == Len(notes) + Len(clicks) + Cardinality(expired) + faults < MaxEvents[subject]

\* The server writes a notification for a user.
Notify(u) ==
  /\ subject = "unread" /\ Len(notes) < MaxNotes /\ InBounds
  /\ notes' = Append(notes, u)
  /\ rows' = [rows EXCEPT ![u]["unread"] = @ \cup {Len(notes')}]
  /\ UNCHANGED subject
  /\ UNCHANGED <<sessionVars, expired, followsPage, cacheVars, clicks, faults>>

\* Seven days, or a new JWT_SECRET.
Expire(t) ==
  /\ t \in DOMAIN logins /\ t \notin expired /\ InBounds
  /\ expired' = expired \cup {t}
  /\ UNCHANGED <<serverVars, sessionVars, followsPage, cacheVars, clicks, faults>>

-----------------------------------------------------------------------------
(* The session *)

\* POST /auth/login.
IssueToken(u) == logins' = Append(logins, u)

\* LoginPage gets a token, and Layout with the bell is on the screen.
Login(u) ==
  /\ token = 0 /\ Len(logins) < MaxLogins
  /\ IssueToken(u)
  /\ token' = Len(logins')
  /\ read' = [read EXCEPT !["unread"] = Asked(token')]
  /\ UNCHANGED <<serverVars, expired, followsPage, entry, clicks, faults>>

\* Mutant: queryClient.clear() is forgotten.
Cleared_not == entry

Cleared == [k \in Key |-> NoEntry]

\* logout: the token is removed, the cache cleared, and with it the requests of
\* its queries; ProtectedRoute leaves the page.  A mutation goes on.
LoggedOut ==
  /\ token' = 0
  /\ followsPage' = FALSE
  /\ read' = [k \in Key |-> NoRead]

\* The button of a page that is left is forgotten with it.
Released == [c \in DOMAIN clicks |-> [clicks[c] EXCEPT !.held = FALSE]]

Logout ==
  /\ token # 0
  /\ LoggedOut
  /\ entry' = Cleared
  /\ clicks' = Released
  /\ UNCHANGED <<serverVars, logins, expired, faults>>

-----------------------------------------------------------------------------
(* Reads *)

\* Without an entry, or with a stale one, the page reads; with another one it
\* depends on its age.
OpenFollows ==
  /\ subject = "follows" /\ token # 0 /\ ~followsPage
  /\ followsPage' = TRUE
  /\ \/ read' = [read EXCEPT !["follows"] = Asked(token)]
     \/ entry["follows"].items # NoData /\ ~entry["follows"].stale /\ UNCHANGED read
  /\ UNCHANGED <<serverVars, sessionVars, expired, entry, clicks, faults>>

\* Mutant: the queryFn ignores its signal.
Unobserved_runsOn(r) == r

\* The request of a query that nobody observes is aborted.
Unobserved(r) == NoRead

CloseFollows ==
  /\ followsPage
  /\ followsPage' = FALSE
  /\ read' = [read EXCEPT !["follows"] = Unobserved(@)]
  /\ clicks' = Released
  /\ UNCHANGED <<serverVars, sessionVars, expired, entry, faults>>

\* The tab gets the focus, or refetchInterval is over.
Refetch(k) ==
  /\ Mounted(k) /\ read[k] = NoRead
  /\ read' = [read EXCEPT ![k] = Asked(token)]
  /\ UNCHANGED <<serverVars, sessionVars, expired, followsPage, entry, clicks, faults>>

\* Mutant: no query has a refetchInterval.
HasInterval_none(k) == FALSE

HasInterval(k) == k = "unread"

Poll == \E k \in Key : HasInterval(k) /\ Refetch(k)

\* authenticate: a token that verifies.
Authenticated(t) == t \notin expired

\* Mutant: the oldest first.
Newest_oldest(items) ==
  {n \in items : Cardinality({m \in items : m < n}) < BellLimit}

\* orderBy createdAt desc, take limit.
Newest(items) == {n \in items : Cardinality({m \in items : m > n}) < BellLimit}

Listed(u, k) == IF k = "unread" THEN Newest(rows[u][k]) ELSE rows[u][k]

\* The GET route.
AnswerRead(k) ==
  /\ read[k].pc = "asked"
  /\ read' = IF Authenticated(read[k].token)
             THEN [read EXCEPT ![k].pc = "answered",
                               ![k].items = Listed(logins[read[k].token], k)]
             ELSE [read EXCEPT ![k].pc = "refused"]
  /\ UNCHANGED <<serverVars, sessionVars, expired, followsPage, entry, clicks, faults>>

Land(k) ==
  /\ read[k].pc = "answered"
  /\ entry' = [entry EXCEPT ![k] = [items |-> read[k].items, of |-> read[k].token,
                                    stale |-> FALSE, unsure |-> read[k].unsure]]
  /\ read' = [read EXCEPT ![k] = NoRead]
  /\ UNCHANGED <<serverVars, sessionVars, expired, followsPage, clicks, faults>>

\* Mutant: a 401 is an error like any other.
EndsSession_not(pc) == FALSE

EndsSession(pc) == pc = "refused"

\* A 401 logs out, and is not retried.
ReadRefused(k) ==
  /\ read[k].pc = "refused"
  /\ IF EndsSession(read[k].pc)
     THEN /\ LoggedOut /\ entry' = Cleared /\ clicks' = Released
          /\ UNCHANGED <<serverVars, logins, expired, faults>>
     ELSE /\ read' = [read EXCEPT ![k] = NoRead]
          /\ UNCHANGED <<serverVars, sessionVars, expired, followsPage, entry,
                         clicks, faults>>

\* No answer, or a 5xx: up to four attempts, then the query is in error.
ReadFails(k) ==
  /\ read[k].pc # "none" /\ k = subject /\ InBounds
  /\ faults' = faults + 1
  /\ read' \in {[read EXCEPT ![k] = r] : r \in {NoRead, Asked(token)}}
  /\ UNCHANGED <<serverVars, sessionVars, expired, followsPage, entry, clicks>>

-----------------------------------------------------------------------------
(* Mutations *)

\* The entry with its items flipped; a notification that is read is unread no more.
\* A click on a list that is not there starts one of follows, as useFollows.js does,
\* and does nothing to one of notifications (patchRead).
Patched(e, call, items) ==
  IF e.items # NoData
  THEN [e EXCEPT !.items = IF call = "follow" THEN @ \cup items ELSE @ \ items, !.stale = FALSE]
  ELSE IF call = "follow"
  THEN [items |-> items, of |-> token, stale |-> FALSE, unsure |-> FALSE]
  ELSE e

\* onMutate and the request: the reads are cancelled, the entry remembered and
\* patched, and the patch counts as fresh.
Mutate(k, call, items) ==
  /\ token # 0 /\ Len(clicks) < MaxClicks /\ InBounds
  /\ clicks' = Append(clicks, [key |-> k, call |-> call, items |-> items, token |-> token,
                               before |-> [entry[k] EXCEPT !.stale = FALSE], pc |-> "sent", held |-> TRUE])
  /\ entry' = [entry EXCEPT ![k] = Patched(@, call, items)]
  /\ read' = [read EXCEPT ![k] = NoRead]
  /\ UNCHANGED <<serverVars, sessionVars, expired, followsPage, faults>>

\* FollowButton, which is disabled while its own mutation is pending.  MatchDetailPage
\* shows it before the follows are there, as of a team that is not followed.
Toggle(t) ==
  /\ followsPage
  /\ ~\E c \in Under("follows") : clicks[c].held /\ t \in clicks[c].items
  /\ Mutate("follows", IF t \in Shown("follows") THEN "unfollow" ELSE "follow", {t})

\* What NotificationsPage may list, whether the bell has it or not: the user's own
\* rows, and what a rollback has brought back.
OnFeed(n) == notes[n] = logins[token] \/ n \in Shown("unread")

MarkRead(n) == token # 0 /\ OnFeed(n) /\ Mutate("unread", "read", {n})

MarkAllRead ==
  /\ token # 0 /\ \E n \in DOMAIN notes : OnFeed(n)
  /\ Mutate("unread", "readAll", Note)

\* A follow that is there is a 409, one that is not a 404, and so is a notification of
\* someone else; reading twice is fine.
Accepts(c) ==
  LET user == logins[c.token]
  IN  CASE c.call = "follow"   -> c.items \cap rows[user]["follows"] = {}
        [] c.call = "unfollow" -> c.items \subseteq rows[user]["follows"]
        [] c.call = "read"     -> \A n \in c.items : notes[n] = user
        [] c.call = "readAll"  -> TRUE

\* authenticate and the routes that write.
HandleClick(i) ==
  LET c == clicks[i]
      goes(pc) == clicks' = [clicks EXCEPT ![i].pc = pc]
  IN  /\ c.pc = "sent"
      /\ \/ ~Authenticated(c.token) /\ goes("refused") /\ UNCHANGED rows
         \/ Authenticated(c.token) /\ ~Accepts(c) /\ goes("failed") /\ UNCHANGED rows
         \/ /\ Authenticated(c.token) /\ Accepts(c) /\ goes("done")
            /\ rows' = [rows EXCEPT ![logins[c.token]][c.key] =
                          IF c.call = "follow" THEN @ \cup c.items ELSE @ \ c.items]
      /\ UNCHANGED <<subject, notes, sessionVars, expired, followsPage, cacheVars, faults>>

\* The request gets lost on its way, or its answer does; mutations are not retried.
ClickFails(i) ==
  /\ clicks[i].pc \in {"sent", "done"} /\ InBounds
  /\ faults' = faults + 1
  /\ clicks' = [clicks EXCEPT ![i].pc = "failed"]
  /\ UNCHANGED <<serverVars, sessionVars, expired, followsPage, cacheVars>>

\* Mutant: onSettled is missing.
Invalidated_not(e) == e

Invalidated(e) == [e EXCEPT !.stale = TRUE]

\* The query on the screen is read again; a read that is its first goes on.
Reread(k, e) ==
  IF e.items # NoData \/ read[k] = NoRead THEN Asked(token)
  ELSE [read[k] EXCEPT !.unsure = (read[k].pc = "answered")]

\* The answer: a 401 logs out first; onError restores the entry if there was one;
\* onSettled invalidates it.
Settle(i) ==
  LET c == clicks[i]
      out == EndsSession(c.pc)
      there == IF out THEN NoEntry ELSE entry[c.key]
      kept == IF c.pc = "done" \/ c.before.items = NoData THEN there ELSE c.before
      left == Invalidated(kept)
  IN  /\ c.pc \in {"done", "failed", "refused"}
      /\ entry' = [IF out THEN Cleared ELSE entry EXCEPT ![c.key] = left]
      /\ IF out
         THEN /\ LoggedOut
              /\ clicks' = [Released EXCEPT ![i] = Settled]
         ELSE /\ read' = IF Mounted(c.key) /\ left.stale
                         THEN [read EXCEPT ![c.key] = Reread(c.key, left)] ELSE read
              /\ clicks' = [clicks EXCEPT ![i] = Settled]
              /\ UNCHANGED <<token, followsPage>>
      /\ UNCHANGED <<serverVars, logins, expired, faults>>

Next ==
  \/ \E u \in User : Login(u) \/ Notify(u)
  \/ \E t \in 1 .. MaxLogins : Expire(t)
  \/ Logout \/ OpenFollows \/ CloseFollows
  \/ \E k \in Key : Refetch(k) \/ AnswerRead(k) \/ Land(k) \/ ReadRefused(k) \/ ReadFails(k)
  \/ \E t \in Team : Toggle(t)
  \/ \E n \in DOMAIN notes : MarkRead(n)
  \/ MarkAllRead
  \/ \E i \in DOMAIN clicks : HandleClick(i) \/ ClickFails(i) \/ Settle(i)

Spec == Init /\ [][Next]_vars

\* The server answers, the answers are handled, and the timer of the bell fires.
FairSpec ==
  /\ Spec
  /\ WF_vars(Poll)
  /\ \A k \in Key : WF_vars(AnswerRead(k)) /\ WF_vars(Land(k)) /\ WF_vars(ReadRefused(k))

-----------------------------------------------------------------------------
(* Properties *)

\* The type invariant: a request of a query belongs to the session and to a query
\* on the screen.
TypeOK ==
  /\ token \in 0 .. Len(logins) /\ expired \subseteq DOMAIN logins
  /\ \A u \in User, k \in Key : rows[u][k] \subseteq Items(k)
  /\ \A k \in Key :
       /\ entry[k].items \in {NoData} \cup SUBSET Items(k)
       /\ read[k] # NoRead => Mounted(k) /\ read[k].token = token
  /\ \A i \in DOMAIN clicks :
       clicks[i].pc \in {"sent", "done", "failed", "refused", "settled"}

\* When no mutation and no read of an entry is under way and it is not marked
\* stale, it shows what the server has for the user, in whatever order clicks,
\* answers, failures, rollbacks and refetches came (a notification that was
\* written since the last poll, or that the bell has no room for, is missing).  The
\* exception is an answer from before a click, to the first read of a list, that was
\* on its way when the click settled: a click of an earlier session, or one on the
\* notifications page before the bell's list is there.
QuietMeansInSync ==
  \A k \in Key :
    (token # 0 /\ entry[k].items # NoData /\ ~entry[k].stale /\ ~entry[k].unsure
       /\ Under(k) = {} /\ read[k] = NoRead)
      => LET mine == rows[logins[token]][k]
         IN  entry[k].items \subseteq mine /\ (k = "follows" => entry[k].items = mine)

\* A list that was read for another user is not kept as fresh: the rollback of a
\* click that outlives the logout may bring it back, and then it is marked stale
\* or another click on it is under way that will mark it.
NoForeignList ==
  \A k \in Key :
    (token # 0 /\ entry[k].items # NoData /\ logins[entry[k].of] # logins[token])
      => entry[k].stale \/ Under(k) # {}

\* The bell gets to show an unread notification, without an event for it, unless it
\* is read, the session ends, or as many newer ones are unread as the bell asks for.
UnreadShown ==
  \A t \in 1 .. MaxLogins, n \in Note :
    LET unread == rows[logins[t]]["unread"]
        newer == {m \in unread : m > n}
    IN  (token = t /\ n \in unread)
          ~> (token # t \/ n \in Shown("unread") \/ n \notin unread
                \/ Cardinality(newer) >= BellLimit)

\* "One that expires mid-session is caught by the 401 handler on the next call"
\* (AuthProvider.jsx:57-58), and the bell makes that call.
DeadTokenGoes == \A t \in 1 .. MaxLogins : (token = t /\ t \in expired) ~> token # t
=============================================================================
