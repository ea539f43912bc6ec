---------------------------- MODULE Notifications ----------------------------
(***************************************************************************)
(* The notification handlers (src/events/notificationHandlers.js): every   *)
(* semantic event the poll job emits starts a task that asks Postgres for  *)
(* the teams and their followers and writes one row per follower, while    *)
(* users follow and unfollow (Follows).                                    *)
(*                                                                         *)
(* wicketFallen and milestoneReached are about one team, matchStarted is   *)
(* about two; the three handlers differ in nothing else but the wording.   *)
(***************************************************************************)
EXTENDS Follows, NotificationPages, Sequences

CONSTANTS
  Event,      \* the events the poll job emits, each once
  TeamsOf,    \* TeamsOf[e]: the names the event carries, one or two
  PageSize,   \* rows per page of the feed
  MaxCrashes  \* bound: process crashes

ASSUME EventAssumption ==
  /\ TeamsOf \in [Event -> Seq(Team)]
  /\ \A e \in Event : Len(TeamsOf[e]) \in 1 .. 2
  /\ PageSize \in Nat \ {0} /\ MaxCrashes \in Nat

VARIABLES
  task,     \* [Event -> [pc, todo, chosen]]
  notes,    \* Notification: a set of [event, user, team, at], `at' is createdAt
  steady,   \* history: the pairs followed at every moment since the event
  ever,     \* history: the pairs followed at some moment since the event
  crashes

taskVars == <<task, notes, crashes>>

vars == <<accountVars, followsVars, taskVars, steady, ever>>

NoTask(pc) == [pc |-> pc, todo |-> {}, chosen |-> {}]

Init ==
  /\ AccountsInit
  /\ FollowsInit
  /\ task = [e \in Event |-> NoTask("none")]
  /\ notes = {}
  /\ steady = [e \in Event |-> {}]
  /\ ever = [e \in Event |-> {}]
  /\ crashes = 0

Running(e) == task[e].pc \in {"resolve", "read", "write"}

\* The two histories start with the event and end with its task.
Observe ==
  LET now == Pairs(followed')
      Watch(e, old, grown) == CASE task[e].pc = "none" -> now
                                [] Running(e)          -> grown
                                [] OTHER               -> old
  IN  /\ steady' = [e \in Event |-> Watch(e, steady[e], steady[e] \cap now)]
      /\ ever' = [e \in Event |-> Watch(e, ever[e], ever[e] \cup now)]

TasksKeep == UNCHANGED <<accountVars, taskVars>> /\ Observe

FollowsKeep == UNCHANGED <<accountVars, followsVars>> /\ Observe

\* notifier.emit: the handler starts in a microtask of its own.
Emit(e) ==
  /\ task[e].pc = "none"
  /\ task' = [task EXCEPT ![e] = NoTask("resolve")]
  /\ UNCHANGED <<notes, crashes>>
  /\ FollowsKeep

\* Mutant: an event with a team that is not seeded is dropped.
Resolved_allOrNothing(names) ==
  IF \A i \in DOMAIN names : names[i] \in Seeded THEN DOMAIN names ELSE {}

\* Mutant: a name that resolves to null is asked for like any other.
Resolved_nullKept(names) == DOMAIN names

\* The positions of the names that resolve to a team.
Resolved(names) == {i \in DOMAIN names : names[i] \in Seeded}

Resolve(e) ==
  /\ task[e].pc = "resolve"
  /\ LET teams == Resolved(TeamsOf[e])
     IN  task' = [task EXCEPT ![e] = IF teams = {} THEN NoTask("done")
                                     ELSE [pc |-> "read", todo |-> teams, chosen |-> {}]]
  /\ UNCHANGED <<notes, crashes>>
  /\ FollowsKeep

\* Mutant: findMany without its where.
Followers_everyone(team) == {f.user : f \in followed}

Followers(team) == {f.user : f \in {g \in followed : g.team = team}}

\* Mutant: no look at who is in the map already.
Choose_twice(chosen, users, team) == chosen \cup {<<u, team>> : u \in users}

\* teamIdByUser: the team a user is found with first wins.
Choose(chosen, users, team) ==
  chosen \cup {<<u, team>> : u \in {v \in users : \A t \in Team : <<v, t>> \notin chosen}}

\* One findMany; the teams of matchStarted are read one after the other.
ReadFollowers(e) ==
  /\ task[e].pc = "read"
  /\ LET first == Min(task[e].todo)
         team == TeamsOf[e][first]
         todo == task[e].todo \ {first}
         chosen == Choose(task[e].chosen, Followers(team), team)
         next == IF todo # {} THEN "read" ELSE IF chosen # {} THEN "write" ELSE "done"
     IN  task' = [task EXCEPT ![e] = [pc |-> next, todo |-> todo, chosen |-> chosen]]
  /\ UNCHANGED <<notes, crashes>>
  /\ FollowsKeep

NotesFrom(e, at) ==
  {[event |-> e, user |-> c[1], team |-> c[2], at |-> at] : c \in task[e].chosen}

\* The rows of one createMany share their createdAt, which is now(); another
\* createMany may fall into the same millisecond.
Stored(e) ==
  LET last == Max({0} \cup {n.at : n \in notes})
  IN  \E at \in {last, last + 1} \ {0} : notes' = notes \cup NotesFrom(e, at)

\* createMany.
Write(e) ==
  /\ task[e].pc = "write"
  /\ Stored(e)
  /\ task' = [task EXCEPT ![e] = NoTask("done")]
  /\ UNCHANGED crashes
  /\ FollowsKeep

\* guard: whatever a query throws is logged and swallowed.  The rows may be there.
HandlerFails(e) ==
  /\ Running(e)
  /\ dbFaults < MaxDbFaults
  /\ dbFaults' = dbFaults + 1
  /\ \/ UNCHANGED notes
     \/ task[e].pc = "write" /\ Stored(e)
  /\ task' = [task EXCEPT ![e] = NoTask("failed")]
  /\ UNCHANGED <<accountVars, crashes, followed, nextId, req, balance>>
  /\ Observe

\* Tasks and requests are in memory only.  A write that was applied though the
\* process never heard of it is HandlerFails or QueryFails, followed by this.
Crash ==
  /\ crashes < MaxCrashes
  /\ crashes' = crashes + 1
  /\ task' = [e \in Event |-> IF Running(e) THEN NoTask("failed") ELSE task[e]]
  /\ req' = [r \in Request |-> NoRequest]
  /\ hashing' = [u \in User |-> 0]
  /\ UNCHANGED <<accounts, welcomed, unheard, notes, followed, nextId, balance, dbFaults>>
  /\ Observe

\* One of the database's faults may fall on the create of a signup.
SignupMeetsFault(u) ==
  /\ SignupFails(u)
  /\ dbFaults < MaxDbFaults
  /\ dbFaults' = dbFaults + 1
  /\ UNCHANGED <<followed, nextId, req, balance, taskVars>>
  /\ Observe

Next ==
  \/ \E e \in Event : Emit(e) \/ Resolve(e) \/ ReadFollowers(e) \/ Write(e) \/ HandlerFails(e)
  \/ Crash
  \/ \E u \in User : LookUpEmail(u) /\ UNCHANGED <<followsVars, taskVars>> /\ Observe
  \/ \E u \in User : CreateUser(u) /\ UNCHANGED <<followsVars, taskVars>> /\ Observe
  \/ \E u \in User : SignupMeetsFault(u)
  \/ \E r \in Request, user \in User, team \in Team : FindTeam(r, user, team) /\ TasksKeep
  \/ \E r \in Request, user \in User, team \in Team : FindFollow(r, user, team) /\ TasksKeep
  \/ \E r \in Request : CreateFollow(r) /\ TasksKeep
  \/ \E r \in Request : DeleteFollow(r) /\ TasksKeep
  \/ \E r \in Request : QueryFails(r) /\ TasksKeep

Spec == Init /\ [][Next]_vars

-----------------------------------------------------------------------------
(* Properties *)

NamesOf(e) == {TeamsOf[e][i] : i \in DOMAIN TeamsOf[e]}

\* The type invariant: a task asks Postgres about teams there are rows of, and
\* chooses users for those.
TypeOK ==
  /\ FollowsTypeOK
  /\ task \in [Event -> [pc : {"none", "resolve", "read", "write", "done", "failed"},
                         todo : SUBSET (1 .. 2), chosen : SUBSET (User \X Seeded)]]
  /\ \A e \in Event : \A i \in task[e].todo : TeamsOf[e][i] \in Seeded
  /\ notes \subseteq [event : Event, user : User, team : Seeded, at : 1 .. Cardinality(Event)]
  /\ crashes \in 0 .. MaxCrashes

\* A notification goes to someone who followed, at some moment between the event
\* and the end of its task, the team the notification names, and the event is
\* about that team: follows come and go between the lookup and the insert.
StrangersNotTold ==
  \A n \in notes : n.team \in NamesOf(n.event) /\ <<n.user, n.team>> \in ever[n.event]

\* "A user following both gets a single row" (notificationHandlers.js:110-111),
\* although the two teams are read one after the other.
OncePerUser ==
  \A n1, n2 \in notes : n1.event = n2.event /\ n1.user = n2.user => n1 = n2

\* A task that ran to its end has told every user who followed one of the event's
\* seeded teams all along, under that team or one the event names before it.
SteadyFollowersTold ==
  \A e \in Event : task[e].pc = "done" =>
    \A i \in DOMAIN TeamsOf[e], user \in User :
      <<user, TeamsOf[e][i]>> \in steady[e] =>
        \E n \in notes, j \in 1 .. i :
          n.event = e /\ n.user = user /\ n.team = TeamsOf[e][j]

RowsFor(user) == {n \in notes : n.user = user}

\* Whoever reads the feed to its end has got no notification twice, and has missed
\* none but one that was created in the same millisecond as another, for another
\* event, with which a page ended.
FeedMissesOnlyTies ==
  \A user \in User : \A pages \in Walks(RowsFor(user), PageSize) :
    LET listed == UNION {pages[i] : i \in DOMAIN pages}
    IN  /\ \A i, j \in DOMAIN pages : i # j => pages[i] \cap pages[j] = {}
        /\ \A n \in RowsFor(user) \ listed :
             \E m \in listed : m.at = n.at /\ m.event # n.event
=============================================================================
