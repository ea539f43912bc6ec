------------------------------- MODULE Follows -------------------------------
(***************************************************************************)
(* Following and unfollowing a team (src/routes/follows.js; players are    *)
(* handled by the same code on another table).  Each await on Prisma is a  *)
(* step of its own, so requests of one user, from two tabs or from a       *)
(* retry, interleave between the lookup and the write.                     *)
(***************************************************************************)
EXTENDS Accounts, Integers, FiniteSets

CONSTANTS
  Team,
  Seeded,       \* the teams there are rows of
  Request,      \* requests that can be under way at one time
  MaxRows,      \* bound: rows ever created
  MaxDbFaults,  \* bound: queries that fail because Postgres is out of reach
  Nobody        \* not a user, for an idle request

ASSUME FollowsAssumption ==
  /\ Seeded \subseteq Team
  /\ MaxRows \in Nat /\ MaxDbFaults \in Nat
  /\ Nobody \notin User

VARIABLES
  followed,  \* FollowedTeam: a set of [id, user, team]
  nextId,    \* the id of the next row
  req,       \* [Request -> [pc, user, team, row]]
  balance,   \* history: follows answered 201 minus unfollows answered 204, per pair
  dbFaults   \* how many queries failed

followsVars == <<followed, nextId, req, balance, dbFaults>>

Pairs(rows) == {<<f.user, f.team>> : f \in rows}

RowsOf(user, team) == {f \in followed : f.user = user /\ f.team = team}

NoRequest == [pc |-> "idle", user |-> Nobody, team |-> Nobody, row |-> 0]

Await(r, pc, user, team, row) ==
  req' = [req EXCEPT ![r] = [pc |-> pc, user |-> user, team |-> team, row |-> row]]

\* The answer goes out; what the model keeps of it is balance.
Answer(r) == req' = [req EXCEPT ![r] = NoRequest]

Count(r, n) == balance' = [balance EXCEPT ![<<req[r].user, req[r].team>>] = @ + n]

FollowsInit ==
  /\ followed = {}
  /\ nextId = 1
  /\ req = [r \in Request |-> NoRequest]
  /\ balance = [pair \in User \X Team |-> 0]
  /\ dbFaults = 0

-----------------------------------------------------------------------------
RoomForRow == nextId + Cardinality({q \in Request : req[q].pc = "create"}) <= MaxRows

\* authenticate knows the user, then POST /follows/team/:teamId up to its first answer
\* from Postgres; 404 for no team.
FindTeam(r, user, team) ==
  /\ req[r].pc = "idle" /\ user \in accounts
  /\ RoomForRow
  /\ IF team \in Seeded THEN Await(r, "create", user, team, 0) ELSE Answer(r)
  /\ UNCHANGED <<followed, nextId, balance, dbFaults>>

\* The unique index on [userId, teamId] makes a second row a P2002, that is 409.
CreateFollow(r) ==
  /\ req[r].pc = "create"
  /\ \/ /\ RowsOf(req[r].user, req[r].team) # {}
        /\ Answer(r)
        /\ UNCHANGED <<followed, nextId, balance>>
     \/ /\ RowsOf(req[r].user, req[r].team) = {}
        /\ followed' = followed \cup
             {[id |-> nextId, user |-> req[r].user, team |-> req[r].team]}
        /\ nextId' = nextId + 1
        /\ Answer(r)
        /\ Count(r, 1)
  /\ UNCHANGED dbFaults

\* DELETE /follows/team/:teamId up to its first answer from Postgres; 404 for no follow.
FindFollow(r, user, team) ==
  /\ req[r].pc = "idle" /\ user \in accounts
  /\ IF RowsOf(user, team) = {} THEN Answer(r)
     ELSE \E f \in RowsOf(user, team) : Await(r, "delete", user, team, f.id)
  /\ UNCHANGED <<followed, nextId, balance, dbFaults>>

\* Mutant: the row is deleted by user and team instead of by the id that was read.
Doomed_byPair(r) == RowsOf(req[r].user, req[r].team)

Doomed(r) == {f \in followed : f.id = req[r].row}

\* Mutant: as with deleteMany, nothing to delete is a success.
Deleted_deleteMany(r) == TRUE

\* Whether delete succeeds.  For a row that is gone it throws P2025, none of the codes
\* the error handler knows: the second of two unfollows is answered 500.
Deleted(r) == Doomed(r) # {}

DeleteFollow(r) ==
  /\ req[r].pc = "delete"
  /\ followed' = followed \ Doomed(r)
  /\ Answer(r)
  /\ IF Deleted(r) THEN Count(r, -1) ELSE UNCHANGED balance
  /\ UNCHANGED <<nextId, dbFaults>>

\* Postgres out of reach: 503.  A write may have been applied all the same.
QueryFails(r) ==
  /\ dbFaults < MaxDbFaults
  /\ dbFaults' = dbFaults + 1
  /\ Answer(r)
  /\ \/ UNCHANGED <<followed, nextId>>
     \/ /\ req[r].pc = "create" /\ RowsOf(req[r].user, req[r].team) = {}
        /\ followed' = followed \cup
             {[id |-> nextId, user |-> req[r].user, team |-> req[r].team]}
        /\ nextId' = nextId + 1
     \/ /\ req[r].pc = "delete"
        /\ followed' = followed \ Doomed(r)
        /\ UNCHANGED nextId
  /\ UNCHANGED balance

-----------------------------------------------------------------------------
(* Properties *)

FollowsTypeOK ==
  /\ followed \subseteq [id : 1 .. MaxRows, user : User, team : Seeded]
  /\ nextId \in 1 .. MaxRows + 1
  /\ req \in [Request -> [pc : {"idle", "create", "delete"}, user : User \cup {Nobody},
                          team : Team \cup {Nobody}, row : 0 .. MaxRows]]
  /\ balance \in [User \X Team -> Int]
  /\ dbFaults \in 0 .. MaxDbFaults

\* What the answers said adds up to what is stored: as long as no query failed a
\* user follows a team exactly when one more follow than unfollow succeeded.
AnswersAddUp ==
  dbFaults = 0 =>
    \A user \in User, team \in Team :
      balance[<<user, team>>] = Cardinality(RowsOf(user, team))

\* A follow goes only by an unfollow that looked it up: one that was under way when
\* the follow was made, after another tab's unfollow, does not take it away.
LaterFollowKept ==
  [][\A f \in followed \ followed' :
       \E r \in Request : req[r].pc = "delete" /\ req[r].row = f.id]_followsVars
=============================================================================
