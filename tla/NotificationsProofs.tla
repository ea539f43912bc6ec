------------------------- MODULE NotificationsProofs -------------------------
(***************************************************************************)
(* Proofs about Notifications and the modules it composes (Accounts,       *)
(* Follows), for any users, teams, requests and events, however many       *)
(* signups, rows, failing queries and crashes there are.                   *)
(***************************************************************************)
EXTENDS Notifications, FiniteSetTheorems, WellFoundedInduction, TLAPS

-----------------------------------------------------------------------------
(* Accounts *)

AccountsInv ==
  /\ hashing \in [User -> Nat]
  /\ welcomed \in [User -> Nat]
  /\ unheard \in [User -> Nat]
  /\ OneAccountPerEmail

(* At first nobody has signed up. *)
LEMMA AccountsStart == Init => AccountsInv
  BY AccountsAssumption DEF Init, AccountsInit, AccountsInv, OneAccountPerEmail

(* A signup, however far others of its email have got, keeps it so. *)
LEMMA AccountsSignup ==
  ASSUME AccountsInv, NEW u \in User, LookUpEmail(u) \/ CreateUser(u) \/ SignupFails(u)
  PROVE  AccountsInv'
<1>1. CASE LookUpEmail(u)
  BY <1>1 DEF AccountsInv, LookUpEmail, OneAccountPerEmail
<1>2. CASE SignupFails(u) /\ UNCHANGED <<accounts, unheard>>
  BY <1>2 DEF AccountsInv, SignupFails, OneAccountPerEmail
<1>3. CASE CreateUser(u) /\ ~EmailIsFree(u)
  BY <1>3 DEF AccountsInv, CreateUser, OneAccountPerEmail
<1>4. CASE CreateUser(u) /\ EmailIsFree(u)
  <2>1. /\ u \notin Registered /\ welcomed[u] = 0 /\ unheard[u] = 0
    BY <1>4 DEF AccountsInv, EmailIsFree, OneAccountPerEmail
  <2>2. /\ accounts' = accounts \cup {u}
        /\ welcomed' = [welcomed EXCEPT ![u] = @ + 1]
        /\ hashing' = [hashing EXCEPT ![u] = @ - 1]
        /\ hashing[u] > 0 /\ UNCHANGED unheard
    BY <1>4 DEF CreateUser
  <2> QED
    BY <2>1, <2>2 DEF AccountsInv, OneAccountPerEmail
<1>5. CASE SignupFails(u) /\ ~UNCHANGED <<accounts, unheard>>
  <2>1. /\ accounts' = accounts \cup {u}
        /\ unheard' = [unheard EXCEPT ![u] = @ + 1]
        /\ hashing' = [hashing EXCEPT ![u] = @ - 1]
        /\ hashing[u] > 0 /\ u \notin accounts /\ UNCHANGED welcomed
    BY <1>5 DEF SignupFails, EmailIsFree
  <2>2. /\ u \notin Registered /\ welcomed[u] = 0 /\ unheard[u] = 0
    BY <2>1 DEF AccountsInv, OneAccountPerEmail
  <2> QED
    BY <2>1, <2>2 DEF AccountsInv, OneAccountPerEmail
<1> QED
  BY <1>1, <1>2, <1>3, <1>4, <1>5 DEF CreateUser

(* No step of the process changes accounts otherwise; a crash forgets signups. *)
LEMMA AccountsStep == AccountsInv /\ [Next]_vars => AccountsInv'
<1> SUFFICES ASSUME AccountsInv, [Next]_vars PROVE AccountsInv'
  OBVIOUS
<1>1. CASE UNCHANGED accountVars
  BY <1>1 DEF accountVars, AccountsInv, OneAccountPerEmail
<1>2. CASE \E u \in User : LookUpEmail(u) \/ CreateUser(u) \/ SignupMeetsFault(u)
  BY <1>2, AccountsSignup DEF SignupMeetsFault
<1>3. CASE Crash
  BY <1>3 DEF Crash, AccountsInv, OneAccountPerEmail
<1>4. ASSUME NEW e \in Event, HandlerFails(e) PROVE UNCHANGED accountVars
  BY <1>4 DEF HandlerFails
<1> QED
  BY <1>1, <1>2, <1>3, <1>4
  DEF Next, vars, TasksKeep, FollowsKeep, Emit, Resolve, ReadFollowers, Write

(* However many signups of an email are under way, fail or lose their answer, the account
   is created once, and not without one of them (POST /auth/signup). *)
THEOREM OneAccount == Spec => []OneAccountPerEmail
<1>1. AccountsInv => OneAccountPerEmail
  BY DEF AccountsInv
<1> QED
  BY <1>1, AccountsStart, AccountsStep, PTL DEF Spec

-----------------------------------------------------------------------------
(* Follows *)

(* The table of follows: its ids are given once, and its index holds. *)
RowsInv ==
  /\ nextId \in Nat
  /\ followed \subseteq [id : Nat, user : User, team : Seeded]
  /\ \A f \in followed : f.id < nextId
  /\ \A f, g \in followed : f.id = g.id => f = g
  /\ \A f, g \in followed : f.user = g.user /\ f.team = g.team => f = g

RequestRecord ==
  [pc : {"idle", "create", "delete"}, user : User \cup {Nobody}, team : Team \cup {Nobody},
   row : Nat]

(* A request that is to write knows for whom, and a row it has read is still the
   row of that user and team, if there is one with that id. *)
RequestsInv ==
  /\ req \in [Request -> RequestRecord]
  /\ \A r \in Request : req[r].pc # "idle" => req[r].user \in User /\ req[r].team \in Seeded
  /\ \A r \in Request : req[r].pc = "delete" =>
       /\ req[r].row < nextId
       /\ \A f \in followed : f.id = req[r].row => f.user = req[r].user /\ f.team = req[r].team

(* While no query has failed the answers say whether there is a row. *)
BalanceInv ==
  /\ dbFaults \in Nat
  /\ balance \in [User \X Team -> Int]
  /\ dbFaults = 0 =>
       \A u \in User, t \in Team : balance[<<u, t>>] = IF RowsOf(u, t) = {} THEN 0 ELSE 1

FollowsInv == RowsInv /\ RequestsInv /\ BalanceInv

(* There is no row at first, and no request. *)
LEMMA FollowsStart == Init => FollowsInv
<1> SUFFICES ASSUME FollowsInit PROVE FollowsInv
  BY DEF Init
<1>1. RowsInv
  BY DEF FollowsInit, RowsInv
<1>2. RequestsInv
  BY DEF FollowsInit, RequestsInv, RequestRecord, NoRequest
<1>3. BalanceInv
  BY DEF FollowsInit, BalanceInv, RowsOf
<1> QED
  BY <1>1, <1>2, <1>3 DEF FollowsInv

(* What a step that leaves rows, requests and answers alone keeps. *)
LEMMA FollowsFrame ==
  ASSUME FollowsInv, UNCHANGED <<followed, nextId, req, balance>>,
         dbFaults' = dbFaults \/ dbFaults' = dbFaults + 1
  PROVE  FollowsInv'
  BY DEF FollowsInv, RowsInv, RequestsInv, BalanceInv, RowsOf

(* An answer that goes out without a write. *)
LEMMA AnswerStep ==
  ASSUME FollowsInv, NEW r \in Request, Answer(r), UNCHANGED <<followed, nextId, balance>>,
         dbFaults' = dbFaults \/ dbFaults' = dbFaults + 1
  PROVE  FollowsInv'
<1>1. RowsInv'
  BY DEF FollowsInv, RowsInv
<1>2. RequestsInv'
  BY DEF FollowsInv, RequestsInv, RequestRecord, Answer, NoRequest
<1>3. BalanceInv'
  BY DEF FollowsInv, BalanceInv, RowsOf
<1> QED
  BY <1>1, <1>2, <1>3 DEF FollowsInv

(* A row goes in when the index has no other of its user and team. *)
LEMMA RowAdded ==
  ASSUME FollowsInv, NEW r \in Request, req[r].pc = "create",
         RowsOf(req[r].user, req[r].team) = {}, Answer(r),
         followed' = followed \cup
           {[id |-> nextId, user |-> req[r].user, team |-> req[r].team]},
         nextId' = nextId + 1
  PROVE  RowsInv' /\ RequestsInv'
<1> DEFINE new == [id |-> nextId, user |-> req[r].user, team |-> req[r].team]
<1>1. new \in [id : Nat, user : User, team : Seeded]
  BY DEF FollowsInv, RowsInv, RequestsInv
<1>2. \A f \in followed : f.id # new.id /\ ~(f.user = new.user /\ f.team = new.team)
  BY DEF FollowsInv, RowsInv, RowsOf
<1>3. RowsInv'
  <2>1. nextId' \in Nat /\ followed' \subseteq [id : Nat, user : User, team : Seeded]
    BY <1>1 DEF FollowsInv, RowsInv
  <2>2. \A f \in followed' : f.id < nextId'
    BY DEF FollowsInv, RowsInv
  <2>3. \A f, g \in followed' : f.id = g.id => f = g
    BY <1>2 DEF FollowsInv, RowsInv
  <2>4. \A f, g \in followed' : f.user = g.user /\ f.team = g.team => f = g
    BY <1>2 DEF FollowsInv, RowsInv
  <2> QED
    BY <2>1, <2>2, <2>3, <2>4 DEF RowsInv
<1>4. RequestsInv'
  <2>1. req' \in [Request -> RequestRecord] /\ req'[r].pc = "idle"
        /\ \A q \in Request : q # r => req'[q] = req[q]
    BY DEF FollowsInv, RequestsInv, RequestRecord, Answer, NoRequest
  <2>2. \A q \in Request : req[q].pc = "delete" => req[q].row < nextId' /\ req[q].row # new.id
    BY DEF FollowsInv, RequestsInv, RowsInv, RequestRecord
  <2> QED
    BY <2>1, <2>2 DEF FollowsInv, RequestsInv
<1> QED
  BY <1>3, <1>4

(* What a delete by id takes away is one row at most, that of its request. *)
LEMMA RowDropped ==
  ASSUME FollowsInv, NEW r \in Request, req[r].pc = "delete", Answer(r),
         followed' = followed \ Doomed(r), nextId' = nextId
  PROVE  RowsInv' /\ RequestsInv'
<1>1. RowsInv'
  BY DEF FollowsInv, RowsInv
<1>2. RequestsInv'
  <2>1. req' \in [Request -> RequestRecord] /\ req'[r].pc = "idle"
        /\ \A q \in Request : q # r => req'[q] = req[q]
    BY DEF FollowsInv, RequestsInv, RequestRecord, Answer, NoRequest
  <2> QED
    BY <2>1 DEF FollowsInv, RequestsInv
<1> QED
  BY <1>1, <1>2

(* Looking up a team or a follow writes nothing. *)
LEMMA FindStep ==
  ASSUME FollowsInv, NEW r \in Request, NEW user \in User, NEW team \in Team,
         FindTeam(r, user, team) \/ FindFollow(r, user, team)
  PROVE  FollowsInv'
<1>1. UNCHANGED <<followed, nextId, balance, dbFaults>>
  BY DEF FindTeam, FindFollow
<1>2. CASE Answer(r)
  BY <1>1, <1>2, AnswerStep
<1>3. RowsInv' /\ BalanceInv'
  BY <1>1 DEF FollowsInv, RowsInv, BalanceInv, RowsOf
<1>4. CASE team \in Seeded /\ Await(r, "create", user, team, 0)
  <2>1. RequestsInv'
    BY <1>1, <1>4 DEF FollowsInv, RequestsInv, RequestRecord, Await
  <2> QED
    BY <1>3, <2>1 DEF FollowsInv
<1>5. ASSUME NEW f \in RowsOf(user, team), Await(r, "delete", user, team, f.id)
      PROVE  FollowsInv'
  <2>1. f \in followed /\ f.user = user /\ f.team = team
    BY DEF RowsOf
  <2>2. f.id \in Nat /\ f.team \in Seeded /\ f.id < nextId
    BY <2>1 DEF FollowsInv, RowsInv
  <2>3. \A g \in followed : g.id = f.id => g.user = user /\ g.team = team
    BY <2>1 DEF FollowsInv, RowsInv
  <2>4. req' = [req EXCEPT ![r] = [pc |-> "delete", user |-> user, team |-> team, row |-> f.id]]
    BY <1>5 DEF Await
  <2>5. [pc |-> "delete", user |-> user, team |-> team, row |-> f.id] \in RequestRecord
    BY <2>2 DEF RequestRecord
  <2>6. req' \in [Request -> RequestRecord]
    BY <2>4, <2>5 DEF FollowsInv, RequestsInv
  <2>7. RequestsInv'
    BY <1>1, <2>1, <2>2, <2>3, <2>4, <2>6 DEF FollowsInv, RequestsInv
  <2> QED
    BY <1>3, <2>7 DEF FollowsInv
<1> QED
  BY <1>2, <1>4, <1>5 DEF FindTeam, FindFollow

(* A create is answered 201 and adds a row, or 409 and adds none. *)
LEMMA CreateStep ==
  ASSUME FollowsInv, NEW r \in Request, CreateFollow(r)
  PROVE  FollowsInv'
<1> PICK user, team : user = req[r].user /\ team = req[r].team
  OBVIOUS
<1>1. CASE RowsOf(user, team) # {}
  BY <1>1, AnswerStep DEF CreateFollow
<1>2. CASE RowsOf(user, team) = {}
  <2> DEFINE new == [id |-> nextId, user |-> user, team |-> team]
  <2>1. /\ req[r].pc = "create" /\ Answer(r) /\ Count(r, 1)
        /\ followed' = followed \cup {new} /\ nextId' = nextId + 1 /\ dbFaults' = dbFaults
    BY <1>2 DEF CreateFollow
  <2>2. user \in User /\ team \in Seeded /\ team \in Team
    BY <2>1, FollowsAssumption DEF FollowsInv, RequestsInv
  <2>3. balance' = [balance EXCEPT ![<<user, team>>] = @ + 1]
    BY <2>1 DEF Count
  <2>4. RowsOf(user, team)' = {new}
    BY <1>2, <2>1 DEF RowsOf
  <2>5. \A u \in User, t \in Team : <<u, t>> # <<user, team>> => RowsOf(u, t)' = RowsOf(u, t)
    BY <2>1 DEF RowsOf
  <2>6. BalanceInv'
    <3>1. balance' \in [User \X Team -> Int] /\ dbFaults' \in Nat
      BY <2>1, <2>2, <2>3 DEF FollowsInv, BalanceInv
    <3>2. ASSUME dbFaults' = 0, NEW u \in User, NEW t \in Team
          PROVE  balance'[<<u, t>>] = IF RowsOf(u, t)' = {} THEN 0 ELSE 1
      <4>1. CASE <<u, t>> = <<user, team>>
        <5>1. u = user /\ t = team /\ RowsOf(u, t)' # {}
          BY <2>4, <4>1
        <5>2. balance[<<user, team>>] = 0
          BY <1>2, <2>1, <2>2, <3>2 DEF FollowsInv, BalanceInv
        <5> QED
          BY <2>2, <2>3, <5>1, <5>2 DEF FollowsInv, BalanceInv
      <4>2. CASE <<u, t>> # <<user, team>>
        BY <2>1, <2>2, <2>3, <2>5, <3>2, <4>2 DEF FollowsInv, BalanceInv
      <4> QED
        BY <4>1, <4>2
    <3> QED
      BY <3>1, <3>2 DEF BalanceInv
  <2>7. RowsInv' /\ RequestsInv'
    BY <1>2, <2>1, RowAdded
  <2> QED
    BY <2>6, <2>7 DEF FollowsInv
<1> QED
  BY <1>1, <1>2

(* A delete is answered 204 and takes its row away, or there was none any more. *)
LEMMA DeleteStep ==
  ASSUME FollowsInv, NEW r \in Request, DeleteFollow(r)
  PROVE  FollowsInv'
<1> PICK user, team : user = req[r].user /\ team = req[r].team
  OBVIOUS
<1>1. /\ req[r].pc = "delete" /\ Answer(r) /\ followed' = followed \ Doomed(r)
      /\ nextId' = nextId /\ dbFaults' = dbFaults
      /\ IF Deleted(r) THEN Count(r, -1) ELSE UNCHANGED balance
  BY DEF DeleteFollow
<1>2. RowsInv' /\ RequestsInv'
  BY <1>1, RowDropped
<1>3. CASE Doomed(r) = {}
  BY <1>1, <1>2, <1>3 DEF FollowsInv, BalanceInv, Deleted, RowsOf
<1>4. CASE Doomed(r) # {}
  <2>1. PICK f \in followed : f.id = req[r].row
    BY <1>4 DEF Doomed
  <2>2. user \in User /\ team \in Seeded /\ team \in Team /\ f.user = user /\ f.team = team
    BY <1>1, <2>1, FollowsAssumption DEF FollowsInv, RequestsInv
  <2>3. Doomed(r) = {f} /\ RowsOf(user, team) = {f}
    BY <2>1, <2>2 DEF FollowsInv, RowsInv, Doomed, RowsOf
  <2>4. RowsOf(user, team)' = {}
    BY <1>1, <2>3 DEF RowsOf
  <2>5. \A u \in User, t \in Team : <<u, t>> # <<user, team>> => RowsOf(u, t)' = RowsOf(u, t)
    BY <1>1, <2>2, <2>3 DEF RowsOf
  <2>6. balance' = [balance EXCEPT ![<<user, team>>] = @ + (-1)]
    BY <1>1, <1>4 DEF Deleted, Count
  <2>7. BalanceInv'
    <3>1. balance' \in [User \X Team -> Int] /\ dbFaults' \in Nat
      BY <1>1, <2>2, <2>6 DEF FollowsInv, BalanceInv
    <3>2. ASSUME dbFaults' = 0, NEW u \in User, NEW t \in Team
          PROVE  balance'[<<u, t>>] = IF RowsOf(u, t)' = {} THEN 0 ELSE 1
      <4>1. CASE <<u, t>> = <<user, team>>
        BY <1>1, <2>2, <2>3, <2>4, <2>6, <3>2, <4>1 DEF FollowsInv, BalanceInv
      <4>2. CASE <<u, t>> # <<user, team>>
        BY <1>1, <2>2, <2>5, <2>6, <3>2, <4>2 DEF FollowsInv, BalanceInv
      <4> QED
        BY <4>1, <4>2
    <3> QED
      BY <3>1, <3>2 DEF BalanceInv
  <2> QED
    BY <1>2, <2>7 DEF FollowsInv
<1> QED
  BY <1>3, <1>4

(* A query fails, whether it was applied or not: the answers no longer add up. *)
LEMMA FailStep ==
  ASSUME FollowsInv, NEW r \in Request, QueryFails(r)
  PROVE  FollowsInv'
<1>1. BalanceInv'
  BY DEF QueryFails, FollowsInv, BalanceInv
<1>2. RowsInv' /\ RequestsInv'
  <2>1. CASE UNCHANGED <<followed, nextId>>
    BY <2>1, AnswerStep DEF QueryFails, FollowsInv
  <2>2. CASE /\ req[r].pc = "create" /\ RowsOf(req[r].user, req[r].team) = {}
             /\ followed' = followed \cup
                  {[id |-> nextId, user |-> req[r].user, team |-> req[r].team]}
             /\ nextId' = nextId + 1
    BY <2>2, RowAdded DEF QueryFails
  <2>3. CASE req[r].pc = "delete" /\ followed' = followed \ Doomed(r) /\ nextId' = nextId
    BY <2>3, RowDropped DEF QueryFails
  <2> QED
    BY <2>1, <2>2, <2>3 DEF QueryFails
<1> QED
  BY <1>1, <1>2 DEF FollowsInv

(* A crash forgets every request and no row. *)
LEMMA CrashStep ==
  ASSUME FollowsInv, Crash
  PROVE  FollowsInv'
<1>1. UNCHANGED <<followed, nextId, balance, dbFaults>> /\ req' = [r \in Request |-> NoRequest]
  BY DEF Crash
<1>2. RequestsInv'
  BY <1>1 DEF RequestsInv, RequestRecord, NoRequest
<1> QED
  BY <1>1, <1>2 DEF FollowsInv, RowsInv, BalanceInv, RowsOf

(* Every step keeps what there is to know about follows. *)
LEMMA FollowsStep == FollowsInv /\ [Next]_vars => FollowsInv'
<1> SUFFICES ASSUME FollowsInv, [Next]_vars PROVE FollowsInv'
  OBVIOUS
<1>1. CASE UNCHANGED followsVars
  BY <1>1, FollowsFrame DEF followsVars
<1>2. CASE (\E e \in Event : HandlerFails(e)) \/ \E u \in User : SignupMeetsFault(u)
  BY <1>2, FollowsFrame DEF HandlerFails, SignupMeetsFault
<1>3. CASE Crash
  BY <1>3, CrashStep
<1>4. ASSUME NEW r \in Request, NEW user \in User, NEW team \in Team,
             FindTeam(r, user, team) \/ FindFollow(r, user, team)
      PROVE  FollowsInv'
  BY <1>4, FindStep
<1>5. ASSUME NEW r \in Request, CreateFollow(r) \/ DeleteFollow(r) \/ QueryFails(r)
      PROVE  FollowsInv'
  BY <1>5, CreateStep, DeleteStep, FailStep
<1>6. ASSUME NEW e \in Event, Emit(e) \/ Resolve(e) \/ ReadFollowers(e) \/ Write(e)
      PROVE  UNCHANGED followsVars
  BY <1>6 DEF Emit, Resolve, ReadFollowers, Write, FollowsKeep
<1> QED
  BY <1>1, <1>2, <1>3, <1>4, <1>5, <1>6 DEF Next, vars

(* The index lets no pair have two rows, so that the balance counts them. *)
LEMMA FollowsInvAddsUp == FollowsInv => AnswersAddUp
<1> SUFFICES ASSUME FollowsInv, dbFaults = 0, NEW user \in User, NEW team \in Team
             PROVE  balance[<<user, team>>] = Cardinality(RowsOf(user, team))
  BY DEF AnswersAddUp
<1>1. balance[<<user, team>>] = IF RowsOf(user, team) = {} THEN 0 ELSE 1
  BY DEF FollowsInv, BalanceInv
<1>2. CASE RowsOf(user, team) = {}
  BY <1>1, <1>2, FS_EmptySet
<1>3. CASE RowsOf(user, team) # {}
  <2>1. PICK f : f \in RowsOf(user, team)
    BY <1>3
  <2>2. RowsOf(user, team) = {f}
    BY <2>1 DEF FollowsInv, RowsInv, RowsOf
  <2> QED
    BY <1>1, <1>3, <2>2, FS_Singleton
<1> QED
  BY <1>2, <1>3

(* As long as no query fails, whoever got one more 201 than 204 for a team follows
   it, and nobody else, however many requests run into each other. *)
THEOREM FollowsAddUp == Spec => []AnswersAddUp
  BY FollowsStart, FollowsStep, FollowsInvAddsUp, PTL DEF Spec

(* A row is taken away only by an unfollow that has read its id. *)
LEMMA DroppedByReader ==
  [Next]_vars =>
    \A f \in followed \ followed' : \E r \in Request : req[r].pc = "delete" /\ req[r].row = f.id
<1> SUFFICES ASSUME [Next]_vars, NEW f \in followed \ followed'
             PROVE  \E r \in Request : req[r].pc = "delete" /\ req[r].row = f.id
  OBVIOUS
<1>1. ~UNCHANGED followed
  OBVIOUS
<1>2. ~Crash /\ (~\E e \in Event : HandlerFails(e)) /\ ~\E u \in User : SignupMeetsFault(u)
  BY <1>1 DEF Crash, HandlerFails, SignupMeetsFault
<1>3. \E r \in Request :
        CreateFollow(r) \/ DeleteFollow(r) \/ QueryFails(r)
          \/ \E user \in User, team \in Team : FindTeam(r, user, team) \/ FindFollow(r, user, team)
  BY <1>1, <1>2
  DEF Next, vars, followsVars, Emit, Resolve, ReadFollowers, Write, FollowsKeep
<1>4. PICK r \in Request : (DeleteFollow(r) \/ QueryFails(r)) /\ followed' # followed
  BY <1>1, <1>3 DEF CreateFollow, FindTeam, FindFollow
<1>5. req[r].pc = "delete" /\ f \in Doomed(r)
  BY <1>4 DEF DeleteFollow, QueryFails
<1> QED
  BY <1>5 DEF Doomed

(* A follow made while another tab's unfollow is under way survives it. *)
THEOREM LaterFollow == Spec => LaterFollowKept
<1>1. [Next]_vars =>
        [\A f \in followed \ followed' :
           \E r \in Request : req[r].pc = "delete" /\ req[r].row = f.id]_followsVars
  BY DroppedByReader
<1> QED
  BY <1>1, PTL DEF Spec, LaterFollowKept

-----------------------------------------------------------------------------
(* Notifications *)

Places == {"none", "resolve", "read", "write", "done", "failed"}

TaskRecord == [pc : Places, todo : SUBSET (1 .. 2), chosen : SUBSET (User \X Seeded)]

HistoryOfPairs == [Event -> SUBSET (User \X Seeded)]

Types ==
  /\ task \in [Event -> TaskRecord]
  /\ ever \in HistoryOfPairs /\ steady \in HistoryOfPairs
  /\ \A n \in notes : n.event \in Event

NotesOf(e) == {n \in notes : n.event = e}

(* The names whose followers have been read. *)
Asked(e) == Resolved(TeamsOf[e]) \ task[e].todo

(* A task asks for resolved names in their order and chooses a user once. *)
TaskInv(e) ==
  /\ task[e].todo \subseteq Resolved(TeamsOf[e])
  /\ task[e].pc = "read" => task[e].todo # {}
  /\ task[e].pc = "write" => task[e].todo = {}
  /\ \A j \in Asked(e), k \in task[e].todo : j < k
  /\ \A c, d \in task[e].chosen : c[1] = d[1] => c = d

(* Whoever is chosen has followed a team that was asked for, and whoever has followed
   one all along is chosen, for that team or one before it. *)
ChosenInv(e) ==
  /\ \A c \in task[e].chosen : c \in ever[e] /\ \E j \in Asked(e) : c[2] = TeamsOf[e][j]
  /\ \A i \in Asked(e), u \in User :
       <<u, TeamsOf[e][i]>> \in steady[e] =>
         \E j \in Asked(e) : j <= i /\ <<u, TeamsOf[e][j]>> \in task[e].chosen

(* The rows of an event are those of the users that its task has chosen. *)
NotesInv(e) ==
  /\ \A n \in NotesOf(e) : n.team \in NamesOf(e) /\ <<n.user, n.team>> \in ever[e]
  /\ \A n, m \in NotesOf(e) : n.user = m.user => n = m
  /\ task[e].pc = "done" =>
       \A i \in DOMAIN TeamsOf[e], u \in User :
         <<u, TeamsOf[e][i]>> \in steady[e] =>
           \E n \in NotesOf(e), j \in 1 .. i : n.user = u /\ n.team = TeamsOf[e][j]

EventInv(e) ==
  /\ task[e].pc \in {"none", "resolve", "read", "write"} => NotesOf(e) = {}
  /\ task[e].pc \in {"read", "write"} => TaskInv(e) /\ ChosenInv(e)
  /\ NotesInv(e)

ToldInv == Types /\ \A e \in Event : EventInv(e)

(* An event carries one name or two. *)
LEMMA NamesFacts ==
  ASSUME NEW e \in Event
  PROVE  /\ DOMAIN TeamsOf[e] \subseteq 1 .. 2
         /\ \A i \in DOMAIN TeamsOf[e] : TeamsOf[e][i] \in Team
         /\ Resolved(TeamsOf[e]) \subseteq DOMAIN TeamsOf[e]
         /\ \A i \in DOMAIN TeamsOf[e] : i \in Resolved(TeamsOf[e]) <=> TeamsOf[e][i] \in Seeded
  BY EventAssumption DEF Resolved

(* The first of the names still to be asked for. *)
LEMMA MinOfTwo ==
  ASSUME NEW T \in SUBSET (1 .. 2), T # {}
  PROVE  Min(T) \in T /\ \A k \in T : Min(T) <= k
<1>1. \E x \in T : \A y \in T : x <= y
  <2>1. CASE 1 \in T
    BY <2>1
  <2>2. CASE 1 \notin T
    <3>1. \A y \in T : y = 2
      BY <2>2
    <3>2. PICK x \in T : TRUE
      OBVIOUS
    <3> QED
      BY <3>1, <3>2
  <2> QED
    BY <2>1, <2>2
<1> QED
  BY <1>1 DEF Min

(* There is nothing to tell at first. *)
LEMMA ToldStart == Init => ToldInv
<1> SUFFICES ASSUME Init PROVE ToldInv
  OBVIOUS
<1>1. Types
  BY DEF Init, Types, TaskRecord, Places, HistoryOfPairs, NoTask
<1>2. ASSUME NEW e \in Event PROVE EventInv(e)
  BY DEF Init, EventInv, NotesInv, NotesOf, NoTask
<1> QED
  BY <1>1, <1>2 DEF ToldInv

(* The histories: they start with the event and end with its task. *)
LEMMA Observed ==
  ASSUME Types, RowsInv', Observe
  PROVE  /\ ever' \in HistoryOfPairs /\ steady' \in HistoryOfPairs
         /\ \A e \in Event :
              /\ Running(e) => /\ ever[e] \subseteq ever'[e]
                               /\ Pairs(followed') \subseteq ever'[e]
                               /\ steady'[e] \subseteq steady[e]
                               /\ steady'[e] \subseteq Pairs(followed')
              /\ task[e].pc \in {"done", "failed"} => ever'[e] = ever[e] /\ steady'[e] = steady[e]
<1>1. Pairs(followed') \subseteq User \X Seeded
  BY DEF RowsInv, Pairs
<1>2. \A e \in Event : task[e].pc \in Places
  BY DEF Types, TaskRecord
<1> QED
  BY <1>1, <1>2 DEF Types, HistoryOfPairs, Observe, Running, Places

(* An event that a step is not about keeps what there is to know about it. *)
LEMMA EventFrame ==
  ASSUME ToldInv, RowsInv', Observe, NEW e \in Event,
         task'[e] = task[e], NotesOf(e)' = NotesOf(e)
  PROVE  EventInv(e)'
<1>1. task[e].pc \in Places
  BY DEF ToldInv, Types, TaskRecord
<1>2. EventInv(e)
  BY DEF ToldInv
<1>3. CASE task[e].pc = "none"
  BY <1>2, <1>3 DEF EventInv, NotesInv
<1>4. CASE Running(e)
  <2>1. ever[e] \subseteq ever'[e] /\ steady'[e] \subseteq steady[e]
    BY <1>4, Observed DEF ToldInv
  <2>2. task[e].pc \in {"read", "write"} => TaskInv(e)' /\ ChosenInv(e)'
    BY <1>2, <2>1 DEF EventInv, TaskInv, ChosenInv, Asked
  <2> QED
    BY <1>2, <1>4, <2>2 DEF EventInv, NotesInv, Running
<1>5. CASE task[e].pc \in {"done", "failed"}
  <2>1. ever'[e] = ever[e] /\ steady'[e] = steady[e]
    BY <1>5, Observed DEF ToldInv
  <2> QED
    BY <1>2, <1>5, <2>1 DEF EventInv, NotesInv
<1> QED
  BY <1>1, <1>3, <1>4, <1>5 DEF Places, Running

(* Steps that leave tasks and rows alone, such as requests and signups. *)
LEMMA TasksFrame ==
  ASSUME ToldInv, RowsInv', Observe, UNCHANGED <<task, notes>>
  PROVE  ToldInv'
<1>1. Types'
  BY Observed DEF ToldInv, Types
<1>2. \A e \in Event : EventInv(e)'
  BY EventFrame DEF NotesOf
<1> QED
  BY <1>1, <1>2 DEF ToldInv

(* A task that moves on without a row leaves the other events alone. *)
LEMMA TaskMoves ==
  ASSUME ToldInv, RowsInv', Observe, NEW e \in Event, NEW t \in TaskRecord,
         task' = [task EXCEPT ![e] = t], UNCHANGED notes, EventInv(e)'
  PROVE  ToldInv'
<1>1. Types'
  BY Observed DEF ToldInv, Types
<1>2. ASSUME NEW q \in Event, q # e PROVE EventInv(q)'
  <2>1. task'[q] = task[q] /\ NotesOf(q)' = NotesOf(q)
    BY <1>2 DEF ToldInv, Types, NotesOf
  <2> QED
    BY <2>1, EventFrame
<1> QED
  BY <1>1, <1>2 DEF ToldInv

(* An event is emitted once, and its task begins. *)
LEMMA EmitStep ==
  ASSUME ToldInv, RowsInv', NEW e \in Event, Emit(e)
  PROVE  ToldInv'
<1>1. Observe /\ UNCHANGED notes /\ task[e].pc = "none"
      /\ task' = [task EXCEPT ![e] = NoTask("resolve")]
  BY DEF Emit, FollowsKeep
<1>2. NoTask("resolve") \in TaskRecord
  BY DEF NoTask, TaskRecord, Places
<1>3. task'[e].pc = "resolve" /\ NotesOf(e)' = {}
  BY <1>1 DEF ToldInv, EventInv, Types, NoTask, NotesOf
<1>4. EventInv(e)'
  BY <1>3 DEF EventInv, NotesInv
<1> QED
  BY <1>1, <1>2, <1>4, TaskMoves

(* The names are resolved: a task without one is done, and owes nothing to anyone. *)
LEMMA ResolveStep ==
  ASSUME ToldInv, RowsInv', NEW e \in Event, Resolve(e)
  PROVE  ToldInv'
<1> DEFINE teams == Resolved(TeamsOf[e])
           start == [pc |-> "read", todo |-> teams, chosen |-> {}]
<1>1. Observe /\ UNCHANGED notes /\ task[e].pc = "resolve"
      /\ task' = [task EXCEPT ![e] = IF teams = {} THEN NoTask("done") ELSE start]
  BY DEF Resolve, FollowsKeep
<1>2. NotesOf(e)' = {}
  BY <1>1 DEF ToldInv, EventInv, NotesOf
<1>3. CASE teams = {}
  <2>1. task' = [task EXCEPT ![e] = NoTask("done")]
    BY <1>1, <1>3
  <2>2. NoTask("done") \in TaskRecord
    BY DEF NoTask, TaskRecord, Places
  <2>3. task'[e].pc = "done"
    BY <2>1 DEF ToldInv, Types, NoTask
  <2>4. \A i \in DOMAIN TeamsOf[e], u \in User : <<u, TeamsOf[e][i]>> \notin steady'[e]
    BY <1>1, <1>3, Observed, NamesFacts DEF ToldInv, HistoryOfPairs
  <2>5. EventInv(e)'
    BY <1>2, <2>3, <2>4 DEF EventInv, NotesInv
  <2> QED
    BY <1>1, <2>1, <2>2, <2>5, TaskMoves
<1>4. CASE teams # {}
  <2>1. task' = [task EXCEPT ![e] = start]
    BY <1>1, <1>4
  <2>2. start \in TaskRecord
    BY NamesFacts DEF TaskRecord, Places
  <2>3. task'[e] = start
    BY <2>1 DEF ToldInv, Types
  <2>4. TaskInv(e)' /\ ChosenInv(e)'
    BY <1>4, <2>3 DEF TaskInv, ChosenInv, Asked
  <2>5. EventInv(e)'
    BY <1>2, <2>3, <2>4 DEF EventInv, NotesInv
  <2> QED
    BY <1>1, <2>1, <2>2, <2>5, TaskMoves
<1> QED
  BY <1>3, <1>4

(* The followers of one team are read.  Between two such reads follows come and go;
   a steady follower is found when the team's turn comes, if not before. *)
LEMMA ReadStep ==
  ASSUME ToldInv, RowsInv', NEW e \in Event, ReadFollowers(e)
  PROVE  ToldInv'
<1> DEFINE first == Min(task[e].todo)
           team == TeamsOf[e][first]
           todo == task[e].todo \ {first}
           chosen == Choose(task[e].chosen, Followers(team), team)
           next == IF todo # {} THEN "read" ELSE IF chosen # {} THEN "write" ELSE "done"
           moved == [pc |-> next, todo |-> todo, chosen |-> chosen]
<1>1. /\ Observe /\ UNCHANGED notes /\ followed' = followed
      /\ task[e].pc = "read" /\ task' = [task EXCEPT ![e] = moved]
  BY DEF ReadFollowers, FollowsKeep, followsVars
<1>2. task[e] \in TaskRecord /\ TaskInv(e) /\ ChosenInv(e) /\ NotesOf(e) = {} /\ Running(e)
  BY <1>1 DEF ToldInv, EventInv, Types, Running
<1>3. /\ task[e].todo \subseteq Resolved(TeamsOf[e]) /\ task[e].todo # {}
      /\ task[e].todo \in SUBSET (1 .. 2) /\ task[e].chosen \subseteq User \X Seeded
  BY <1>1, <1>2 DEF TaskInv, TaskRecord
<1>4. first \in task[e].todo /\ \A k \in task[e].todo : first <= k
  BY <1>3, MinOfTwo
<1>5. first \in 1 .. 2 /\ first \in Resolved(TeamsOf[e]) /\ team \in Seeded /\ team \in Team
  BY <1>3, <1>4, NamesFacts
<1>6. \A u : <<u, team>> \in Pairs(followed') <=> u \in Followers(team)
  BY <1>1 DEF Followers, Pairs
<1>7. Followers(team) \subseteq User
  BY <1>1 DEF RowsInv, Followers
<1>8. \A c \in chosen :
        \/ c \in task[e].chosen
        \/ \E u \in Followers(team) : c = <<u, team>> /\ \A t \in Team : <<u, t>> \notin task[e].chosen
  BY DEF Choose
<1>9. chosen \subseteq User \X Seeded /\ task[e].chosen \subseteq chosen
  BY <1>3, <1>5, <1>7, <1>8 DEF Choose
<1>10. moved \in TaskRecord /\ task'[e] = moved
  BY <1>1, <1>3, <1>9 DEF ToldInv, Types, TaskRecord, Places
<1>11. Asked(e)' = Asked(e) \cup {first}
  BY <1>4, <1>5, <1>10 DEF Asked
<1>12. \A j \in Asked(e) : j < first /\ j \in 1 .. 2
  BY <1>2, <1>4, NamesFacts DEF TaskInv, Asked
<1>13. TaskInv(e)' \/ next = "done"
  <2>1. \A j \in Asked(e)', k \in todo : j < k
    BY <1>2, <1>3, <1>4, <1>11 DEF TaskInv
  <2>2. \A c, d \in chosen : c[1] = d[1] => c = d
    <3>1. SUFFICES ASSUME NEW c \in chosen, NEW d \in chosen, c[1] = d[1] PROVE c = d
      OBVIOUS
    <3>2. \A x \in task[e].chosen : x = <<x[1], x[2]>> /\ x[2] \in Team
      BY <1>3, FollowsAssumption
    <3>3. CASE c \in task[e].chosen /\ d \in task[e].chosen
      BY <1>2, <3>1, <3>3 DEF TaskInv
    <3>4. CASE c \in task[e].chosen /\ d \notin task[e].chosen
      BY <1>8, <3>1, <3>2, <3>4
    <3>5. CASE c \notin task[e].chosen /\ d \in task[e].chosen
      BY <1>8, <3>1, <3>2, <3>5
    <3>6. CASE c \notin task[e].chosen /\ d \notin task[e].chosen
      BY <1>8, <3>1, <3>6
    <3> QED
      BY <3>3, <3>4, <3>5, <3>6
  <2> QED
    BY <1>3, <1>10, <2>1, <2>2 DEF TaskInv
<1>14. ChosenInv(e)'
  <2>1. /\ ever[e] \subseteq ever'[e] /\ Pairs(followed') \subseteq ever'[e]
        /\ steady'[e] \subseteq steady[e] /\ steady'[e] \subseteq Pairs(followed')
    BY <1>1, <1>2, Observed DEF ToldInv
  <2>2. ASSUME NEW c \in chosen
        PROVE  c \in ever'[e] /\ \E j \in Asked(e)' : c[2] = TeamsOf[e][j]
    BY <1>2, <1>6, <1>8, <1>11, <2>1 DEF ChosenInv
  <2>3. ASSUME NEW i \in Asked(e)', NEW u \in User, <<u, TeamsOf[e][i]>> \in steady'[e]
        PROVE  \E j \in Asked(e)' : j <= i /\ <<u, TeamsOf[e][j]>> \in chosen
    <3>1. CASE i \in Asked(e)
      BY <1>2, <1>9, <1>11, <2>1, <2>3, <3>1 DEF ChosenInv
    <3>2. CASE i = first /\ \A t \in Team : <<u, t>> \notin task[e].chosen
      <4>1. u \in Followers(team)
        BY <1>6, <2>1, <2>3, <3>2
      <4>2. <<u, team>> \in chosen
        BY <3>2, <4>1 DEF Choose
      <4> QED
        BY <1>5, <1>11, <3>2, <4>2
    <3>3. CASE i = first /\ \E t \in Team : <<u, t>> \in task[e].chosen
      <4>1. PICK t \in Team : <<u, t>> \in task[e].chosen
        BY <3>3
      <4>2. PICK j \in Asked(e) : t = TeamsOf[e][j]
        BY <1>2, <4>1 DEF ChosenInv
      <4> QED
        BY <1>5, <1>9, <1>11, <1>12, <3>3, <4>1, <4>2
    <3> QED
      BY <1>11, <3>1, <3>2, <3>3
  <2> QED
    BY <1>10, <2>2, <2>3 DEF ChosenInv
<1>15. NotesOf(e)' = {}
  BY <1>1, <1>2 DEF NotesOf
<1>16. next = "done" =>
         \A i \in DOMAIN TeamsOf[e], u \in User : <<u, TeamsOf[e][i]>> \notin steady'[e]
  <2>1. SUFFICES ASSUME next = "done", NEW i \in DOMAIN TeamsOf[e], NEW u \in User,
                        <<u, TeamsOf[e][i]>> \in steady'[e]
                 PROVE  FALSE
    OBVIOUS
  <2>2. chosen = {} /\ todo = {}
    BY <2>1
  <2>3. TeamsOf[e][i] \in Seeded
    BY <1>1, <2>1, Observed DEF ToldInv, HistoryOfPairs
  <2>4. i \in Asked(e)'
    BY <1>10, <2>2, <2>3, NamesFacts DEF Asked
  <2> QED
    BY <1>10, <1>14, <2>1, <2>2, <2>4 DEF ChosenInv
<1>17. EventInv(e)'
  BY <1>10, <1>13, <1>14, <1>15, <1>16 DEF EventInv, NotesInv
<1> QED
  BY <1>1, <1>10, <1>17, TaskMoves

(* The rows of an event are written, by a createMany that succeeds or whose answer is
   lost: one for every user chosen, and none of the event were there. *)
LEMMA RowsWritten ==
  ASSUME ToldInv, RowsInv', Observe, NEW e \in Event, task[e].pc = "write", Stored(e),
         NEW pc \in {"done", "failed"}, task' = [task EXCEPT ![e] = NoTask(pc)]
  PROVE  ToldInv'
<1>1. PICK at : notes' = notes \cup NotesFrom(e, at)
  BY DEF Stored
<1>2. TaskInv(e) /\ ChosenInv(e) /\ NotesOf(e) = {} /\ Running(e) /\ task[e] \in TaskRecord
  BY DEF ToldInv, EventInv, Types, Running
<1>3. task[e].chosen \subseteq User \X Seeded /\ task[e].todo = {}
  BY <1>2 DEF TaskRecord, TaskInv
<1>4. ever[e] \subseteq ever'[e] /\ steady'[e] \subseteq steady[e]
  BY <1>2, Observed DEF ToldInv
<1>5. Types'
  <2>1. NoTask(pc) \in TaskRecord
    BY DEF NoTask, TaskRecord, Places
  <2>2. \A n \in notes' : n.event \in Event
    BY <1>1 DEF ToldInv, Types, NotesFrom
  <2> QED
    BY <2>1, <2>2, Observed DEF ToldInv, Types
<1>6. \A q \in Event : q # e => EventInv(q)'
  <2>1. SUFFICES ASSUME NEW q \in Event, q # e PROVE EventInv(q)'
    OBVIOUS
  <2>2. NotesOf(q)' = NotesOf(q)
    BY <1>1, <2>1 DEF NotesOf, NotesFrom
  <2>3. task'[q] = task[q]
    BY <2>1 DEF ToldInv, Types
  <2> QED
    BY <2>2, <2>3, EventFrame
<1>7. NotesOf(e)' = NotesFrom(e, at)
  BY <1>1, <1>2 DEF NotesOf, NotesFrom
<1>8. ASSUME NEW n \in NotesOf(e)'
      PROVE  /\ <<n.user, n.team>> \in task[e].chosen
             /\ n = [event |-> e, user |-> n.user, team |-> n.team, at |-> at]
  BY <1>3, <1>7 DEF NotesFrom
<1>9. \A n \in NotesOf(e)' : n.team \in NamesOf(e) /\ <<n.user, n.team>> \in ever'[e]
  BY <1>2, <1>4, <1>8, NamesFacts DEF ChosenInv, Asked, NamesOf
<1>10. \A n, m \in NotesOf(e)' : n.user = m.user => n = m
  <2>1. SUFFICES ASSUME NEW n \in NotesOf(e)', NEW m \in NotesOf(e)', n.user = m.user
                 PROVE  n = m
    OBVIOUS
  <2>2. <<n.user, n.team>> = <<m.user, m.team>>
    BY <1>2, <1>8, <2>1 DEF TaskInv
  <2>3. n.team = m.team
    BY <2>2
  <2> QED
    BY <1>8, <2>1, <2>3
<1>11. ASSUME NEW i \in DOMAIN TeamsOf[e], NEW u \in User, <<u, TeamsOf[e][i]>> \in steady'[e]
       PROVE  \E n \in NotesOf(e)', j \in 1 .. i : n.user = u /\ n.team = TeamsOf[e][j]
  <2>1. TeamsOf[e][i] \in Seeded
    BY <1>5, <1>11 DEF Types, HistoryOfPairs
  <2>2. i \in Asked(e)
    BY <1>3, <2>1, NamesFacts DEF Asked
  <2>3. PICK j \in Asked(e) : j <= i /\ <<u, TeamsOf[e][j]>> \in task[e].chosen
    BY <1>2, <1>4, <1>11, <2>2 DEF ChosenInv
  <2>4. j \in 1 .. i
    BY <2>2, <2>3, NamesFacts DEF Asked
  <2>5. [event |-> e, user |-> u, team |-> TeamsOf[e][j], at |-> at] \in NotesOf(e)'
    BY <1>7, <2>3 DEF NotesFrom
  <2> QED
    BY <2>4, <2>5
<1>12. task'[e].pc = pc
  BY DEF ToldInv, Types, NoTask
<1>13. EventInv(e)'
  BY <1>9, <1>10, <1>11, <1>12 DEF EventInv, NotesInv
<1> QED
  BY <1>5, <1>6, <1>13 DEF ToldInv

(* A handler whose query failed is over, with its rows or without. *)
LEMMA HandlerFailsStep ==
  ASSUME ToldInv, RowsInv', NEW e \in Event, HandlerFails(e)
  PROVE  ToldInv'
<1>1. Running(e) /\ Observe /\ task' = [task EXCEPT ![e] = NoTask("failed")]
  BY DEF HandlerFails
<1>2. CASE task[e].pc = "write" /\ Stored(e)
  BY <1>1, <1>2, RowsWritten
<1>3. CASE UNCHANGED notes
  <2>1. NotesOf(e)' = {}
    BY <1>1, <1>3 DEF ToldInv, EventInv, Running, NotesOf
  <2>2. NoTask("failed") \in TaskRecord /\ task'[e].pc = "failed"
    BY <1>1 DEF ToldInv, Types, NoTask, TaskRecord, Places
  <2>3. EventInv(e)'
    BY <2>1, <2>2 DEF EventInv, NotesInv
  <2> QED
    BY <1>1, <1>3, <2>2, <2>3, TaskMoves
<1> QED
  BY <1>2, <1>3 DEF HandlerFails

(* A crash ends the tasks that run; none of them has written a row. *)
LEMMA CrashTasks ==
  ASSUME ToldInv, RowsInv', Crash
  PROVE  ToldInv'
<1>1. /\ Observe /\ UNCHANGED notes
      /\ task' = [e \in Event |-> IF Running(e) THEN NoTask("failed") ELSE task[e]]
  BY DEF Crash
<1>2. Types'
  <2>1. NoTask("failed") \in TaskRecord
    BY DEF NoTask, TaskRecord, Places
  <2> QED
    BY <1>1, <2>1, Observed DEF ToldInv, Types
<1>3. ASSUME NEW e \in Event PROVE EventInv(e)'
  <2>1. NotesOf(e)' = NotesOf(e)
    BY <1>1 DEF NotesOf
  <2>2. CASE Running(e)
    <3>1. NotesOf(e)' = {} /\ task'[e].pc = "failed"
      BY <1>1, <2>1, <2>2 DEF ToldInv, EventInv, Running, NoTask
    <3> QED
      BY <3>1 DEF EventInv, NotesInv
  <2>3. CASE ~Running(e)
    BY <1>1, <2>1, <2>3, EventFrame
  <2> QED
    BY <2>2, <2>3
<1> QED
  BY <1>2, <1>3 DEF ToldInv

(* Every step keeps what there is to know about events and their rows. *)
LEMMA ToldStep == FollowsInv /\ ToldInv /\ [Next]_vars => ToldInv'
<1> SUFFICES ASSUME FollowsInv, ToldInv, [Next]_vars PROVE ToldInv'
  OBVIOUS
<1>1. RowsInv'
  BY FollowsStep DEF FollowsInv
<1>2. CASE UNCHANGED vars
  BY <1>2 DEF vars, taskVars, ToldInv, Types, EventInv, TaskInv, ChosenInv, NotesInv, NotesOf, Asked
<1>3. CASE Observe /\ UNCHANGED taskVars
  BY <1>1, <1>3, TasksFrame DEF taskVars
<1>4. ASSUME NEW e \in Event, Emit(e) \/ Resolve(e) \/ ReadFollowers(e) \/ HandlerFails(e)
      PROVE  ToldInv'
  BY <1>1, <1>4, EmitStep, ResolveStep, ReadStep, HandlerFailsStep
<1>5. ASSUME NEW e \in Event, Write(e) PROVE ToldInv'
  BY <1>1, <1>5, RowsWritten DEF Write, FollowsKeep
<1>6. CASE Crash
  BY <1>1, <1>6, CrashTasks
<1> QED
  BY <1>2, <1>3, <1>4, <1>5, <1>6 DEF Next, TasksKeep, SignupMeetsFault

(* What the invariant says of single events gives what is promised of all. *)
LEMMA ToldInvSuffices == ToldInv => StrangersNotTold /\ OncePerUser /\ SteadyFollowersTold
<1> SUFFICES ASSUME ToldInv PROVE StrangersNotTold /\ OncePerUser /\ SteadyFollowersTold
  OBVIOUS
<1>1. \A n \in notes : n.event \in Event /\ n \in NotesOf(n.event)
  BY DEF ToldInv, Types, NotesOf
<1>2. \A e \in Event : NotesInv(e)
  BY DEF ToldInv, EventInv
<1>3. StrangersNotTold
  BY <1>1, <1>2 DEF NotesInv, StrangersNotTold
<1>4. OncePerUser
  BY <1>1, <1>2 DEF NotesInv, OncePerUser
<1>5. SteadyFollowersTold
  BY <1>2 DEF NotesInv, NotesOf, SteadyFollowersTold
<1> QED
  BY <1>3, <1>4, <1>5

(* The two invariants hold together. *)
LEMMA ToldAlways == Spec => [](FollowsInv /\ ToldInv)
<1>1. Init => FollowsInv /\ ToldInv
  BY FollowsStart, ToldStart
<1>2. FollowsInv /\ ToldInv /\ [Next]_vars => (FollowsInv /\ ToldInv)'
  BY FollowsStep, ToldStep
<1> QED
  BY <1>1, <1>2, PTL DEF Spec

(* Only those are told who followed, since the event, a team that it names. *)
THEOREM FollowersOnly == Spec => []StrangersNotTold
  BY ToldAlways, ToldInvSuffices, PTL

(* Nobody is told twice of an event, whichever of its teams were followed when. *)
THEOREM ToldOnce == Spec => []OncePerUser
  BY ToldAlways, ToldInvSuffices, PTL

(* Nobody is left out who followed one of the teams all the while. *)
THEOREM SteadyTold == Spec => []SteadyFollowersTold
  BY ToldAlways, ToldInvSuffices, PTL
-----------------------------------------------------------------------------
(* Types *)

Creating == {q \in Request : req[q].pc = "create"}

(* Every request that is to create a row has a row's room left, and the ids a request
   remembers are ids of rows. *)
RoomInv ==
  /\ nextId # 0 /\ nextId + Cardinality(Creating) <= MaxRows + 1
  /\ \A f \in followed : f.id # 0
  /\ \A r \in Request : req[r].pc # "delete" => req[r].row = 0

Ended == {e \in Event : task[e].pc \in {"done", "failed"}}

LastIs(last) ==
  /\ \A n \in notes : n.at <= last
  /\ last # 0 => \E n \in notes : n.at = last

(* The clock of createdAt ticks at most once for a task, at its end; and a task asks
   for seeded teams only. *)
ClockInv ==
  /\ notes \subseteq [event : Event, user : User, team : Seeded, at : Nat \ {0}]
  /\ \E last \in 0 .. Cardinality(Ended) : LastIs(last)
  /\ \A e \in Event : task[e].todo \subseteq Resolved(TeamsOf[e])

CountsInv ==
  /\ dbFaults \in 0 .. MaxDbFaults
  /\ crashes \in 0 .. MaxCrashes

(* There is room for every row, and nothing has been counted. *)
LEMMA RoomStart == Init => RoomInv /\ CountsInv
<1> SUFFICES ASSUME Init PROVE RoomInv /\ CountsInv
  OBVIOUS
<1>1. Creating = {}
  BY DEF Init, FollowsInit, NoRequest, Creating
<1>2. RoomInv
  BY <1>1, FS_EmptySet, FollowsAssumption DEF RoomInv, Init, FollowsInit, NoRequest
<1>3. CountsInv
  BY FollowsAssumption, EventAssumption DEF CountsInv, Init, FollowsInit
<1> QED
  BY <1>2, <1>3

(* No row has been written. *)
LEMMA ClockStart == Init => ClockInv
<1> SUFFICES ASSUME Init PROVE ClockInv
  OBVIOUS
<1>1. Ended = {}
  BY DEF Init, NoTask, Ended
<1>2. 0 \in 0 .. Cardinality(Ended) /\ LastIs(0)
  BY <1>1, FS_EmptySet DEF LastIs, Init
<1> QED
  BY <1>2 DEF ClockInv, Init, NoTask

(* A request is answered: it no longer needs room. *)
LEMMA AnswerMakesRoom ==
  ASSUME IsFiniteSet(Request), RequestsInv, NEW r \in Request, Answer(r)
  PROVE  /\ Cardinality(Creating) \in Nat /\ Cardinality(Creating') \in Nat
         /\ Cardinality(Creating') =
              IF req[r].pc = "create" THEN Cardinality(Creating) - 1 ELSE Cardinality(Creating)
         /\ \A q \in Request : req'[q] = IF q = r THEN NoRequest ELSE req[q]
<1>1. \A q \in Request : req'[q] = IF q = r THEN NoRequest ELSE req[q]
  BY DEF RequestsInv, Answer
<1>2. Creating' = Creating \ {r}
  BY <1>1 DEF Creating, NoRequest
<1>3. IsFiniteSet(Creating)
  BY FS_Subset DEF Creating
<1>4. r \in Creating <=> req[r].pc = "create"
  BY DEF Creating
<1> QED
  BY <1>1, <1>2, <1>3, <1>4, FS_RemoveElement, FS_CardinalityType

(* A step that gives no id and answers a request, or leaves requests alone. *)
LEMMA RoomFrame ==
  ASSUME IsFiniteSet(Request), FollowsInv, RoomInv, nextId' = nextId,
         followed' \subseteq followed,
         UNCHANGED req \/ \E r \in Request : Answer(r)
  PROVE  RoomInv'
<1>1. CASE UNCHANGED req
  BY <1>1 DEF RoomInv, Creating
<1>2. ASSUME NEW r \in Request, Answer(r) PROVE RoomInv'
  <2>1. /\ nextId \in Nat /\ MaxRows \in Nat
        /\ Cardinality(Creating') <= Cardinality(Creating)
        /\ Cardinality(Creating) \in Nat /\ Cardinality(Creating') \in Nat
    BY <1>2, AnswerMakesRoom, FollowsAssumption DEF FollowsInv, RowsInv
  <2>2. nextId' + Cardinality(Creating') <= MaxRows + 1
    BY <2>1 DEF RoomInv
  <2>3. \A q \in Request : req'[q].pc # "delete" => req'[q].row = 0
    BY <1>2, AnswerMakesRoom DEF RoomInv, FollowsInv, NoRequest
  <2> QED
    BY <2>2, <2>3 DEF RoomInv
<1> QED
  BY <1>1, <1>2

(* A row is created: it uses the room its request had. *)
LEMMA RoomUsed ==
  ASSUME IsFiniteSet(Request), FollowsInv, RoomInv, NEW r \in Request, req[r].pc = "create",
         Answer(r), nextId' = nextId + 1,
         followed' = followed \cup
           {[id |-> nextId, user |-> req[r].user, team |-> req[r].team]}
  PROVE  RoomInv'
<1>1. /\ nextId \in Nat /\ MaxRows \in Nat
      /\ Cardinality(Creating') = Cardinality(Creating) - 1
      /\ Cardinality(Creating) \in Nat /\ Cardinality(Creating') \in Nat
  BY AnswerMakesRoom, FollowsAssumption DEF FollowsInv, RowsInv
<1>2. nextId' # 0 /\ nextId' + Cardinality(Creating') <= MaxRows + 1
  BY <1>1 DEF RoomInv
<1>3. \A q \in Request : req'[q].pc # "delete" => req'[q].row = 0
  BY AnswerMakesRoom DEF RoomInv, FollowsInv, NoRequest
<1>4. \A f \in followed' : f.id # 0
  BY DEF RoomInv
<1> QED
  BY <1>2, <1>3, <1>4 DEF RoomInv

(* A follow starts only when there is room for its row. *)
LEMMA RoomTaken ==
  ASSUME IsFiniteSet(Request), FollowsInv, RoomInv, NEW r \in Request, NEW user \in User,
         NEW team \in Team, FindTeam(r, user, team)
  PROVE  RoomInv'
<1>1. nextId' = nextId /\ followed' = followed /\ RoomForRow /\ req[r].pc = "idle"
  BY DEF FindTeam
<1>2. CASE Answer(r)
  BY <1>1, <1>2, RoomFrame
<1>3. CASE Await(r, "create", user, team, 0)
  <2>1. \A q \in Request :
          req'[q] = IF q = r THEN [pc |-> "create", user |-> user, team |-> team, row |-> 0]
                    ELSE req[q]
    BY <1>3 DEF Await, FollowsInv, RequestsInv
  <2>2. Creating' = Creating \cup {r} /\ r \notin Creating
    BY <1>1, <2>1 DEF Creating
  <2>3. IsFiniteSet(Creating)
    BY FS_Subset DEF Creating
  <2>4. Cardinality(Creating') = Cardinality(Creating) + 1 /\ Cardinality(Creating) \in Nat
    BY <2>2, <2>3, FS_AddElement, FS_CardinalityType
  <2>5. nextId + Cardinality(Creating) <= MaxRows
    BY <1>1 DEF RoomForRow, Creating
  <2>6. nextId' + Cardinality(Creating') <= MaxRows + 1
    BY <1>1, <2>4, <2>5, FollowsAssumption DEF FollowsInv, RowsInv
  <2>7. \A q \in Request : req'[q].pc # "delete" => req'[q].row = 0
    BY <2>1 DEF RoomInv
  <2> QED
    BY <1>1, <2>6, <2>7 DEF RoomInv
<1> QED
  BY <1>2, <1>3 DEF FindTeam

(* An unfollow reads the id of a row and needs no room. *)
LEMMA RoomKept ==
  ASSUME IsFiniteSet(Request), FollowsInv, RoomInv, NEW r \in Request, NEW user \in User,
         NEW team \in Team, FindFollow(r, user, team)
  PROVE  RoomInv'
<1>1. nextId' = nextId /\ followed' = followed /\ req[r].pc = "idle"
  BY DEF FindFollow
<1>2. CASE Answer(r)
  BY <1>1, <1>2, RoomFrame
<1>3. ASSUME NEW f \in RowsOf(user, team), Await(r, "delete", user, team, f.id)
      PROVE  RoomInv'
  <2>1. \A q \in Request :
          req'[q] = IF q = r THEN [pc |-> "delete", user |-> user, team |-> team, row |-> f.id]
                    ELSE req[q]
    BY <1>3 DEF Await, FollowsInv, RequestsInv
  <2>2. Creating' = Creating
    BY <1>1, <2>1 DEF Creating
  <2>3. \A q \in Request : req'[q].pc # "delete" => req'[q].row = 0
    BY <2>1 DEF RoomInv
  <2> QED
    BY <1>1, <2>2, <2>3 DEF RoomInv
<1> QED
  BY <1>2, <1>3 DEF FindFollow

(* Every step leaves room for the rows that are on the way. *)
LEMMA RoomStep ==
  IsFiniteSet(Request) /\ FollowsInv /\ RoomInv /\ [Next]_vars => RoomInv'
<1> SUFFICES ASSUME IsFiniteSet(Request), FollowsInv, RoomInv, [Next]_vars PROVE RoomInv'
  OBVIOUS
<1>1. CASE UNCHANGED followsVars
  BY <1>1, RoomFrame DEF followsVars
<1>2. CASE (\E e \in Event : HandlerFails(e)) \/ \E u \in User : SignupMeetsFault(u)
  BY <1>2, RoomFrame DEF HandlerFails, SignupMeetsFault
<1>3. CASE Crash
  <2>1. nextId' = nextId /\ followed' = followed /\ req' = [r \in Request |-> NoRequest]
    BY <1>3 DEF Crash
  <2>2. Creating' = {}
    BY <2>1 DEF Creating, NoRequest
  <2>3. Cardinality(Creating) \in Nat /\ Cardinality(Creating') = 0
    BY <2>2, FS_EmptySet, FS_Subset, FS_CardinalityType DEF Creating
  <2>4. nextId' + Cardinality(Creating') <= MaxRows + 1
    BY <2>1, <2>3, FollowsAssumption DEF RoomInv, FollowsInv, RowsInv
  <2> QED
    BY <2>1, <2>4 DEF RoomInv, NoRequest
<1>4. ASSUME NEW r \in Request, NEW user \in User, NEW team \in Team,
             FindTeam(r, user, team) \/ FindFollow(r, user, team)
      PROVE  RoomInv'
  BY <1>4, RoomTaken, RoomKept
<1>5. ASSUME NEW r \in Request, CreateFollow(r) PROVE RoomInv'
  BY <1>5, RoomFrame, RoomUsed DEF CreateFollow
<1>6. ASSUME NEW r \in Request, DeleteFollow(r) PROVE RoomInv'
  BY <1>6, RoomFrame DEF DeleteFollow
<1>7. ASSUME NEW r \in Request, QueryFails(r) PROVE RoomInv'
  BY <1>7, RoomFrame, RoomUsed DEF QueryFails
<1>8. ASSUME NEW e \in Event, Emit(e) \/ Resolve(e) \/ ReadFollowers(e) \/ Write(e)
      PROVE  UNCHANGED followsVars
  BY <1>8 DEF Emit, Resolve, ReadFollowers, Write, FollowsKeep
<1> QED
  BY <1>1, <1>2, <1>3, <1>4, <1>5, <1>6, <1>7, <1>8 DEF Next, vars

(* What createMany takes for the latest createdAt is the latest one. *)
LEMMA LatestRow ==
  ASSUME ClockInv, NEW last \in Nat, LastIs(last)
  PROVE  Max({0} \cup {n.at : n \in notes}) = last
<1> DEFINE S == {0} \cup {n.at : n \in notes}
<1>1. \A x \in S : x \in Nat /\ x <= last
  BY DEF ClockInv, LastIs
<1>2. last \in S
  BY DEF LastIs
<1>3. \A x \in S : (\A y \in S : x >= y) => x = last
  BY <1>1, <1>2
<1>4. \E x \in S : \A y \in S : x >= y
  BY <1>1, <1>2
<1> HIDE DEF S
<1>5. Max(S) \in S /\ \A y \in S : Max(S) >= y
  BY <1>4 DEF Max
<1>6. Max(S) = last
  BY <1>3, <1>5
<1> QED
  BY <1>6 DEF S

(* Rows are written by a task that ends with them. *)
LEMMA ClockTicks ==
  ASSUME IsFiniteSet(Event), Types, ClockInv, NEW e \in Event, task[e].pc = "write", Stored(e),
         NEW pc \in {"done", "failed"}, task' = [task EXCEPT ![e] = NoTask(pc)]
  PROVE  ClockInv'
<1>1. PICK last \in 0 .. Cardinality(Ended) : LastIs(last)
  BY DEF ClockInv
<1>2. IsFiniteSet(Ended)
  BY FS_Subset DEF Ended
<1>3. \A q \in Event : task'[q] = IF q = e THEN NoTask(pc) ELSE task[q]
  BY DEF Types
<1>4. Ended' = Ended \cup {e} /\ e \notin Ended
  BY <1>3 DEF Ended, NoTask
<1>5. Cardinality(Ended') = Cardinality(Ended) + 1 /\ Cardinality(Ended) \in Nat
  BY <1>2, <1>4, FS_AddElement, FS_CardinalityType
<1>6. last \in Nat /\ last <= Cardinality(Ended)
  BY <1>1, <1>5
<1>7. PICK at \in {last, last + 1} \ {0} : notes' = notes \cup NotesFrom(e, at)
  BY <1>1, <1>6, LatestRow DEF Stored
<1>8. at \in Nat \ {0} /\ last <= at /\ at <= Cardinality(Ended')
  BY <1>5, <1>6, <1>7
<1>9. NotesFrom(e, at) \subseteq [event : Event, user : User, team : Seeded, at : Nat \ {0}]
  BY <1>8 DEF Types, TaskRecord, NotesFrom
<1>10. \A n \in NotesFrom(e, at) : n.at = at
  BY DEF NotesFrom
<1>11. \E new \in 0 .. Cardinality(Ended') : LastIs(new)'
  <2>1. CASE NotesFrom(e, at) = {}
    <3>1. LastIs(last)'
      BY <1>1, <1>7, <2>1 DEF LastIs
    <3> QED
      BY <1>5, <1>6, <3>1
  <2>2. CASE NotesFrom(e, at) # {}
    <3>1. \A n \in notes : n.at \in Nat /\ n.at <= last
      BY <1>1 DEF ClockInv, LastIs
    <3>2. \A n \in notes' : n.at <= at
      BY <1>6, <1>7, <1>8, <1>10, <3>1
    <3>3. \E n \in notes' : n.at = at
      BY <1>7, <1>10, <2>2
    <3>4. LastIs(at)'
      BY <3>2, <3>3 DEF LastIs
    <3> QED
      BY <1>5, <1>8, <3>4
  <2> QED
    BY <2>1, <2>2
<1>12. \A q \in Event : task'[q].todo \subseteq Resolved(TeamsOf[q])
  BY <1>3 DEF ClockInv, NoTask
<1>13. notes' \subseteq [event : Event, user : User, team : Seeded, at : Nat \ {0}]
  BY <1>7, <1>9 DEF ClockInv
<1> QED
  BY <1>11, <1>12, <1>13 DEF ClockInv

(* A step that writes no row leaves the clock alone, and no task comes back. *)
LEMMA ClockFrame ==
  ASSUME IsFiniteSet(Event), ClockInv, UNCHANGED notes, Ended \subseteq Ended',
         \A e \in Event : task'[e].todo \subseteq Resolved(TeamsOf[e])
  PROVE  ClockInv'
<1>1. PICK last \in 0 .. Cardinality(Ended) : LastIs(last)
  BY DEF ClockInv
<1>2. IsFiniteSet(Ended') /\ IsFiniteSet(Ended)
  BY FS_Subset DEF Ended
<1>3. /\ Cardinality(Ended) <= Cardinality(Ended')
      /\ Cardinality(Ended) \in Nat /\ Cardinality(Ended') \in Nat
  BY <1>2, FS_Subset, FS_CardinalityType
<1>4. last \in 0 .. Cardinality(Ended') /\ LastIs(last)'
  BY <1>1, <1>3 DEF LastIs
<1> QED
  BY <1>4 DEF ClockInv

(* Every step keeps the rows typed and their createdAt below the tasks' number. *)
LEMMA ClockStep ==
  IsFiniteSet(Event) /\ Types /\ ClockInv /\ [Next]_vars => ClockInv'
<1> SUFFICES ASSUME IsFiniteSet(Event), Types, ClockInv, [Next]_vars PROVE ClockInv'
  OBVIOUS
<1>1. CASE UNCHANGED taskVars
  BY <1>1, ClockFrame DEF taskVars, ClockInv, Ended
<1>2. ASSUME NEW e \in Event, NEW t, task' = [task EXCEPT ![e] = t], UNCHANGED notes,
             t.todo \subseteq Resolved(TeamsOf[e]), task[e].pc \notin {"done", "failed"}
      PROVE  ClockInv'
  <2>1. \A q \in Event : task'[q] = IF q = e THEN t ELSE task[q]
    BY <1>2 DEF Types
  <2>2. Ended \subseteq Ended'
    BY <1>2, <2>1 DEF Ended
  <2>3. \A q \in Event : task'[q].todo \subseteq Resolved(TeamsOf[q])
    BY <1>2, <2>1 DEF ClockInv
  <2> QED
    BY <1>2, <2>2, <2>3, ClockFrame
<1>3. ASSUME NEW e \in Event, Emit(e) PROVE ClockInv'
  <2>1. NoTask("resolve").todo \subseteq Resolved(TeamsOf[e])
    BY DEF NoTask
  <2> QED
    BY <1>2, <1>3, <2>1 DEF Emit
<1>4. ASSUME NEW e \in Event, Resolve(e) PROVE ClockInv'
  <2>1. NoTask("done").todo \subseteq Resolved(TeamsOf[e])
    BY DEF NoTask
  <2> QED
    BY <1>2, <1>4, <2>1 DEF Resolve
<1>5. ASSUME NEW e \in Event, ReadFollowers(e) PROVE ClockInv'
  <2>1. task[e].todo \subseteq Resolved(TeamsOf[e])
    BY DEF ClockInv
  <2> QED
    BY <1>2, <1>5, <2>1 DEF ReadFollowers
<1>6. ASSUME NEW e \in Event, Write(e) PROVE ClockInv'
  BY <1>6, ClockTicks DEF Write
<1>7. ASSUME NEW e \in Event, HandlerFails(e) PROVE ClockInv'
  <2>1. task' = [task EXCEPT ![e] = NoTask("failed")] /\ Running(e)
    BY <1>7 DEF HandlerFails
  <2>2. CASE task[e].pc = "write" /\ Stored(e)
    BY <2>1, <2>2, ClockTicks
  <2>3. CASE UNCHANGED notes
    BY <1>2, <2>1, <2>3 DEF NoTask, Running
  <2> QED
    BY <1>7, <2>2, <2>3 DEF HandlerFails
<1>8. CASE Crash
  <2>1. UNCHANGED notes /\ \A e \in Event :
          task'[e] = IF Running(e) THEN NoTask("failed") ELSE task[e]
    BY <1>8 DEF Crash
  <2>2. Ended \subseteq Ended'
    BY <2>1 DEF Ended, NoTask
  <2>3. \A e \in Event : task'[e].todo \subseteq Resolved(TeamsOf[e])
    BY <2>1 DEF ClockInv, NoTask
  <2> QED
    BY <2>1, <2>2, <2>3, ClockFrame
<1> QED
  BY <1>1, <1>3, <1>4, <1>5, <1>6, <1>7, <1>8 DEF Next, vars, TasksKeep, SignupMeetsFault

(* No more queries and processes fail than are allowed to. *)
LEMMA CountsStep == CountsInv /\ [Next]_vars => CountsInv'
<1> SUFFICES ASSUME CountsInv, [Next]_vars PROVE CountsInv'
  OBVIOUS
<1>1. CASE UNCHANGED <<dbFaults, crashes>>
  BY <1>1 DEF CountsInv
<1>2. CASE dbFaults < MaxDbFaults /\ dbFaults' = dbFaults + 1 /\ UNCHANGED crashes
  BY <1>2, FollowsAssumption DEF CountsInv
<1>3. CASE Crash
  BY <1>3, EventAssumption DEF CountsInv, Crash
<1>4. ASSUME NEW e \in Event,
             Emit(e) \/ Resolve(e) \/ ReadFollowers(e) \/ Write(e) \/ HandlerFails(e)
      PROVE  CountsInv'
  BY <1>1, <1>2, <1>4
  DEF Emit, Resolve, ReadFollowers, Write, HandlerFails, FollowsKeep, followsVars
<1>5. ASSUME NEW r \in Request, NEW user \in User, NEW team \in Team,
             FindTeam(r, user, team) \/ FindFollow(r, user, team), TasksKeep
      PROVE  CountsInv'
  BY <1>1, <1>5 DEF FindTeam, FindFollow, TasksKeep, taskVars
<1>6. ASSUME NEW r \in Request, CreateFollow(r) \/ DeleteFollow(r) \/ QueryFails(r), TasksKeep
      PROVE  CountsInv'
  BY <1>1, <1>2, <1>6 DEF CreateFollow, DeleteFollow, QueryFails, TasksKeep, taskVars
<1>7. CASE UNCHANGED vars \/ UNCHANGED <<followsVars, taskVars>>
  BY <1>1, <1>7 DEF vars, followsVars, taskVars
<1>8. ASSUME NEW u \in User, SignupMeetsFault(u) PROVE CountsInv'
  BY <1>2, <1>8 DEF SignupMeetsFault, taskVars
<1> QED
  BY <1>3, <1>4, <1>5, <1>6, <1>7, <1>8 DEF Next

(* Together they are what the type invariant says. *)
LEMMA TypesFollow ==
  ASSUME IsFiniteSet(Request), IsFiniteSet(Event), FollowsInv, ToldInv, RoomInv, ClockInv,
         CountsInv
  PROVE  TypeOK
<1>1. Cardinality(Creating) \in Nat /\ MaxRows \in Nat /\ nextId \in Nat
  BY FS_Subset, FS_CardinalityType, FollowsAssumption DEF Creating, FollowsInv, RowsInv
<1>2. nextId \in 1 .. MaxRows + 1
  BY <1>1 DEF RoomInv
<1>3. followed \subseteq [id : 1 .. MaxRows, user : User, team : Seeded]
  <2>1. SUFFICES ASSUME NEW f \in followed
                 PROVE  f \in [id : 1 .. MaxRows, user : User, team : Seeded]
    OBVIOUS
  <2>2. f \in [id : Nat, user : User, team : Seeded] /\ f.id < nextId /\ f.id # 0
    BY DEF FollowsInv, RowsInv, RoomInv
  <2>3. f.id \in 1 .. MaxRows
    BY <1>1, <1>2, <2>2
  <2> QED
    BY <2>2, <2>3
<1>4. req \in [Request -> [pc : {"idle", "create", "delete"}, user : User \cup {Nobody},
                           team : Team \cup {Nobody}, row : 0 .. MaxRows]]
  <2>1. SUFFICES ASSUME NEW r \in Request
                 PROVE  req[r] \in [pc : {"idle", "create", "delete"}, user : User \cup {Nobody},
                                    team : Team \cup {Nobody}, row : 0 .. MaxRows]
    BY DEF FollowsInv, RequestsInv
  <2>2. req[r] \in RequestRecord
    BY DEF FollowsInv, RequestsInv
  <2>3. req[r].row \in Nat /\ (req[r].row = 0 \/ req[r].row < nextId)
    BY <2>2 DEF FollowsInv, RequestsInv, RoomInv, RequestRecord
  <2>4. req[r].row \in 0 .. MaxRows
    BY <1>1, <1>2, <2>3
  <2> QED
    BY <2>2, <2>4 DEF RequestRecord
<1>5. FollowsTypeOK
  BY <1>2, <1>3, <1>4 DEF FollowsTypeOK, FollowsInv, BalanceInv, CountsInv
<1>6. task \in [Event -> [pc : {"none", "resolve", "read", "write", "done", "failed"},
                          todo : SUBSET (1 .. 2), chosen : SUBSET (User \X Seeded)]]
  BY DEF ToldInv, Types, TaskRecord, Places
<1>7. \A e \in Event : \A i \in task[e].todo : TeamsOf[e][i] \in Seeded
  BY DEF ClockInv, Resolved
<1>8. notes \subseteq [event : Event, user : User, team : Seeded, at : 1 .. Cardinality(Event)]
  <2>1. PICK last \in 0 .. Cardinality(Ended) : LastIs(last)
    BY DEF ClockInv
  <2>2. /\ Cardinality(Ended) <= Cardinality(Event)
        /\ Cardinality(Ended) \in Nat /\ Cardinality(Event) \in Nat
    BY FS_Subset, FS_CardinalityType DEF Ended
  <2>3. SUFFICES ASSUME NEW n \in notes
                 PROVE  n \in [event : Event, user : User, team : Seeded,
                               at : 1 .. Cardinality(Event)]
    OBVIOUS
  <2>4. n \in [event : Event, user : User, team : Seeded, at : Nat \ {0}] /\ n.at <= last
    BY <2>1 DEF ClockInv, LastIs
  <2>5. n.at \in 1 .. Cardinality(Event)
    BY <2>1, <2>2, <2>4
  <2> QED
    BY <2>4, <2>5
<1> QED
  BY <1>5, <1>6, <1>7, <1>8 DEF TypeOK, CountsInv

(* Rows, requests, tasks and notifications keep their types, bounds included: no row is
   created without room, and no two ticks of createdAt come from one event. *)
THEOREM NotesTyped ==
  ASSUME IsFiniteSet(Request), IsFiniteSet(Event)
  PROVE  Spec => []TypeOK
<1> DEFINE Inv == FollowsInv /\ ToldInv /\ RoomInv /\ ClockInv /\ CountsInv
<1>1. Init => Inv
  BY FollowsStart, ToldStart, RoomStart, ClockStart
<1>2. Inv /\ [Next]_vars => Inv'
  BY FollowsStep, ToldStep, RoomStep, ClockStep, CountsStep DEF ToldInv
<1>3. Inv => TypeOK
  BY TypesFollow
<1> HIDE DEF Inv
<1> QED
  BY <1>1, <1>2, <1>3, PTL DEF Spec
-----------------------------------------------------------------------------
(* The feed *)

(* Induction on the naturals, for a set in the place of a predicate. *)
LEMMA SetInduction ==
  ASSUME NEW S, 0 \in S, \A n \in Nat : n \in S => n + 1 \in S
  PROVE  Nat \subseteq S
<1> DEFINE T == Nat \ S
           R == OpToRel(<, Nat)
<1>1. SUFFICES ASSUME T # {} PROVE FALSE
  OBVIOUS
<1>2. \A x, y \in Nat : y < x => <<y, x>> \in R
  BY DEF OpToRel
<1>3. IsWellFoundedOn(R, Nat)
  BY NatLessThanWellFounded
<1> HIDE DEF R
<1>4. T \subseteq Nat
  OBVIOUS
<1> HIDE DEF T
<1>5. PICK x \in T : \A y \in T : ~(<<y, x>> \in R)
  BY <1>1, <1>3, <1>4, WFMin
<1> USE DEF T
<1>6. x # 0 /\ x \in Nat
  OBVIOUS
<1>7. x - 1 \in Nat /\ x - 1 < x /\ (x - 1) + 1 = x
  BY <1>6
<1>8. x - 1 \in T
  BY <1>7
<1> QED
  BY <1>2, <1>5, <1>6, <1>7, <1>8

(* A set of naturals that is not empty has a least element, which is its Min. *)
LEMMA LeastOf ==
  ASSUME NEW T \in SUBSET Nat, T # {}
  PROVE  Min(T) \in T /\ \A y \in T : Min(T) <= y
<1> DEFINE R == OpToRel(<, Nat)
<1>1. \A x, y \in Nat : y < x => <<y, x>> \in R
  BY DEF OpToRel
<1>2. IsWellFoundedOn(R, Nat)
  BY NatLessThanWellFounded
<1> HIDE DEF R
<1>3. PICK x \in T : \A y \in T : ~(<<y, x>> \in R)
  BY <1>2, WFMin
<1>4. ASSUME NEW y \in T PROVE x <= y
  <2>1. x \in Nat /\ y \in Nat
    OBVIOUS
  <2>2. ~(y < x)
    BY <1>1, <1>3, <2>1
  <2> QED
    BY <2>1, <2>2
<1> QED
  BY <1>4 DEF Min

(* One that has an upper bound has a greatest, which is its Max. *)
LEMMA GreatestOf ==
  ASSUME NEW T \in SUBSET Nat, T # {}, NEW b \in Nat, \A y \in T : y <= b
  PROVE  Max(T) \in T /\ \A y \in T : Max(T) >= y
<1> DEFINE U == {x \in Nat : \A y \in T : y <= x}
<1>1. PICK x : x = Min(U)
  OBVIOUS
<1>2. x \in U /\ \A y \in U : x <= y
  BY <1>1, LeastOf
<1>3. x \in T
  <2>1. SUFFICES ASSUME x \notin T PROVE FALSE
    OBVIOUS
  <2>2. x \in Nat /\ \A y \in T : y \in Nat /\ y < x
    BY <1>2, <2>1
  <2>3. PICK y \in T : y \in Nat /\ y < x
    BY <2>2
  <2>4. x - 1 \in Nat /\ \A z \in T : z <= x - 1
    BY <2>2, <2>3
  <2>5. x - 1 \in U
    BY <2>4
  <2> QED
    BY <1>2, <2>2, <2>5
<1>4. \A y \in T : x >= y
  BY <1>2
<1> QED
  BY <1>3, <1>4 DEF Max

(* A page: the newest of what is older than the cursor, all of it or as many rows as fit. *)
LEMMA PageFacts ==
  ASSUME NEW rows, IsFiniteSet(rows), \A n \in rows : n.at \in Nat,
         NEW limit \in Nat \ {0}, NEW cursor \in Nat, NEW page \in PagesBefore(rows, cursor, limit)
  PROVE  /\ page \in SUBSET rows
         /\ \A n \in page : n.at < cursor
         /\ \A n \in page, m \in rows : m.at < cursor => m \in page \/ n.at >= m.at
         /\ Cardinality(page) # limit => \A n \in rows : n.at < cursor => n \in page
<1> DEFINE older == Before(rows, cursor)
           size == IF Cardinality(older) < limit THEN Cardinality(older) ELSE limit
<1>1. older \in SUBSET rows /\ \A n \in rows : n \in older <=> n.at < cursor
  BY DEF Before
<1>2. page \in SUBSET older /\ Cardinality(page) = size /\ \A n \in page, m \in older \ page : n.at >= m.at
  BY DEF PagesBefore, kSubset
<1>3. IsFiniteSet(older)
  BY <1>1, FS_Subset
<1> HIDE DEF older
<1>4. Cardinality(page) # limit => page = older
  BY <1>2, <1>3, FS_Subset
<1> QED
  BY <1>1, <1>2, <1>4

(* The cursor is the createdAt of a full page's last row. *)
LEMMA CursorFacts ==
  ASSUME NEW page, \A n \in page : n.at \in Nat, NEW limit \in Nat \ {0},
         NEW cursor \in NextCursor(page, limit)
  PROVE  /\ Cardinality(page) = limit /\ cursor \in Nat
         /\ \A n \in page : n.at >= cursor
         /\ \E n \in page : n.at = cursor
<1> DEFINE ats == {n.at : n \in page}
<1>1. Cardinality(page) = limit /\ cursor = Min(ats)
  BY DEF NextCursor
<1>2. page # {}
  BY <1>1, FS_EmptySet
<1>3. ats \in SUBSET Nat /\ ats # {}
  BY <1>2
<1>4. PICK least : least = Min(ats)
  OBVIOUS
<1> HIDE DEF ats
<1>5. least \in ats /\ \A x \in ats : least <= x
  BY <1>3, <1>4, LeastOf
<1> QED
  BY <1>1, <1>3, <1>4, <1>5 DEF ats

(* A walk of k pages over rows, and the cursors it asked with. *)
IsWalk(rows, limit, k, pages, cursors) ==
  /\ cursors \in [1 .. k -> Nat]
  /\ \A n \in rows : n.at < cursors[1]
  /\ \A i \in 1 .. k :
       /\ pages[i] \in SUBSET rows
       /\ \A n \in pages[i] : n.at < cursors[i]
       /\ \A n \in pages[i], m \in rows : m.at < cursors[i] => m \in pages[i] \/ n.at >= m.at
       /\ Cardinality(pages[i]) # limit => \A n \in rows : n.at < cursors[i] => n \in pages[i]
  /\ \A i \in 1 .. k - 1 :
       /\ \A n \in pages[i] : n.at >= cursors[i + 1]
       /\ \E n \in pages[i] : n.at = cursors[i + 1]

(* What the reader of the feed gets is a walk, which ends with a page that is not full
   or after more pages than there are rows. *)
LEMMA WalkFacts ==
  ASSUME NEW rows, IsFiniteSet(rows), \A n \in rows : n.at \in Nat,
         NEW bound \in Nat, \A n \in rows : n.at <= bound,
         NEW limit \in Nat \ {0}, NEW pages \in Walks(rows, limit)
  PROVE  \E k \in Nat \ {0} : \E cursors :
           /\ DOMAIN pages = 1 .. k
           /\ IsWalk(rows, limit, k, pages, cursors)
           /\ Cardinality(pages[k]) # limit \/ k = Cardinality(rows) + 1
<1> DEFINE ats == {n.at : n \in rows}
           newest == IF ats = {} THEN 0 ELSE Max(ats) + 1
           most == Cardinality(rows) + 1
           Page == {page \in SUBSET rows : Cardinality(page) <= limit}
<1>1. PICK k \in 1 .. most :
        /\ pages \in [1 .. k -> Page]
        /\ pages[1] \in PagesBefore(rows, newest, limit)
        /\ \A i \in 1 .. k - 1 : \E c \in NextCursor(pages[i], limit) :
             pages[i + 1] \in PagesBefore(rows, c, limit)
        /\ NextCursor(pages[k], limit) = {} \/ k = most
  BY DEF Walks
<1>2. most \in Nat /\ k \in Nat \ {0}
  BY FS_CardinalityType
<1>3. newest \in Nat /\ \A n \in rows : n.at < newest
  <2>1. CASE ats = {}
    BY <2>1
  <2>2. CASE ats # {}
    <3>1. ats \in SUBSET Nat /\ \A x \in ats : x <= bound
      OBVIOUS
    <3>2. PICK top : top = Max(ats)
      OBVIOUS
    <3> HIDE DEF ats
    <3>3. top \in ats /\ \A x \in ats : top >= x
      BY <2>2, <3>1, <3>2, GreatestOf
    <3>4. newest = top + 1
      BY <2>2, <3>2
    <3> HIDE DEF newest
    <3>5. top \in Nat /\ newest \in Nat /\ \A x \in ats : x < newest
      BY <3>1, <3>3, <3>4
    <3> QED
      BY <3>5 DEF ats
  <2> QED
    BY <2>1, <2>2
<1>4. PICK first : first = newest
  OBVIOUS
<1> DEFINE CursorOf(i) == IF i = 1 THEN first ELSE CHOOSE c \in NextCursor(pages[i - 1], limit) :
                                                   pages[i] \in PagesBefore(rows, c, limit)
<1>5. ASSUME NEW i \in 2 .. k
      PROVE  /\ CursorOf(i) \in NextCursor(pages[i - 1], limit)
             /\ pages[i] \in PagesBefore(rows, CursorOf(i), limit)
  <2>1. i - 1 \in 1 .. k - 1 /\ (i - 1) + 1 = i /\ i # 1
    BY <1>2
  <2>2. \E c \in NextCursor(pages[i - 1], limit) : pages[i] \in PagesBefore(rows, c, limit)
    BY <1>1, <2>1
  <2> QED
    BY <2>1, <2>2
<1>6. \A i \in 1 .. k : pages[i] \in SUBSET rows
  BY <1>1
<1>7. ASSUME NEW i \in 1 .. k
      PROVE  CursorOf(i) \in Nat /\ pages[i] \in PagesBefore(rows, CursorOf(i), limit)
  <2>1. CASE i = 1
    BY <1>1, <1>3, <1>4, <2>1
  <2>2. CASE i # 1
    <3>1. i \in 2 .. k /\ i - 1 \in 1 .. k
      BY <1>2, <2>2
    <3>2. \A n \in pages[i - 1] : n.at \in Nat
      BY <1>6, <3>1
    <3>3. PICK c : c = CursorOf(i)
      OBVIOUS
    <3>4. c \in NextCursor(pages[i - 1], limit) /\ pages[i] \in PagesBefore(rows, c, limit)
      BY <1>5, <3>1, <3>3
    <3>5. c \in Nat
      BY <3>2, <3>4, CursorFacts
    <3> QED
      BY <3>3, <3>4, <3>5
  <2> QED
    BY <2>1, <2>2
<1> DEFINE cursors == [i \in 1 .. k |-> CursorOf(i)]
<1>8. \A i \in 1 .. k : cursors[i] = CursorOf(i)
  OBVIOUS
<1>9. cursors \in [1 .. k -> Nat] /\ cursors[1] = first
  BY <1>2, <1>7
<1>10. ASSUME NEW i \in 1 .. k - 1
       PROVE  /\ \A n \in pages[i] : n.at >= cursors[i + 1]
              /\ \E n \in pages[i] : n.at = cursors[i + 1]
  <2>1. i + 1 \in 2 .. k /\ i \in 1 .. k /\ (i + 1) - 1 = i
    BY <1>2
  <2>2. PICK c : c = cursors[i + 1]
    OBVIOUS
  <2>3. c = CursorOf(i + 1)
    BY <1>2, <1>8, <2>1, <2>2
  <2>4. c \in NextCursor(pages[i], limit)
    BY <1>5, <2>1, <2>3
  <2>5. \A n \in pages[i] : n.at \in Nat
    BY <1>6, <2>1
  <2>6. (\A n \in pages[i] : n.at >= c) /\ \E n \in pages[i] : n.at = c
    BY <2>4, <2>5, CursorFacts
  <2> QED
    BY <2>2, <2>6
<1> HIDE DEF cursors, CursorOf
<1>11. ASSUME NEW i \in 1 .. k
       PROVE  /\ pages[i] \in SUBSET rows
              /\ \A n \in pages[i] : n.at < cursors[i]
              /\ \A n \in pages[i], m \in rows : m.at < cursors[i] => m \in pages[i] \/ n.at >= m.at
              /\ Cardinality(pages[i]) # limit => \A n \in rows : n.at < cursors[i] => n \in pages[i]
  <2>1. PICK c, page : c = cursors[i] /\ page = pages[i]
    OBVIOUS
  <2>2. c \in Nat /\ page \in PagesBefore(rows, c, limit)
    BY <1>7, <1>8, <2>1
  <2>3. /\ page \in SUBSET rows
        /\ \A n \in page : n.at < c
        /\ \A n \in page, m \in rows : m.at < c => m \in page \/ n.at >= m.at
        /\ Cardinality(page) # limit => \A n \in rows : n.at < c => n \in page
    BY <2>2, PageFacts
  <2> QED
    BY <2>1, <2>3
<1>12. \A n \in rows : n.at < cursors[1]
  BY <1>3, <1>4, <1>9
<1>13. IsWalk(rows, limit, k, pages, cursors)
  BY <1>9, <1>10, <1>11, <1>12 DEF IsWalk
<1>14. Cardinality(pages[k]) # limit \/ k = Cardinality(rows) + 1
  BY <1>1 DEF NextCursor
<1>15. DOMAIN pages = 1 .. k
  BY <1>1
<1> QED
  BY <1>2, <1>13, <1>14, <1>15
(* The cursors of a walk fall. *)
LEMMA CursorsFall ==
  ASSUME NEW rows, \A n \in rows : n.at \in Nat, NEW limit, NEW k \in Nat \ {0}, NEW pages,
         NEW cursors, IsWalk(rows, limit, k, pages, cursors)
  PROVE  \A i \in 1 .. k - 1, j \in 1 .. k : i < j => cursors[j] <= cursors[i + 1]
<1> DEFINE S == {d \in Nat : \A i \in 1 .. k - 1 :
                   i + 1 + d <= k => cursors[i + 1 + d] <= cursors[i + 1]}
<1>1. \A i \in 1 .. k : cursors[i] \in Nat
  BY DEF IsWalk
<1>2. ASSUME NEW i \in 1 .. k - 1 PROVE cursors[i + 1] < cursors[i]
  <2>1. i \in 1 .. k /\ i + 1 \in 1 .. k
    OBVIOUS
  <2>2. PICK n \in pages[i] : n.at = cursors[i + 1]
    BY DEF IsWalk
  <2>3. n.at < cursors[i]
    BY <2>1 DEF IsWalk
  <2> QED
    BY <2>2, <2>3
<1>3. 0 \in S
  <2>1. ASSUME NEW i \in 1 .. k - 1 PROVE cursors[i + 1 + 0] <= cursors[i + 1]
    <3>1. i + 1 \in 1 .. k /\ i + 1 + 0 = i + 1
      OBVIOUS
    <3> QED
      BY <1>1, <3>1
  <2> QED
    BY <2>1
<1>4. ASSUME NEW d \in Nat, d \in S PROVE d + 1 \in S
  <2>1. ASSUME NEW i \in 1 .. k - 1, i + 1 + (d + 1) <= k
        PROVE  cursors[i + 1 + (d + 1)] <= cursors[i + 1]
    <3>1. PICK j : j = i + 1 + d
      OBVIOUS
    <3>2. j \in 1 .. k - 1 /\ j + 1 = i + 1 + (d + 1) /\ j \in 1 .. k /\ j + 1 \in 1 .. k
          /\ i + 1 \in 1 .. k
      BY <2>1, <3>1
    <3>3. cursors[j] <= cursors[i + 1]
      BY <1>4, <3>1, <3>2
    <3>4. cursors[j + 1] < cursors[j]
      BY <1>2, <3>2
    <3>5. cursors[j + 1] <= cursors[i + 1]
      BY <1>1, <3>2, <3>3, <3>4
    <3> QED
      BY <3>2, <3>5
  <2> QED
    BY <2>1
<1> HIDE DEF S
<1>5. Nat \subseteq S
  BY <1>3, <1>4, SetInduction
<1>6. ASSUME NEW i \in 1 .. k - 1, NEW j \in 1 .. k, i < j PROVE cursors[j] <= cursors[i + 1]
  <2>1. PICK d : d = j - (i + 1)
    OBVIOUS
  <2>2. d \in Nat /\ i + 1 + d = j
    BY <1>6, <2>1
  <2>3. d \in S
    BY <1>5, <2>2
  <2>4. i + 1 + d <= k
    BY <2>2
  <2>5. cursors[i + 1 + d] <= cursors[i + 1]
    BY <2>3, <2>4 DEF S
  <2> QED
    BY <2>2, <2>5
<1> QED
  BY <1>6

(* No row is on two pages of a walk. *)
LEMMA PagesApart ==
  ASSUME NEW rows, \A n \in rows : n.at \in Nat, NEW limit, NEW k \in Nat \ {0}, NEW pages,
         NEW cursors, IsWalk(rows, limit, k, pages, cursors)
  PROVE  \A i, j \in 1 .. k : i # j => pages[i] \cap pages[j] = {}
<1>1. ASSUME NEW i \in 1 .. k, NEW j \in 1 .. k, i < j, NEW n \in pages[i], n \in pages[j]
      PROVE  FALSE
  <2>1. i \in 1 .. k - 1 /\ i + 1 \in 1 .. k
    BY <1>1
  <2>2. cursors[j] <= cursors[i + 1]
    BY <1>1, <2>1, CursorsFall
  <2>3. n.at < cursors[j]
    BY <1>1 DEF IsWalk
  <2>4. n.at >= cursors[i + 1]
    BY <2>1 DEF IsWalk
  <2>5. n.at \in Nat /\ cursors[j] \in Nat /\ cursors[i + 1] \in Nat
    BY <2>1 DEF IsWalk
  <2> QED
    BY <2>2, <2>3, <2>4, <2>5
<1> QED
  BY <1>1

(* A walk ends with a page that is not full: more full pages than rows there are not. *)
LEMMA WalkEnds ==
  ASSUME NEW rows, IsFiniteSet(rows), \A n \in rows : n.at \in Nat, NEW limit \in Nat \ {0},
         NEW k \in Nat \ {0}, NEW pages, NEW cursors, IsWalk(rows, limit, k, pages, cursors),
         Cardinality(pages[k]) # limit \/ k = Cardinality(rows) + 1
  PROVE  Cardinality(pages[k]) # limit
<1> SUFFICES ASSUME Cardinality(pages[k]) = limit, k = Cardinality(rows) + 1 PROVE FALSE
  OBVIOUS
<1>1. ASSUME NEW i \in 1 .. k PROVE pages[i] \in SUBSET rows /\ pages[i] # {}
  <2>1. CASE i = k
    BY <2>1, FS_EmptySet DEF IsWalk
  <2>2. CASE i # k
    <3>1. i \in 1 .. k - 1
      BY <2>2
    <3> QED
      BY <3>1 DEF IsWalk
  <2> QED
    BY <2>1, <2>2
<1> DEFINE f == [i \in 1 .. k |-> CHOOSE n \in pages[i] : TRUE]
<1>2. \A i \in 1 .. k : f[i] \in pages[i] /\ f[i] \in rows
  BY <1>1
<1>3. \A i, j \in 1 .. k : i # j => pages[i] \cap pages[j] = {}
  BY PagesApart
<1>4. f \in [1 .. k -> rows]
  BY <1>2
<1> HIDE DEF f
<1>5. f \in Injection(1 .. k, rows)
  BY <1>2, <1>3, <1>4 DEF Injection, IsInjective
<1>6. Cardinality(1 .. k) <= Cardinality(rows)
  BY <1>5, FS_Injection
<1>7. Cardinality(1 .. k) = k
  BY FS_Interval
<1> QED
  BY <1>6, <1>7, FS_CardinalityType

(* A row that is on no page has the createdAt of one that is. *)
LEMMA OnlyTiesMissed ==
  ASSUME NEW rows, IsFiniteSet(rows), \A n \in rows : n.at \in Nat, NEW limit \in Nat \ {0},
         NEW k \in Nat \ {0}, NEW pages, NEW cursors, IsWalk(rows, limit, k, pages, cursors),
         Cardinality(pages[k]) # limit, NEW n \in rows, \A i \in 1 .. k : n \notin pages[i]
  PROVE  \E i \in 1 .. k : \E m \in pages[i] : m.at = n.at
<1> SUFFICES ASSUME \A i \in 1 .. k : \A m \in pages[i] : m.at # n.at PROVE FALSE
  OBVIOUS
<1> DEFINE S == {d \in Nat : d + 1 <= k => n.at < cursors[d + 1]}
<1>1. 0 \in S
  BY DEF IsWalk
<1>2. ASSUME NEW d \in Nat, d \in S PROVE d + 1 \in S
  <2>1. SUFFICES ASSUME d + 1 + 1 <= k PROVE n.at < cursors[d + 1 + 1]
    OBVIOUS
  <2>2. PICK i : i = d + 1
    OBVIOUS
  <2>3. i \in 1 .. k - 1 /\ i \in 1 .. k /\ i + 1 \in 1 .. k
    BY <2>1, <2>2
  <2>4. n.at < cursors[i]
    BY <1>2, <2>2, <2>3
  <2>5. PICK m \in pages[i] : m.at = cursors[i + 1]
    BY <2>3 DEF IsWalk
  <2>6. m.at >= n.at /\ m.at # n.at
    BY <2>3, <2>4 DEF IsWalk
  <2>7. n.at \in Nat /\ cursors[i + 1] \in Nat
    BY <2>3 DEF IsWalk
  <2>8. n.at < cursors[i + 1]
    BY <2>5, <2>6, <2>7
  <2> QED
    BY <2>2, <2>8
<1> HIDE DEF S
<1>3. Nat \subseteq S
  BY <1>1, <1>2, SetInduction
<1>4. k - 1 \in S /\ (k - 1) + 1 = k
  BY <1>3
<1>5. n.at < cursors[k]
  BY <1>4 DEF S
<1> QED
  BY <1>5 DEF IsWalk

(* A user has one row for an event at most, so no more rows than events. *)
LEMMA RowsForUser ==
  ASSUME IsFiniteSet(Event), ToldInv, ClockInv, NEW user \in User
  PROVE  /\ IsFiniteSet(RowsFor(user))
         /\ \A n \in RowsFor(user) : n.at \in Nat
         /\ \E bound \in Nat : \A n \in RowsFor(user) : n.at <= bound
         /\ \A n, m \in RowsFor(user) : n.event = m.event => n = m
<1>1. OncePerUser
  BY ToldInvSuffices
<1>2. \A n \in RowsFor(user) : n \in notes /\ n.user = user /\ n.event \in Event /\ n.at \in Nat
  BY DEF RowsFor, ClockInv
<1>3. \A n, m \in RowsFor(user) : n.event = m.event => n = m
  BY <1>1, <1>2 DEF OncePerUser
<1> DEFINE f == [n \in RowsFor(user) |-> n.event]
<1>4. f \in Injection(RowsFor(user), Event)
  BY <1>2, <1>3 DEF Injection, IsInjective
<1> HIDE DEF f
<1>5. IsFiniteSet(RowsFor(user))
  BY <1>4, FS_Injection
<1>6. PICK last \in 0 .. Cardinality(Ended) : LastIs(last)
  BY DEF ClockInv
<1>7. last \in Nat
  BY FS_Subset, FS_CardinalityType DEF Ended
<1>8. \E bound \in Nat : \A n \in RowsFor(user) : n.at <= bound
  BY <1>2, <1>6, <1>7 DEF LastIs
<1> QED
  BY <1>2, <1>3, <1>5, <1>8

(* The reader of the feed gets no row twice, and misses none but one that was created
   in the same millisecond as one that is listed, for another event. *)
THEOREM FeedListsAll ==
  ASSUME IsFiniteSet(Event)
  PROVE  Spec => []FeedMissesOnlyTies
<1> DEFINE Inv == FollowsInv /\ ToldInv /\ ClockInv
<1>1. Init => Inv
  BY FollowsStart, ToldStart, ClockStart
<1>2. Inv /\ [Next]_vars => Inv'
  BY FollowsStep, ToldStep, ClockStep DEF ToldInv
<1>3. Inv => FeedMissesOnlyTies
  <2>1. SUFFICES ASSUME Inv, NEW user \in User, NEW pages \in Walks(RowsFor(user), PageSize)
                 PROVE  /\ \A i, j \in DOMAIN pages : i # j => pages[i] \cap pages[j] = {}
                        /\ \A n \in RowsFor(user) \ UNION {pages[i] : i \in DOMAIN pages} :
                             \E m \in UNION {pages[i] : i \in DOMAIN pages} :
                               m.at = n.at /\ m.event # n.event
    BY DEF FeedMissesOnlyTies
  <2>2. PICK rows : rows = RowsFor(user)
    OBVIOUS
  <2>3. /\ IsFiniteSet(rows) /\ \A n \in rows : n.at \in Nat
        /\ \E bound \in Nat : \A n \in rows : n.at <= bound
        /\ \A n, m \in rows : n.event = m.event => n = m
    BY <2>1, <2>2, RowsForUser
  <2>4. PICK k \in Nat \ {0} : \E cursors :
          /\ DOMAIN pages = 1 .. k
          /\ IsWalk(rows, PageSize, k, pages, cursors)
          /\ Cardinality(pages[k]) # PageSize \/ k = Cardinality(rows) + 1
    BY <2>1, <2>2, <2>3, EventAssumption, WalkFacts
  <2> PICK cursors :
          /\ DOMAIN pages = 1 .. k
          /\ IsWalk(rows, PageSize, k, pages, cursors)
          /\ Cardinality(pages[k]) # PageSize \/ k = Cardinality(rows) + 1
    BY <2>4
  <2>5. Cardinality(pages[k]) # PageSize
    BY <2>3, <2>4, EventAssumption, WalkEnds
  <2>6. \A i, j \in DOMAIN pages : i # j => pages[i] \cap pages[j] = {}
    BY <2>3, <2>4, PagesApart
  <2>7. ASSUME NEW n \in rows, n \notin UNION {pages[i] : i \in DOMAIN pages}
        PROVE  \E m \in UNION {pages[i] : i \in DOMAIN pages} : m.at = n.at /\ m.event # n.event
    <3>1. \A i \in 1 .. k : n \notin pages[i]
      BY <2>4, <2>7
    <3>2. PICK i \in 1 .. k : \E m \in pages[i] : m.at = n.at
      BY <2>3, <2>4, <2>5, <3>1, EventAssumption, OnlyTiesMissed
    <3>3. PICK m \in pages[i] : m.at = n.at
      BY <3>2
    <3>4. m \in rows /\ m # n
      BY <2>4, <3>1 DEF IsWalk
    <3>5. m.event # n.event
      BY <2>3, <3>4
    <3> QED
      BY <2>4, <3>3, <3>5
  <2> QED
    BY <2>2, <2>6, <2>7
<1> HIDE DEF Inv
<1> QED
  BY <1>1, <1>2, <1>3, PTL DEF Spec
=============================================================================
