--------------------------- MODULE LiveViewProofs ---------------------------
(***************************************************************************)
(* Proofs about LiveView, for any number of browsers, any feed, and any    *)
(* number of starts, broken connections and visits.                        *)
(***************************************************************************)
EXTENDS LiveView, TLAPS

-----------------------------------------------------------------------------
(* The process *)

Serving == {"polling", "up"}

(* The stages of a shutdown in which everything is still attached. *)
Attached == {"no", "closing", "sockets"}

(* Polls begin between the start of the worker and the drain, and while they do the
   handlers of a process that is up are attached. *)
ProcessInv ==
  /\ down \in Attached \cup {"drain", "disconnect", "forced"}
  /\ run.pc # "idle" => boot \in Serving
  /\ worker => boot \in Serving /\ down \in Attached
  /\ down = "disconnect" => run = NoRun
  /\ boot = "up" /\ down \in Attached => handlers

(* Nothing runs at first. *)
LEMMA ProcessStart == Init => ProcessInv
  BY DEF Init, ProcessInv, NoRun, Attached

(* A process that is gone has nothing left that could be wrong. *)
LEMMA ProcessGone == Gone => ProcessInv'
  BY DEF Gone, ProcessInv, NoRun, Attached

(* A poll under way keeps the process as it is; a new one needs the worker. *)
LEMMA ProcessPolls ==
  ASSUME ProcessInv, PollBegins \/ PollWrites \/ PollFails \/ Emit
  PROVE  ProcessInv'
<1>1. UNCHANGED <<boot, down, worker, handlers>>
  BY DEF PollBegins, PollWrites, PollFails, Emit, RunKeeps, serverVars
<1>2. CASE PollBegins
  BY <1>1, <1>2 DEF ProcessInv, PollBegins, TakesJobs, Attached
<1>3. CASE PollWrites \/ PollFails \/ Emit
  <2>1. run.pc \in {"write", "emit"}
    BY <1>3 DEF PollWrites, PollFails, Emit
  <2>2. NoRun.pc = "idle"
    BY DEF NoRun
  <2>3. run.pc # "idle" /\ down # "disconnect"
    BY <2>1, <2>2 DEF ProcessInv
  <2> QED
    BY <1>1, <2>3 DEF ProcessInv
<1> QED
  BY <1>2, <1>3

(* start() and shutdown() attach and detach in an order that keeps it so. *)
LEMMA ProcessSteps ==
  ASSUME ProcessInv,
         \/ Start \/ Listen \/ AttachHandlers \/ Shutdown \/ CloseHttp \/ CloseSocket
         \/ Drained \/ ForceClose
  PROVE  ProcessInv'
<1>1. CASE Start
  BY <1>1 DEF ProcessInv, Start, Serving
<1>2. CASE Listen
  BY <1>2 DEF ProcessInv, Listen, Serving, Attached
<1>3. CASE AttachHandlers
  BY <1>3 DEF ProcessInv, AttachHandlers, Serving, Attached
<1>4. CASE Shutdown
  BY <1>4 DEF ProcessInv, Shutdown, ListensAtSignal, Serving, Attached
<1>5. CASE CloseHttp
  BY <1>5 DEF ProcessInv, CloseHttp, Serving, Attached
<1>6. CASE CloseSocket
  BY <1>6 DEF ProcessInv, CloseSocket, Serving, Attached
<1>7. CASE Drained
  BY <1>7 DEF ProcessInv, Drained, Serving, Attached
<1>8. CASE ForceClose
  BY <1>8 DEF ProcessInv, ForceClose, Serving, Attached
<1> QED
  BY <1>1, <1>2, <1>3, <1>4, <1>5, <1>6, <1>7, <1>8

(* What happens in a browser does not touch the process. *)
LEMMA ProcessFrame ==
  ASSUME ProcessInv, UNCHANGED <<serverVars, run>>
  PROVE  ProcessInv'
  BY DEF ProcessInv, serverVars

(* Every step keeps it. *)
LEMMA ProcessStep == ProcessInv /\ [Next]_vars => ProcessInv'
<1> SUFFICES ASSUME ProcessInv, [Next]_vars PROVE ProcessInv'
  OBVIOUS
<1>1. CASE UNCHANGED vars \/ Advance
  BY <1>1, ProcessFrame DEF vars, Advance
<1>2. CASE StartFails \/ Crash \/ Exit
  BY <1>2, ProcessGone DEF StartFails, Crash, Exit
<1>3. ASSUME NEW b \in Browser,
             \/ \E m \in Matches : OpenPage(b, m)
             \/ ClosePage(b) \/ Connect(b) \/ Join(b) \/ Drop(b) \/ Receive(b)
             \/ Answer(b) \/ Land(b) \/ FetchFails(b) \/ Refocus(b)
      PROVE  UNCHANGED <<serverVars, run>>
  BY <1>3
  DEF OpenPage, ClosePage, Connect, Join, Drop, Receive, Answer, Land, FetchFails, Refocus,
      BrowserKeeps
<1> QED
  BY <1>1, <1>2, <1>3, ProcessPolls, ProcessSteps, ProcessFrame DEF Next

(* The drain comes to its end only when no poll is left. *)
THEOREM DrainedFirst == Spec => []DrainedBeforeDisconnect
<1>1. ProcessInv => DrainedBeforeDisconnect
  BY DEF ProcessInv, DrainedBeforeDisconnect
<1> QED
  BY <1>1, ProcessStart, ProcessStep, PTL DEF Spec

(* No event goes unheard except right after the start and during the drain. *)
THEOREM EventsHeard == Spec => EventsFindHandlers
<1>1. ProcessInv =>
        [run.pc = "emit" /\ run' = NoRun /\ boot' # "off"
           => handlers \/ boot = "polling" \/ down \in {"drain", "disconnect", "forced"}]_vars
  <2>1. SUFFICES ASSUME ProcessInv, run.pc = "emit", ~handlers, boot # "polling"
                 PROVE  down \in {"drain", "disconnect", "forced"}
    OBVIOUS
  <2>2. boot = "up"
    BY <2>1 DEF ProcessInv, Serving
  <2>3. down \notin Attached
    BY <2>1, <2>2 DEF ProcessInv
  <2> QED
    BY <2>1, <2>3 DEF ProcessInv
<1> QED
  BY <1>1, ProcessStart, ProcessStep, PTL DEF Spec, EventsFindHandlers

-----------------------------------------------------------------------------
(* Rooms and what is sent to them *)

(* What a run compares are lists of the feed. *)
ListsInv ==
  /\ provider \in DOMAIN Feed /\ snapshot \in {0} \cup DOMAIN Feed
  /\ run.pc # "idle" => run.before \in {0} \cup DOMAIN Feed /\ run.after \in DOMAIN Feed
  /\ run.pc = "emit" => run.before # 0

(* A socket is in the room of its page or in none, and what is on the way to it is of
   that match: nothing is on the way to a browser that has left. *)
RoomInv(b) ==
  /\ page[b] # Nothing => page[b] \in Matches
  /\ room[b] \in {Nothing, page[b]}
  /\ joining[b] => page[b] # Nothing
  /\ \A i \in DOMAIN wire[b] : wire[b][i].id = page[b]
  /\ page[b] = Nothing => wire[b] = <<>>

Update == [id : Matches, at : DOMAIN Feed, gone : BOOLEAN]

RoomTypes ==
  /\ page \in [Browser -> Matches \cup {Nothing}]
  /\ room \in [Browser -> Matches \cup {Nothing}]
  /\ joining \in [Browser -> BOOLEAN]
  /\ wire \in [Browser -> Seq(Update)]

OwnInv == RoomTypes /\ \A b \in Browser : RoomInv(b)

(* A change is of a match that one of the two lists has. *)
LEMMA ChangesOfMatches ==
  ASSUME NEW i \in DOMAIN Feed, NEW j \in DOMAIN Feed,
         NEW c \in DiffMatches(Feed[i], Feed[j])
  PROVE  c.id \in Matches
<1>1. c.id \in DOMAIN MatchesById(Feed[i]) \cup DOMAIN MatchesById(Feed[j])
  BY DEF DiffMatches, AddedIn, ChangedIn, RemovedIn, Change
<1> QED
  BY <1>1 DEF Matches

(* Both hold at first and are kept. *)
LEMMA ListsStart == Init => ListsInv
  BY LiveViewAssumption DEF Init, ListsInv, NoRun

LEMMA ListsStep == ListsInv /\ [Next]_vars => ListsInv'
<1> SUFFICES ASSUME ListsInv, [Next]_vars PROVE ListsInv'
  OBVIOUS
<1>1. CASE UNCHANGED <<provider, snapshot, run>>
  BY <1>1 DEF ListsInv
<1>2. CASE Advance
  BY <1>2, LiveViewAssumption DEF ListsInv, Advance, redisVars
<1>3. CASE StartFails \/ Crash \/ Exit
  BY <1>3 DEF ListsInv, StartFails, Crash, Exit, Gone, NoRun, redisVars
<1>4. CASE PollBegins
  BY <1>4 DEF ListsInv, PollBegins, RunKeeps, redisVars
<1>5. CASE PollFails \/ Emit
  <2>1. run' = NoRun /\ NoRun.pc = "idle" /\ UNCHANGED <<provider, snapshot>>
    BY <1>5 DEF PollFails, Emit, NoRun, RunKeeps, redisVars
  <2> QED
    BY <2>1 DEF ListsInv
<1>6. CASE PollWrites
  BY <1>6 DEF ListsInv, PollWrites, Differs, NoRun, RunKeeps
<1>7. CASE \/ Start \/ Listen \/ AttachHandlers \/ Shutdown \/ CloseHttp \/ CloseSocket
           \/ Drained \/ ForceClose
  BY <1>1, <1>7
  DEF Start, Listen, AttachHandlers, Shutdown, CloseHttp, CloseSocket, Drained, ForceClose,
      redisVars
<1>8. ASSUME NEW b \in Browser,
             \/ \E m \in Matches : OpenPage(b, m)
             \/ ClosePage(b) \/ Connect(b) \/ Join(b) \/ Drop(b) \/ Receive(b)
             \/ Answer(b) \/ Land(b) \/ FetchFails(b) \/ Refocus(b)
      PROVE  ListsInv'
  <2>1. UNCHANGED <<provider, snapshot, run>>
    BY <1>8
    DEF OpenPage, ClosePage, Connect, Join, Drop, Receive, Answer, Land, FetchFails, Refocus,
        BrowserKeeps, redisVars
  <2> QED
    BY <1>1, <2>1
<1>9. CASE UNCHANGED vars
  BY <1>1, <1>9 DEF vars, redisVars
<1> QED
  BY <1>1, <1>2, <1>3, <1>4, <1>5, <1>6, <1>7, <1>8, <1>9 DEF Next

(* Nobody shows anything at first. *)
LEMMA OwnStart == Init => OwnInv
  BY DEF Init, OwnInv, RoomTypes, RoomInv

(* The rooms and what is sent depend on these variables only. *)
LEMMA OwnFrame ==
  ASSUME OwnInv, UNCHANGED <<page, room, joining, wire>>
  PROVE  OwnInv'
  BY DEF OwnInv, RoomTypes, RoomInv

(* The end of a process leaves no room and nothing on the way. *)
LEMMA OwnGone == OwnInv /\ Gone => OwnInv'
  BY DEF OwnInv, RoomTypes, RoomInv, Gone, pageVars

(* An announcement reaches only who is in the room of a match it is about. *)
LEMMA OwnEmit ==
  ASSUME OwnInv, ListsInv, Emit
  PROVE  OwnInv'
<1> DEFINE changes == DiffMatches(Feed[run.before], Feed[run.after])
<1>1. UNCHANGED <<page, room, joining>>
  BY DEF Emit, RunKeeps, pageVars
<1>2. run.before \in DOMAIN Feed /\ run.after \in DOMAIN Feed
  BY DEF Emit, ListsInv
<1>3. wire' = [b \in Browser |->
                 IF bridge THEN wire[b] \o UpdatesFor(b, changes, run.after) ELSE wire[b]]
  BY DEF Emit
<1>4. ASSUME NEW b \in Browser
      PROVE  \/ UpdatesFor(b, changes, run.after) = <<>>
             \/ \E u \in Update : /\ UpdatesFor(b, changes, run.after) = <<u>>
                                /\ u.id = room[b]
  <2> DEFINE mine == {c.id : c \in {d \in changes : InRoom(b, d.id)}}
  <2>1. CASE mine = {}
    BY <2>1 DEF UpdatesFor
  <2>2. CASE mine # {}
    <3> DEFINE id == CHOOSE x \in mine : TRUE
               u == [id |-> id, at |-> run.after, gone |-> run.after \notin Lists(id)]
    <3>1. id \in mine
      BY <2>2
    <3>2. id \in Matches /\ id = room[b]
      BY <3>1, <1>2, ChangesOfMatches DEF InRoom
    <3>3. u \in Update /\ u.id = room[b]
      BY <3>2, <1>2 DEF Update
    <3>4. UpdatesFor(b, changes, run.after) = <<u>>
      BY <2>2 DEF UpdatesFor
    <3> QED
      BY <3>3, <3>4
  <2> QED
    BY <2>1, <2>2
<1>5. ASSUME NEW b \in Browser
      PROVE  wire'[b] \in Seq(Update) /\ RoomInv(b)'
  <2>1. wire[b] \in Seq(Update) /\ RoomInv(b) /\ room[b] \in Matches \cup {Nothing}
    BY DEF OwnInv, RoomTypes
  <2>2. CASE wire'[b] = wire[b]
    BY <1>1, <2>1, <2>2 DEF RoomInv
  <2>3. CASE \E u \in Update : wire'[b] = wire[b] \o <<u>> /\ u.id = room[b]
    <3>1. PICK u \in Update : wire'[b] = wire[b] \o <<u>> /\ u.id = room[b]
      BY <2>3
    <3>2. room[b] # Nothing /\ room[b] = page[b]
      BY <2>1, <3>1, LiveViewAssumption DEF RoomInv, Update
    <3>3. wire'[b] \in Seq(Update)
      BY <2>1, <3>1
    <3>4. \A i \in DOMAIN wire'[b] : wire'[b][i].id = page[b]
      BY <2>1, <3>1, <3>2 DEF RoomInv
    <3> QED
      BY <1>1, <2>1, <3>2, <3>3, <3>4 DEF RoomInv
  <2>4. wire'[b] = wire[b] \/ wire'[b] = wire[b] \o UpdatesFor(b, changes, run.after)
    BY <1>3
  <2>5. CASE UpdatesFor(b, changes, run.after) = <<>>
    <3>1. wire[b] \o <<>> = wire[b]
      BY <2>1
    <3> QED
      BY <2>2, <2>4, <2>5, <3>1
  <2> QED
    BY <1>4, <2>2, <2>3, <2>4, <2>5
<1> QED
  <2>1. wire' \in [Browser -> Seq(Update)]
    BY <1>3, <1>5
  <2> QED
    BY <1>1, <1>5, <2>1 DEF OwnInv, RoomTypes

(* What a browser does keeps its socket to its page: a page that is left takes its
   room and its updates with it. *)
LEMMA OwnBrowser ==
  ASSUME OwnInv, NEW b \in Browser,
         \/ \E m \in Matches : OpenPage(b, m)
         \/ ClosePage(b) \/ Connect(b) \/ Join(b) \/ Drop(b) \/ Receive(b)
         \/ Answer(b) \/ Land(b) \/ FetchFails(b) \/ Refocus(b)
  PROVE  OwnInv'
<1> USE DEF OwnInv, RoomTypes, RoomInv, socketVars, pageVars
<1>1. CASE Answer(b) \/ Land(b) \/ FetchFails(b) \/ Refocus(b)
  BY <1>1, OwnFrame DEF Answer, Land, FetchFails, Refocus
<1>2. ASSUME NEW m \in Matches, OpenPage(b, m) PROVE OwnInv'
  BY <1>2 DEF OpenPage
<1>3. CASE ClosePage(b)
  BY <1>3 DEF ClosePage, Unplugged
<1>4. CASE Connect(b)
  BY <1>4 DEF Connect, Joins
<1>5. CASE Join(b)
  BY <1>5 DEF Join
<1>6. CASE Drop(b)
  BY <1>6 DEF Drop, Unplugged
<1>7. CASE Receive(b)
  <2>1. UNCHANGED <<page, room, joining>> /\ wire' = [wire EXCEPT ![b] = Tail(@)]
    BY <1>7 DEF Receive
  <2>2. wire[b] \in Seq(Update) /\ wire[b] # <<>>
    BY <1>7 DEF Receive
  <2>3. /\ Tail(wire[b]) \in Seq(Update)
        /\ \A i \in DOMAIN Tail(wire[b]) :
             i + 1 \in DOMAIN wire[b] /\ Tail(wire[b])[i] = wire[b][i + 1]
    BY <2>2
  <2> QED
    BY <2>1, <2>2, <2>3
<1> QED
  BY <1>1, <1>2, <1>3, <1>4, <1>5, <1>6, <1>7

LEMMA OwnStep == OwnInv /\ ListsInv /\ [Next]_vars => OwnInv'
<1> SUFFICES ASSUME OwnInv, ListsInv, [Next]_vars PROVE OwnInv'
  OBVIOUS
<1>1. CASE UNCHANGED vars
  BY <1>1, OwnFrame DEF vars, socketVars, pageVars
<1>2. CASE Start \/ Listen \/ AttachHandlers \/ Shutdown \/ CloseHttp \/ CloseSocket
  BY <1>2, OwnFrame
  DEF Start, Listen, AttachHandlers, Shutdown, CloseHttp, CloseSocket, socketVars, pageVars
<1>3. CASE Advance \/ Drained \/ ForceClose \/ PollBegins \/ PollWrites \/ PollFails
  BY <1>3, OwnFrame
  DEF Advance, Drained, ForceClose, PollBegins, PollWrites, PollFails, RunKeeps, socketVars,
      pageVars
<1>4. CASE StartFails \/ Crash \/ Exit
  BY <1>4, OwnGone DEF StartFails, Crash, Exit
<1>5. CASE Emit
  BY <1>5, OwnEmit
<1> QED
  BY <1>1, <1>2, <1>3, <1>4, <1>5, OwnBrowser DEF Next

(* A client gets no update of a match that is not the one it shows. *)
THEOREM OwnMatchOnly == Spec => []OnlyOwnMatch
<1>1. OwnInv => OnlyOwnMatch
  BY DEF OwnInv, RoomInv, OnlyOwnMatch
<1> QED
  BY <1>1, ListsStart, ListsStep, OwnStart, OwnStep, PTL DEF Spec
-----------------------------------------------------------------------------
(* The types, and what goes with what *)

Index == {0} \cup DOMAIN Feed

RunRec == [pc : {"idle", "write", "emit"}, before : 0 .. Len(Feed), after : 0 .. Len(Feed)]

FetchRec == [pc : {"none", "asked", "answered"}, answer : Index]

(* A run compares with the snapshot there is, and what it has fetched is no older. *)
ServerInv ==
  /\ boot \in {"off", "connect", "polling", "up"}
  /\ down \in {"no", "closing", "sockets", "drain", "disconnect", "forced"}
  /\ bridge \in BOOLEAN
  /\ run \in RunRec
  /\ snapshot <= provider
  /\ run.pc = "write" => run.before = snapshot /\ run.before <= run.after /\ run.after <= provider
  /\ run.pc = "emit" => run.after = snapshot /\ run.before <= run.after
  /\ boot \in Serving /\ down \in {"no", "closing"} => bridge

(* A connected socket is in the room of its page unless its join is on the way, and
   the bridge listens as long as there is one. *)
SocketFit(b) ==
  /\ link[b] => bridge /\ page[b] # Nothing /\ (joining[b] <=> room[b] = Nothing)
  /\ ~link[b] => ~joining[b] /\ room[b] = Nothing
  /\ room[b] = Nothing => wire[b] = <<>>

SocketInv == link \in [Browser -> BOOLEAN] /\ \A b \in Browser : SocketFit(b)

(* What is stored, fetched or sent of a match comes from a list that has it. *)
UpdateFit(u) == u.gone = (u.at \notin Lists(u.id))

FetchFit(b) ==
  /\ fetch[b] # NoFetch => page[b] # Nothing
  /\ fetch[b].pc = "answered" => fetch[b].answer \in Lists(page[b])

CachedInv ==
  cached \in [Matches -> Index] /\ \A m \in Matches : cached[m] \in {0} \cup Lists(m)

ShownInv ==
  /\ shown \in [Browser -> [Matches -> Index]]
  /\ \A b \in Browser, m \in Matches : shown[b][m] \in {0} \cup Lists(m)

FetchInv == fetch \in [Browser -> FetchRec] /\ \A b \in Browser : FetchFit(b)

WiresInv == \A b \in Browser : \A i \in DOMAIN wire[b] : UpdateFit(wire[b][i])

ExcusedType == excused \in [Browser -> SUBSET Matches]

CopiesInv == CachedInv /\ ShownInv /\ FetchInv /\ WiresInv /\ ExcusedType

(* Lists are counted from 1. *)
LEMMA ListNumbers ==
  /\ Len(Feed) \in Nat /\ DOMAIN Feed = 1 .. Len(Feed) /\ 0 \notin DOMAIN Feed
  /\ Index = 0 .. Len(Feed) /\ Index \subseteq Nat
  /\ \A m : Lists(m) \subseteq DOMAIN Feed
<1>1. \A m : Lists(m) \subseteq DOMAIN Feed
  BY DEF Lists
<1>2. Len(Feed) \in Nat /\ DOMAIN Feed = 1 .. Len(Feed)
  BY LiveViewAssumption
<1>3. 0 \notin DOMAIN Feed /\ Index = 0 .. Len(Feed) /\ Index \subseteq Nat
  BY <1>2 DEF Index
<1> QED
  BY <1>1, <1>2, <1>3

LEMMA ServerStart == Init => ServerInv
<1> SUFFICES ASSUME Init PROVE ServerInv
  OBVIOUS
<1>1. run \in RunRec /\ run.pc = "idle"
  BY ListNumbers DEF Init, NoRun, RunRec
<1>2. /\ boot = "off" /\ down = "no" /\ bridge = FALSE /\ snapshot = 0 /\ provider = 1
  BY DEF Init
<1>3. snapshot <= provider
  BY <1>2
<1> QED
  BY <1>1, <1>2, <1>3 DEF ServerInv, Serving

LEMMA ServerStep ==
  ASSUME ServerInv, ListsInv, [Next]_vars
  PROVE  ServerInv'
<1>1. /\ provider \in Nat /\ snapshot \in Nat /\ provider \in 0 .. Len(Feed)
      /\ snapshot \in 0 .. Len(Feed) /\ provider \in Index
      /\ NoRun \in RunRec /\ NoRun.pc = "idle"
      /\ run \in RunRec /\ run.pc \in {"idle", "write", "emit"}
      /\ run.before \in Nat /\ run.after \in Nat
  BY ListNumbers DEF ServerInv, ListsInv, RunRec, NoRun, Index
<1>2. CASE UNCHANGED <<provider, snapshot, run, serverVars>>
  BY <1>2 DEF ServerInv, serverVars
<1>3. CASE Advance
  BY <1>1, <1>3 DEF ServerInv, Advance, redisVars, serverVars
<1>4. CASE StartFails \/ Crash \/ Exit
  <2>1. Gone
    BY <1>4 DEF StartFails, Crash, Exit
  <2> QED
    BY <1>1, <2>1 DEF ServerInv, Gone, redisVars, Serving
<1>5. CASE Start \/ Listen \/ AttachHandlers \/ Shutdown \/ CloseHttp \/ CloseSocket \/ Drained \/ ForceClose
  <2> USE DEF ServerInv, redisVars, Serving
  <2>1. CASE Start
    BY <2>1 DEF Start
  <2>2. CASE Listen
    BY <2>2 DEF Listen
  <2>3. CASE AttachHandlers
    BY <2>3 DEF AttachHandlers
  <2>4. CASE Shutdown
    BY <2>4 DEF Shutdown
  <2>5. CASE CloseHttp
    BY <2>5 DEF CloseHttp
  <2>6. CASE CloseSocket
    BY <2>6 DEF CloseSocket
  <2>7. CASE Drained
    BY <2>7 DEF Drained
  <2>8. CASE ForceClose
    BY <2>8 DEF ForceClose
  <2> QED
    BY <1>5, <2>1, <2>2, <2>3, <2>4, <2>5, <2>6, <2>7, <2>8
<1>6. CASE PollBegins
  <2> DEFINE r == [pc |-> "write", before |-> snapshot, after |-> provider]
  <2>1. run' = r /\ UNCHANGED <<provider, snapshot, serverVars>>
    BY <1>6 DEF PollBegins, RunKeeps, redisVars
  <2>2. r \in RunRec /\ r.pc = "write" /\ r.before = snapshot /\ r.after = provider
    BY <1>1 DEF RunRec
  <2> HIDE DEF r
  <2> QED
    BY <1>1, <2>1, <2>2 DEF ServerInv, serverVars
<1>7. CASE PollWrites
  <2> DEFINE r == [run EXCEPT !.pc = "emit"]
  <2>1. /\ run.pc = "write" /\ UNCHANGED <<provider, serverVars>>
        /\ snapshot' = IF snapshot = 0 \/ Differs(run) THEN run.after ELSE snapshot
        /\ run' = IF Differs(run) THEN r ELSE NoRun
    BY <1>7 DEF PollWrites, RunKeeps
  <2>2. r \in RunRec /\ r.pc = "emit" /\ r.before = run.before /\ r.after = run.after
    BY <1>1 DEF RunRec
  <2> HIDE DEF r
  <2> QED
    BY <1>1, <2>1, <2>2 DEF ServerInv, serverVars
<1>8. CASE PollFails \/ Emit
  <2>1. run' = NoRun /\ UNCHANGED <<provider, snapshot, serverVars>>
    BY <1>8 DEF PollFails, Emit, RunKeeps, redisVars
  <2> QED
    BY <1>1, <2>1 DEF ServerInv, serverVars
<1>9. ASSUME NEW b \in Browser,
             \/ \E m \in Matches : OpenPage(b, m)
             \/ ClosePage(b) \/ Connect(b) \/ Join(b) \/ Drop(b) \/ Receive(b)
             \/ Answer(b) \/ Land(b) \/ FetchFails(b) \/ Refocus(b)
      PROVE  ServerInv'
  <2>1. UNCHANGED <<provider, snapshot, run, serverVars>>
    BY <1>9
    DEF OpenPage, ClosePage, Connect, Join, Drop, Receive, Answer, Land, FetchFails, Refocus,
        BrowserKeeps, redisVars
  <2> QED
    BY <1>2, <2>1
<1>10. CASE UNCHANGED vars
  BY <1>2, <1>10 DEF vars, redisVars
<1> QED
  BY <1>3, <1>4, <1>5, <1>6, <1>7, <1>8, <1>9, <1>10 DEF Next
(* The sockets are all closed at first. *)
LEMMA SocketStart == Init => SocketInv
  BY DEF Init, SocketInv, SocketFit

LEMMA SocketFrame ==
  ASSUME SocketInv, UNCHANGED <<page, link, joining, room, wire>>, bridge => bridge'
  PROVE  SocketInv'
  BY DEF SocketInv, SocketFit

(* An announcement adds one update, of the match in whose room the socket is, to the
   wire of those who are in the room of a match that has changed. *)
ChangedMatches == {c.id : c \in DiffMatches(Feed[run.before], Feed[run.after])}

UpdateOf(m) == [id |-> m, at |-> run.after, gone |-> run.after \notin Lists(m)]

LEMMA EmitSends ==
  ASSUME Emit, OwnInv, ListsInv, NEW b \in Browser
  PROVE  /\ wire'[b] = IF bridge /\ room[b] \in ChangedMatches
                       THEN Append(wire[b], UpdateOf(room[b])) ELSE wire[b]
         /\ ChangedMatches \subseteq Matches /\ wire[b] \in Seq(Update)
         /\ room[b] \in ChangedMatches => UpdateOf(room[b]) \in Update
<1> DEFINE changes == DiffMatches(Feed[run.before], Feed[run.after])
           mine == {c.id : c \in {d \in changes : InRoom(b, d.id)}}
<1>1. run.before \in DOMAIN Feed /\ run.after \in DOMAIN Feed
  BY DEF Emit, ListsInv
<1>2. ChangedMatches \subseteq Matches
  BY <1>1, ChangesOfMatches DEF ChangedMatches
<1>3. wire[b] \in Seq(Update)
  BY DEF OwnInv, RoomTypes
<1>4. wire'[b] = IF bridge THEN wire[b] \o UpdatesFor(b, changes, run.after) ELSE wire[b]
  BY DEF Emit
<1>5. room[b] \in ChangedMatches => UpdateOf(room[b]) \in Update
  BY <1>1, <1>2 DEF UpdateOf, Update
<1>6. CASE room[b] \notin ChangedMatches
  <2>1. mine = {}
    BY <1>6 DEF InRoom, ChangedMatches
  <2>2. UpdatesFor(b, changes, run.after) = <<>>
    BY <2>1 DEF UpdatesFor
  <2>3. wire[b] \o <<>> = wire[b]
    BY <1>3
  <2> QED
    BY <1>2, <1>3, <1>4, <1>6, <2>2, <2>3
<1>7. CASE room[b] \in ChangedMatches
  <2>1. mine = {room[b]}
    BY <1>7 DEF InRoom, ChangedMatches
  <2>2. mine # {} /\ (CHOOSE x \in mine : TRUE) = room[b]
    BY <2>1
  <2>3. UpdatesFor(b, changes, run.after) = <<UpdateOf(room[b])>>
    BY <2>2 DEF UpdatesFor, UpdateOf
  <2>4. wire[b] \o <<UpdateOf(room[b])>> = Append(wire[b], UpdateOf(room[b]))
    BY <1>3, <1>5, <1>7
  <2> QED
    BY <1>2, <1>3, <1>4, <1>5, <1>7, <2>3, <2>4
<1> QED
  BY <1>6, <1>7

LEMMA SocketStep ==
  ASSUME SocketInv, ServerInv, OwnInv, ListsInv, [Next]_vars
  PROVE  SocketInv'
<1>1. CASE \/ Advance \/ Start \/ Listen \/ AttachHandlers \/ Shutdown \/ CloseSocket \/ Drained
           \/ ForceClose \/ PollBegins \/ PollWrites \/ PollFails
  <2>1. UNCHANGED <<page, link, joining, room, wire>> /\ (bridge => bridge')
    BY <1>1
    DEF Advance, Start, Listen, AttachHandlers, Shutdown, CloseSocket, Drained, ForceClose,
        PollBegins, PollWrites, PollFails, RunKeeps, socketVars, pageVars, serverVars
  <2> QED
    BY <2>1, SocketFrame
<1>2. CASE CloseHttp
  BY <1>2 DEF CloseHttp, SocketInv, SocketFit, socketVars, pageVars
<1>3. CASE StartFails \/ Crash \/ Exit
  <2>1. Gone
    BY <1>3 DEF StartFails, Crash, Exit
  <2> QED
    BY <2>1 DEF Gone, SocketInv, SocketFit
<1>4. CASE Emit
  <2>1. UNCHANGED <<page, link, joining, room, bridge>>
    BY <1>4 DEF Emit, RunKeeps, pageVars, serverVars
  <2>2. \A b \in Browser : room[b] = Nothing => wire'[b] = wire[b]
    BY <1>4, EmitSends, LiveViewAssumption
  <2> QED
    BY <2>1, <2>2 DEF SocketInv, SocketFit
<1>5. ASSUME NEW b \in Browser, NEW m \in Matches, OpenPage(b, m)
      PROVE  SocketInv'
  <2>1. page[b] = Nothing /\ page' = [page EXCEPT ![b] = m]
        /\ UNCHANGED <<link, joining, room, wire, bridge>>
    BY <1>5 DEF OpenPage, socketVars, BrowserKeeps, serverVars
  <2>2. m # Nothing
    BY LiveViewAssumption
  <2> QED
    BY <2>1, <2>2 DEF SocketInv, SocketFit, OwnInv, RoomTypes
<1>6. ASSUME NEW b \in Browser, ClosePage(b) \/ Drop(b)
      PROVE  SocketInv'
  <2>1. /\ link' = [link EXCEPT ![b] = FALSE] /\ joining' = [joining EXCEPT ![b] = FALSE]
        /\ room' = [room EXCEPT ![b] = Nothing] /\ wire' = [wire EXCEPT ![b] = <<>>]
        /\ UNCHANGED bridge
    BY <1>6 DEF ClosePage, Drop, Unplugged, BrowserKeeps, serverVars
  <2>2. \A c \in Browser : c # b => page'[c] = page[c]
    BY <1>6 DEF ClosePage, Drop, pageVars, OwnInv, RoomTypes
  <2> QED
    BY <2>1, <2>2 DEF SocketInv, SocketFit, OwnInv, RoomTypes
<1>7. ASSUME NEW b \in Browser, Connect(b)
      PROVE  SocketInv'
  <2>1. /\ page[b] # Nothing /\ ~link[b] /\ Listening /\ down = "no"
        /\ link' = [link EXCEPT ![b] = TRUE] /\ joining' = [joining EXCEPT ![b] = TRUE]
        /\ UNCHANGED <<page, room, wire, bridge>>
    BY <1>7 DEF Connect, Joins, pageVars, BrowserKeeps, serverVars
  <2>2. bridge
    BY <2>1 DEF ServerInv, Listening, Serving
  <2> QED
    BY <2>1, <2>2 DEF SocketInv, SocketFit, OwnInv, RoomTypes
<1>8. ASSUME NEW b \in Browser, Join(b)
      PROVE  SocketInv'
  <2>1. /\ joining[b] /\ joining' = [joining EXCEPT ![b] = FALSE]
        /\ room' = [room EXCEPT ![b] = page[b]]
        /\ UNCHANGED <<page, link, wire, bridge>>
    BY <1>8 DEF Join, pageVars, BrowserKeeps, serverVars
  <2> QED
    BY <2>1 DEF SocketInv, SocketFit, OwnInv, RoomTypes
<1>9. ASSUME NEW b \in Browser, Receive(b)
      PROVE  SocketInv'
  <2>1. /\ wire[b] # <<>> /\ wire' = [wire EXCEPT ![b] = Tail(@)]
        /\ UNCHANGED <<page, link, joining, room, bridge>>
    BY <1>9 DEF Receive, BrowserKeeps, serverVars
  <2>2. \A c \in Browser : room[c] = Nothing => wire'[c] = wire[c]
    BY <2>1 DEF SocketInv, SocketFit, OwnInv, RoomTypes
  <2> QED
    BY <2>1, <2>2 DEF SocketInv, SocketFit
<1>10. ASSUME NEW b \in Browser, Answer(b) \/ Land(b) \/ FetchFails(b) \/ Refocus(b)
       PROVE  SocketInv'
  <2>1. UNCHANGED <<page, link, joining, room, wire, bridge>>
    BY <1>10 DEF Answer, Land, FetchFails, Refocus, BrowserKeeps, socketVars, serverVars
  <2> QED
    BY <2>1, SocketFrame
<1>11. CASE UNCHANGED vars
  BY <1>11, SocketFrame DEF vars, socketVars, pageVars, serverVars
<1> QED
  BY <1>1, <1>2, <1>3, <1>4, <1>5, <1>6, <1>7, <1>8, <1>9, <1>10, <1>11 DEF Next
(* No copies at first. *)
LEMMA NoFetchIs == NoFetch \in FetchRec /\ NoFetch.pc = "none"
  BY DEF NoFetch, FetchRec, Index

LEMMA AskedIs == Asked \in FetchRec /\ Asked.pc = "asked"
  BY DEF Asked, FetchRec, Index

LEMMA CopiesStart == Init => CopiesInv
<1> SUFFICES ASSUME Init PROVE CopiesInv
  OBVIOUS
<1>1. CachedInv /\ ShownInv
  BY DEF Init, CachedInv, ShownInv, Index
<1>2. FetchInv
  BY NoFetchIs DEF Init, FetchInv, FetchFit
<1>3. WiresInv /\ ExcusedType
  BY DEF Init, WiresInv, ExcusedType
<1> QED
  BY <1>1, <1>2, <1>3 DEF CopiesInv

LEMMA CopiesFrame ==
  ASSUME CopiesInv, UNCHANGED <<cached, shown, fetch, wire, page, excused>>
  PROVE  CopiesInv'
  BY DEF CopiesInv, CachedInv, ShownInv, FetchInv, FetchFit, WiresInv, ExcusedType

(* What goes missing is of matches. *)
LEMMA MissingIs ==
  ASSUME CopiesInv, NEW b \in Browser, NEW ids \in SUBSET Matches
  PROVE  Missing(b, ids) \in SUBSET Matches
  BY DEF Missing, CopiesInv, ExcusedType

LEMMA OnTheWayIs ==
  ASSUME OwnInv, NEW b \in Browser
  PROVE  OnTheWay(b) \in SUBSET Matches /\ \A m \in OnTheWay(b) : m = page[b]
<1>1. wire[b] \in Seq(Update)
  BY DEF OwnInv, RoomTypes
<1>2. \A i \in DOMAIN wire[b] : wire[b][i] \in Update
  BY <1>1
<1> QED
  BY <1>2 DEF OnTheWay, Update, OwnInv, RoomInv

LEMMA UnannouncedIs ==
  ASSUME ListsInv
  PROVE  /\ Unannounced \in SUBSET Matches
         /\ Unannounced = IF run.pc = "emit" THEN ChangedMatches ELSE {}
<1>1. run.pc = "emit" => run.before \in DOMAIN Feed /\ run.after \in DOMAIN Feed
  BY DEF ListsInv
<1> QED
  BY <1>1, ChangesOfMatches DEF Unannounced, ChangedMatches

(* What the loss of a connection does to the copies. *)
LEMMA CopiesUnplugged ==
  ASSUME CopiesInv, OwnInv, NEW b \in Browser, Unplugged(b)
  PROVE  WiresInv' /\ ExcusedType'
<1>1. /\ wire' = [wire EXCEPT ![b] = <<>>]
      /\ excused' = [excused EXCEPT ![b] = Missing(b, OnTheWay(b))]
  BY DEF Unplugged
<1>2. Missing(b, OnTheWay(b)) \in SUBSET Matches
  BY MissingIs, OnTheWayIs
<1>3. WiresInv'
  BY <1>1 DEF CopiesInv, WiresInv, OwnInv, RoomTypes
<1>4. ExcusedType'
  BY <1>1, <1>2 DEF CopiesInv, ExcusedType
<1> QED
  BY <1>3, <1>4

(* One request of one browser changes. *)
LEMMA OneFetch ==
  ASSUME CopiesInv, NEW b \in Browser, NEW f \in FetchRec, fetch' = [fetch EXCEPT ![b] = f],
         f # NoFetch => page'[b] # Nothing,
         f.pc = "answered" => f.answer \in Lists(page'[b]),
         \A c \in Browser : c # b => page'[c] = page[c] /\ shown'[c] = shown[c]
  PROVE  FetchInv'
<1>1. fetch' \in [Browser -> FetchRec] /\ fetch'[b] = f
  BY DEF CopiesInv, FetchInv
<1>2. ASSUME NEW c \in Browser, c # b
      PROVE  FetchFit(c)'
  <2>1. fetch'[c] = fetch[c] /\ page'[c] = page[c] /\ shown'[c] = shown[c]
    BY <1>2 DEF CopiesInv, FetchInv
  <2> QED
    BY <2>1 DEF CopiesInv, FetchInv, FetchFit
<1>3. FetchFit(b)'
  BY <1>1 DEF FetchFit
<1> QED
  BY <1>1, <1>2, <1>3 DEF FetchInv

(* One entry of one browser changes. *)
LEMMA OneEntry ==
  ASSUME CopiesInv, NEW b \in Browser, NEW m \in Matches, NEW i \in {0} \cup Lists(m),
         shown' = [shown EXCEPT ![b][m] = i]
  PROVE  ShownInv' /\ shown'[b][m] = i
<1>1. i \in Index
  BY ListNumbers DEF Index
<1> QED
  BY <1>1 DEF CopiesInv, ShownInv
LEMMA CopiesPoll ==
  ASSUME CopiesInv, OwnInv, ListsInv, ServerInv, PollWrites \/ Emit
  PROVE  CopiesInv'
<1>1. CASE PollWrites
  <2>1. /\ run.pc = "write" /\ UNCHANGED <<shown, fetch, wire, page>>
        /\ \/ cached' = [m \in Matches |-> IF run.after \in Lists(m) THEN run.after ELSE cached[m]]
           \/ UNCHANGED cached
        /\ excused' = IF snapshot = 0 THEN [b \in Browser |-> Missing(b, Matches)] ELSE excused
    BY <1>1 DEF PollWrites, RunKeeps, socketVars, pageVars
  <2>2. run.after \in Index
    BY ListNumbers DEF ServerInv, RunRec
  <2>3. CachedInv'
    BY <2>1, <2>2 DEF CopiesInv, CachedInv
  <2>4. ExcusedType'
    BY <2>1, MissingIs DEF ExcusedType, CopiesInv
  <2> QED
    BY <2>1, <2>3, <2>4 DEF CopiesInv, ShownInv, FetchInv, FetchFit, WiresInv
<1>2. CASE Emit
  <2>1. /\ UNCHANGED <<cached, shown, fetch, page, room>>
        /\ excused' = [b \in Browser |-> Missing(b, {id \in ChangedMatches : CannotHear(b, id)})]
    BY <1>2 DEF Emit, ChangedMatches, RunKeeps, redisVars, pageVars
  <2>2. ExcusedType'
    <3>1. ASSUME NEW b \in Browser
          PROVE  Missing(b, {id \in ChangedMatches : CannotHear(b, id)}) \in SUBSET Matches
      <4>1. {id \in ChangedMatches : CannotHear(b, id)} \in SUBSET Matches
        BY <1>2, EmitSends
      <4> QED
        BY <4>1, MissingIs
    <3> QED
      BY <2>1, <3>1 DEF ExcusedType
  <2>3. WiresInv'
    <3> SUFFICES ASSUME NEW b \in Browser, NEW i \in DOMAIN wire'[b]
                 PROVE  UpdateFit(wire'[b][i])
      BY DEF WiresInv, UpdateFit
    <3> DEFINE u == UpdateOf(room[b])
    <3>1. UpdateFit(u)
      BY DEF UpdateFit, UpdateOf
    <3>2. wire[b] \in Seq(Update) /\ \A j \in DOMAIN wire[b] : UpdateFit(wire[b][j])
      BY DEF CopiesInv, WiresInv, OwnInv, RoomTypes
    <3> HIDE DEF u
    <3>3. CASE wire'[b] = Append(wire[b], u)
      <4>1. \/ i \in DOMAIN wire[b] /\ wire'[b][i] = wire[b][i]
            \/ wire'[b][i] = u
        BY <3>2, <3>3
      <4> QED
        BY <3>1, <3>2, <4>1
    <3>4. CASE wire'[b] = wire[b]
      BY <3>2, <3>4
    <3> QED
      BY <1>2, <3>3, <3>4, EmitSends DEF u
  <2> QED
    BY <2>1, <2>2, <2>3 DEF CopiesInv, CachedInv, ShownInv, FetchInv, FetchFit
<1> QED
  BY <1>1, <1>2

LEMMA CopiesGone ==
  ASSUME CopiesInv, OwnInv, ListsInv, Gone
  PROVE  CopiesInv'
<1>1. /\ UNCHANGED <<cached, shown, fetch, page>> /\ wire' = [b \in Browser |-> <<>>]
      /\ excused' = [b \in Browser |-> Missing(b, OnTheWay(b) \cup Unannounced)]
  BY DEF Gone, redisVars, pageVars
<1>2. \A b \in Browser : Missing(b, OnTheWay(b) \cup Unannounced) \in SUBSET Matches
  BY MissingIs, OnTheWayIs, UnannouncedIs
<1>3. ExcusedType' /\ WiresInv'
  BY <1>1, <1>2 DEF ExcusedType, WiresInv
<1> QED
  BY <1>1, <1>3 DEF CopiesInv, CachedInv, ShownInv, FetchInv, FetchFit

LEMMA CopiesClose ==
  ASSUME CopiesInv, OwnInv, NEW b \in Browser, ClosePage(b)
  PROVE  CopiesInv'
<1>1. /\ page' = [page EXCEPT ![b] = Nothing]
      /\ fetch' = [fetch EXCEPT ![b] = NoFetch]
      /\ Unplugged(b) /\ UNCHANGED <<shown, cached>>
  BY DEF ClosePage, BrowserKeeps, redisVars
<1>2. WiresInv' /\ ExcusedType'
  BY <1>1, CopiesUnplugged
<1>3. FetchInv'
  <2>1. \A c \in Browser : c # b => page'[c] = page[c] /\ shown'[c] = shown[c]
    BY <1>1 DEF OwnInv, RoomTypes
  <2> QED
    BY <1>1, <2>1, NoFetchIs, OneFetch
<1> QED
  BY <1>1, <1>2, <1>3 DEF CopiesInv, CachedInv, ShownInv

LEMMA CopiesReceive ==
  ASSUME CopiesInv, OwnInv, NEW b \in Browser, Receive(b)
  PROVE  CopiesInv'
<1> DEFINE m == page[b]
           u == Head(wire[b])
<1>1. /\ wire[b] # <<>> /\ wire' = [wire EXCEPT ![b] = Tail(@)]
      /\ UNCHANGED <<cached, page, fetch>>
      /\ \/ /\ Stores(b, u) /\ shown' = [shown EXCEPT ![b][m] = u.at]
            /\ excused' = [excused EXCEPT ![b] = @ \ {m}] \/ UNCHANGED excused
         \/ ~Stores(b, u) /\ UNCHANGED <<shown, excused>>
  BY DEF Receive, BrowserKeeps, redisVars
<1>2. /\ wire[b] \in Seq(Update) /\ u = wire[b][1] /\ 1 \in DOMAIN wire[b]
      /\ \A i \in DOMAIN Tail(wire[b]) :
           i + 1 \in DOMAIN wire[b] /\ Tail(wire[b])[i] = wire[b][i + 1]
  BY <1>1 DEF OwnInv, RoomTypes
<1>3. u.id = m /\ m \in Matches /\ UpdateFit(u)
  BY <1>2, LiveViewAssumption DEF OwnInv, RoomInv, CopiesInv, WiresInv, Update
<1>4. Stores(b, u) => u.at \in Lists(m)
  BY <1>3 DEF Stores, UpdateFit
<1> HIDE DEF u, m
<1>5. WiresInv'
  <2>1. \A c \in Browser : wire'[c] = IF c = b THEN Tail(wire[b]) ELSE wire[c]
    BY <1>1 DEF OwnInv, RoomTypes
  <2>2. ASSUME NEW c \in Browser, NEW i \in DOMAIN wire'[c]
        PROVE  UpdateFit(wire'[c][i])
    BY <1>2, <2>1, <2>2 DEF CopiesInv, WiresInv
  <2> QED
    BY <2>2 DEF WiresInv, UpdateFit
<1>6. ExcusedType'
  BY <1>1 DEF CopiesInv, ExcusedType
<1>7. CASE UNCHANGED <<shown, excused>>
  BY <1>1, <1>5, <1>6, <1>7 DEF CopiesInv, CachedInv, ShownInv, FetchInv, FetchFit
<1>8. CASE Stores(b, u) /\ shown' = [shown EXCEPT ![b][m] = u.at]
  <2>1. u.at \in {0} \cup Lists(m) /\ u.at # 0
    BY <1>4, <1>8, ListNumbers
  <2>2. ShownInv' /\ shown'[b][m] = u.at
    BY <1>3, <1>8, <2>1, OneEntry
  <2>3. \A c \in Browser : c # b => page'[c] = page[c] /\ shown'[c] = shown[c]
    BY <1>1, <1>8 DEF CopiesInv, ShownInv
  <2>4. FetchInv'
    <3>1. fetch \in [Browser -> FetchRec] /\ UNCHANGED <<fetch, page>>
      BY <1>1 DEF CopiesInv, FetchInv
    <3>2. ASSUME NEW c \in Browser
          PROVE  FetchFit(c)'
      <4>1. CASE c = b
        BY <2>1, <2>2, <3>1, <4>1 DEF CopiesInv, FetchInv, FetchFit, m
      <4>2. CASE c # b
        BY <2>3, <3>1, <4>2 DEF CopiesInv, FetchInv, FetchFit
      <4> QED
        BY <4>1, <4>2
    <3> QED
      BY <3>1, <3>2 DEF FetchInv
  <2> QED
    BY <1>1, <1>5, <1>6, <2>2, <2>4 DEF CopiesInv, CachedInv
<1> QED
  BY <1>1, <1>7, <1>8

LEMMA CopiesFetch ==
  ASSUME CopiesInv, OwnInv, ListsInv, NEW b \in Browser,
         \/ \E m \in Matches : OpenPage(b, m)
         \/ Answer(b) \/ Land(b) \/ FetchFails(b) \/ Refocus(b)
  PROVE  CopiesInv'
<1>1. ASSUME NEW m \in Matches, OpenPage(b, m)
      PROVE  CopiesInv'
  <2>1. /\ page[b] = Nothing /\ page' = [page EXCEPT ![b] = m]
        /\ fetch' = [fetch EXCEPT ![b] = Asked] \/ UNCHANGED fetch
        /\ UNCHANGED <<cached, shown, wire, excused>>
    BY <1>1 DEF OpenPage, BrowserKeeps, redisVars, socketVars
  <2>2. m # Nothing /\ page'[b] = m
    BY <2>1, LiveViewAssumption DEF OwnInv, RoomTypes
  <2>3. \A c \in Browser : c # b => page'[c] = page[c] /\ shown'[c] = shown[c]
    BY <2>1 DEF OwnInv, RoomTypes
  <2>4. fetch[b] = NoFetch
    BY <2>1 DEF CopiesInv, FetchInv, FetchFit
  <2>5. fetch = [fetch EXCEPT ![b] = NoFetch]
    BY <2>4 DEF CopiesInv, FetchInv
  <2>6. FetchInv'
    <3>1. CASE fetch' = [fetch EXCEPT ![b] = Asked]
      BY <2>2, <2>3, <3>1, AskedIs, OneFetch
    <3>2. CASE UNCHANGED fetch
      BY <2>2, <2>3, <2>5, <3>2, NoFetchIs, OneFetch
    <3> QED
      BY <2>1, <3>1, <3>2
  <2> QED
    BY <2>1, <2>6 DEF CopiesInv, CachedInv, ShownInv, WiresInv, ExcusedType
<1>2. CASE Answer(b)
  <2>1. /\ fetch[b].pc = "asked"
        /\ UNCHANGED <<shown, wire, page, excused>>
    BY <1>2 DEF Answer, socketVars
  <2>2. PICK i \in Lists(page[b]) :
          /\ fetch' = [fetch EXCEPT ![b] = [@ EXCEPT !.pc = "answered", !.answer = i]]
          /\ cached' \in {cached, [cached EXCEPT ![page[b]] = i]}
    BY <1>2 DEF Answer
  <2> DEFINE f == [fetch[b] EXCEPT !.pc = "answered", !.answer = i]
  <2>3. fetch[b] # NoFetch /\ fetch[b] \in FetchRec
    BY <2>1, NoFetchIs DEF CopiesInv, FetchInv
  <2>4. page[b] \in Matches /\ page[b] # Nothing
    BY <2>3 DEF CopiesInv, FetchInv, FetchFit, OwnInv, RoomInv
  <2>5. i \in Index
    BY ListNumbers DEF Index
  <2>6. f \in FetchRec /\ f.answer = i
    BY <2>3, <2>5 DEF FetchRec
  <2>7. fetch' = [fetch EXCEPT ![b] = f]
    BY <2>2 DEF CopiesInv, FetchInv
  <2> HIDE DEF f
  <2>8. FetchInv'
    BY <2>1, <2>3, <2>6, <2>7, OneFetch DEF CopiesInv, FetchInv, FetchFit
  <2>9. CachedInv'
    BY <2>2, <2>4, <2>5 DEF CopiesInv, CachedInv
  <2> QED
    BY <2>1, <2>8, <2>9 DEF CopiesInv, ShownInv, WiresInv, ExcusedType
<1>3. CASE Land(b)
  <2>1. /\ fetch[b].pc = "answered" /\ UNCHANGED <<cached, wire, page>>
        /\ shown' = [shown EXCEPT ![b][page[b]] = fetch[b].answer]
        /\ fetch' = [fetch EXCEPT ![b] = NoFetch]
        /\ \/ excused' = [excused EXCEPT ![b] = @ \ {page[b]}]
           \/ excused' = [excused EXCEPT ![b] = @ \cup {page[b]}]
    BY <1>3 DEF Land, BrowserKeeps, redisVars, socketVars, CopiesInv, ExcusedType
  <2>2. fetch[b] # NoFetch /\ fetch[b].answer \in Lists(page[b])
    BY <2>1, NoFetchIs DEF CopiesInv, FetchInv, FetchFit
  <2>3. page[b] \in Matches
    BY <2>2 DEF CopiesInv, FetchInv, FetchFit, OwnInv, RoomInv
  <2>4. ShownInv'
    BY <2>1, <2>2, <2>3, OneEntry
  <2>5. FetchInv'
    <3>1. \A c \in Browser : c # b => page'[c] = page[c] /\ shown'[c] = shown[c]
      BY <2>1 DEF CopiesInv, ShownInv
    <3> QED
      BY <2>1, <3>1, NoFetchIs, OneFetch
  <2>6. ExcusedType'
    BY <2>1, <2>3 DEF CopiesInv, ExcusedType
  <2> QED
    BY <2>1, <2>4, <2>5, <2>6 DEF CopiesInv, CachedInv, WiresInv
<1>4. CASE FetchFails(b)
  <2>1. /\ fetch' = [fetch EXCEPT ![b] = NoFetch]
        /\ UNCHANGED <<cached, shown, wire, page, excused>>
    BY <1>4 DEF FetchFails, BrowserKeeps, redisVars, socketVars
  <2>2. FetchInv'
    BY <2>1, NoFetchIs, OneFetch
  <2> QED
    BY <2>1, <2>2 DEF CopiesInv, CachedInv, ShownInv, WiresInv, ExcusedType
<1>5. CASE Refocus(b)
  <2>1. /\ page[b] # Nothing /\ fetch' = [fetch EXCEPT ![b] = Asked]
        /\ UNCHANGED <<cached, shown, wire, page, excused>>
    BY <1>5 DEF Refocus, BrowserKeeps, redisVars, socketVars
  <2>2. FetchInv'
    BY <2>1, AskedIs, OneFetch
  <2> QED
    BY <2>1, <2>2 DEF CopiesInv, CachedInv, ShownInv, WiresInv, ExcusedType
<1> QED
  BY <1>1, <1>2, <1>3, <1>4, <1>5

LEMMA CopiesStep ==
  ASSUME CopiesInv, OwnInv, ListsInv, ServerInv, [Next]_vars
  PROVE  CopiesInv'
<1>1. CASE \/ Advance \/ Start \/ Listen \/ AttachHandlers \/ Shutdown \/ CloseHttp \/ CloseSocket
           \/ Drained \/ ForceClose \/ PollBegins \/ PollFails
  <2>1. UNCHANGED <<cached, shown, fetch, wire, page, excused>>
    BY <1>1
    DEF Advance, Start, Listen, AttachHandlers, Shutdown, CloseHttp, CloseSocket, Drained,
        ForceClose, PollBegins, PollFails, RunKeeps, redisVars, socketVars, pageVars
  <2> QED
    BY <2>1, CopiesFrame
<1>2. CASE StartFails \/ Crash \/ Exit
  BY <1>2, CopiesGone DEF StartFails, Crash, Exit
<1>3. ASSUME NEW b \in Browser, Connect(b) \/ Join(b)
      PROVE  CopiesInv'
  BY <1>3, CopiesFrame DEF Connect, Join, BrowserKeeps, redisVars, pageVars
<1>4. ASSUME NEW b \in Browser, Drop(b)
      PROVE  CopiesInv'
  <2>1. Unplugged(b) /\ UNCHANGED <<cached, shown, fetch, page>>
    BY <1>4 DEF Drop, BrowserKeeps, redisVars, pageVars
  <2>2. WiresInv' /\ ExcusedType'
    BY <2>1, CopiesUnplugged
  <2> QED
    BY <2>1, <2>2 DEF CopiesInv, CachedInv, ShownInv, FetchInv, FetchFit
<1>5. CASE UNCHANGED vars
  BY <1>5, CopiesFrame DEF vars, redisVars, socketVars, pageVars
<1> QED
  BY <1>1, <1>2, <1>3, <1>4, <1>5, CopiesPoll, CopiesClose, CopiesReceive, CopiesFetch DEF Next

(* The process, its sockets and the copies on the pages together. *)
LiveInv == ProcessInv /\ ListsInv /\ OwnInv /\ ServerInv /\ SocketInv /\ CopiesInv

THEOREM LiveTypes == Spec => []LiveInv
<1>1. Init => LiveInv
  BY ProcessStart, ListsStart, OwnStart, ServerStart, SocketStart, CopiesStart DEF LiveInv
<1>2. LiveInv /\ [Next]_vars => LiveInv'
  BY ProcessStep, ListsStep, OwnStep, ServerStep, SocketStep, CopiesStep DEF LiveInv
<1> QED
  BY <1>1, <1>2, PTL DEF Spec

(* What a page holds is a match that its list has, and a socket is in no room but that
   of its page, for any number of browsers and any feed. *)
THEOREM PagesTyped == Spec => []TypeOK
<1>1. LiveInv => TypeOK
  <2> SUFFICES ASSUME LiveInv PROVE TypeOK
    OBVIOUS
  <2>1. provider \in DOMAIN Feed /\ snapshot \in 0 .. Len(Feed)
    BY ListNumbers DEF LiveInv, ListsInv, Index
  <2>2. \A b \in Browser : room[b] \in {Nothing, page[b]} /\ (room[b] # Nothing => link[b])
    BY DEF LiveInv, OwnInv, RoomInv, SocketInv, SocketFit
  <2> QED
    BY <2>1, <2>2 DEF TypeOK, LiveInv, ServerInv, RunRec, CopiesInv, CachedInv, ShownInv
<1> QED
  BY <1>1, LiveTypes, PTL
-----------------------------------------------------------------------------
(* What an open page shows *)

(* What has been announced: a run about to emit has written what it announces next. *)
Announced == IF run.pc = "emit" THEN run.before ELSE snapshot

(* UpToDate, with a list v in the place of the snapshot. *)
UpTo(i, m, v) ==
  \/ i >= v
  \/ v \notin Lists(m)
  \/ i \in Lists(m) /\ ChangedFields(Match(i, m), Match(v, m)) = {}

(* Right as far as anything has been announced, or already as the snapshot is. *)
Right(i, m) == UpTo(i, m, snapshot) \/ UpTo(i, m, Announced)

(* Updates are sent in the order of the lists, and the last one is right. *)
WireFit(b) ==
  /\ \A i \in DOMAIN wire[b] : wire[b][i].at <= Announced
  /\ wire[b] # <<>> => Right(wire[b][Len(wire[b])].at, page[b])

(* An entry is right, or it is excused, or its page is about to get an update. *)
EntryFit(b, m) ==
  \/ m \in excused[b] \/ shown[b][m] = 0 \/ Right(shown[b][m], m)
  \/ page[b] = m /\ wire[b] # <<>>

BrowserFit(b) == WireFit(b) /\ \A m \in Matches : EntryFit(b, m)

FreshInv == \A b \in Browser : BrowserFit(b)

LEMMA UpToDateIs == \A i, m : UpToDate(i, m) <=> UpTo(i, m, snapshot)
  BY DEF UpToDate, UpTo

(* Two matches that agree with a third in the fields that are compared. *)
LEMMA FieldsAgree ==
  ASSUME NEW x, NEW y, NEW z, ChangedFields(x, y) = {}, ChangedFields(y, z) = {}
  PROVE  ChangedFields(x, z) = {}
<1>1. \A f \in ComparedFields : FieldValue(x, f) = FieldValue(y, f) /\ FieldValue(y, f) = FieldValue(z, f)
  BY DEF ChangedFields
<1> QED
  BY <1>1 DEF ChangedFields

(* A match that no change is of is the same in both lists, or in neither. *)
LEMMA NoChangeIs ==
  ASSUME NEW v \in DOMAIN Feed, NEW w \in DOMAIN Feed, NEW m,
         m \notin {c.id : c \in DiffMatches(Feed[v], Feed[w])}, w \in Lists(m)
  PROVE  v \in Lists(m) /\ ChangedFields(Match(v, m), Match(w, m)) = {}
<1> DEFINE prev == MatchesById(Feed[v])
           next == MatchesById(Feed[w])
<1>1. m \in DOMAIN next
  BY DEF Lists
<1>2. ASSUME m \notin DOMAIN prev
      PROVE  FALSE
  <2> DEFINE c == Change(m, "added", Null, next[m], {})
  <2>1. c \in DiffMatches(Feed[v], Feed[w]) /\ c.id = m
    BY <1>1, <1>2 DEF DiffMatches, AddedIn, Change
  <2> QED
    BY <2>1
<1>3. ASSUME m \in DOMAIN prev, ChangedFields(prev[m], next[m]) # {}
      PROVE  FALSE
  <2> DEFINE c == Change(m, "changed", prev[m], next[m], ChangedFields(prev[m], next[m]))
  <2>1. c \in DiffMatches(Feed[v], Feed[w])
    BY <1>1, <1>3 DEF DiffMatches, ChangedIn
  <2>2. c.id = m
    BY DEF Change
  <2> QED
    BY <2>1, <2>2
<1> QED
  BY <1>2, <1>3 DEF Lists, Match

(* What was right before an announcement that is not about its match is right after it. *)
LEMMA RightIsCarried ==
  ASSUME NoReturn, NEW v \in DOMAIN Feed, NEW w \in DOMAIN Feed, v <= w, NEW m \in Matches,
         m \notin {c.id : c \in DiffMatches(Feed[v], Feed[w])},
         NEW i \in DOMAIN Feed, i \in Lists(m) \/ i <= v, UpTo(i, m, v)
  PROVE  UpTo(i, m, w)
<1>1. i \in Nat /\ v \in Nat /\ w \in Nat
  BY ListNumbers
<1>2. CASE w \notin Lists(m)
  BY <1>2 DEF UpTo
<1>3. CASE w \in Lists(m)
  <2>1. v \in Lists(m) /\ ChangedFields(Match(v, m), Match(w, m)) = {}
    BY <1>3, NoChangeIs
  <2>2. CASE i >= w
    BY <2>2 DEF UpTo
  <2>3. CASE v <= i /\ i <= w
    <3>1. i \in Lists(m)
      BY <1>1, <2>1, <2>3
    <3>2. ChangedFields(Match(i, m), Match(w, m)) = {}
      BY <1>3, <2>1, <2>3, <3>1 DEF NoReturn
    <3> QED
      BY <3>1, <3>2 DEF UpTo
  <2>4. CASE i < v
    <3>1. i \in Lists(m) /\ ChangedFields(Match(i, m), Match(v, m)) = {}
      BY <1>1, <2>1, <2>4 DEF UpTo
    <3>2. ChangedFields(Match(i, m), Match(w, m)) = {}
      BY <2>1, <3>1, FieldsAgree
    <3> QED
      BY <3>1, <3>2 DEF UpTo
  <2> QED
    BY <1>1, <2>2, <2>3, <2>4
<1> QED
  BY <1>2, <1>3

LEMMA FreshStart == Init => FreshInv
<1> SUFFICES ASSUME Init PROVE FreshInv
  OBVIOUS
<1>1. \A b \in Browser : wire[b] = <<>> /\ \A m \in Matches : shown[b][m] = 0
  BY DEF Init
<1> QED
  BY <1>1 DEF FreshInv, BrowserFit, WireFit, EntryFit

(* A browser in which nothing of this changes. *)
LEMMA BrowserStays ==
  ASSUME NEW b \in Browser, BrowserFit(b), UNCHANGED snapshot, Announced' = Announced,
         wire'[b] = wire[b], page'[b] = page[b], shown'[b] = shown[b], excused'[b] = excused[b]
  PROVE  BrowserFit(b)'
  BY DEF BrowserFit, WireFit, EntryFit, Right

LEMMA FreshFrame ==
  ASSUME FreshInv, UNCHANGED <<snapshot, wire, page, shown, excused>>, Announced' = Announced
  PROVE  FreshInv'
  BY BrowserStays DEF FreshInv

(* What is lost on the way to a page is missing from its entry. *)
LEMMA LostIsMissing ==
  ASSUME OwnInv, NEW b \in Browser, NEW m \in Matches, EntryFit(b, m), NEW lost
  PROVE  \/ m \in Missing(b, OnTheWay(b) \cup lost)
         \/ shown[b][m] = 0
         \/ Right(shown[b][m], m)
<1>1. CASE page[b] = m /\ wire[b] # <<>>
  <2>1. 1 \in DOMAIN wire[b]
    BY <1>1 DEF OwnInv, RoomTypes
  <2>2. wire[b][1].id = m
    BY <1>1, <2>1 DEF OwnInv, RoomInv
  <2>3. m \in OnTheWay(b)
    BY <2>1, <2>2 DEF OnTheWay
  <2> QED
    BY <2>3 DEF Missing
<1>2. CASE m \in excused[b]
  BY <1>2 DEF Missing
<1> QED
  BY <1>1, <1>2 DEF EntryFit
(* The snapshot is written: what was right until now is right until it is announced. *)
LEMMA FreshWrites ==
  ASSUME FreshInv, LiveInv, PollWrites
  PROVE  FreshInv'
<1>1. /\ run.pc = "write" /\ UNCHANGED <<wire, page, shown>>
      /\ snapshot' = IF snapshot = 0 \/ Differs(run) THEN run.after ELSE snapshot
      /\ run' = IF Differs(run) THEN [run EXCEPT !.pc = "emit"] ELSE NoRun
      /\ excused' = IF snapshot = 0 THEN [b \in Browser |-> Missing(b, Matches)] ELSE excused
  BY DEF PollWrites, RunKeeps, socketVars, pageVars
<1>2. run \in RunRec /\ run.before = snapshot /\ Announced = snapshot
  BY <1>1 DEF LiveInv, ServerInv, Announced
<1>3. CASE snapshot = 0
  <2>1. ~Differs(run)
    BY <1>2, <1>3 DEF Differs
  <2>2. \A b \in Browser : wire[b] = <<>>
    <3> SUFFICES ASSUME NEW b \in Browser, wire[b] # <<>> PROVE FALSE
      OBVIOUS
    <3>1. wire[b] \in Seq(Update)
      BY DEF LiveInv, OwnInv, RoomTypes
    <3>2. 1 \in DOMAIN wire[b] /\ wire[b][1] \in Update
      BY <3>1
    <3>3. wire[b][1].at \in DOMAIN Feed /\ wire[b][1].at <= 0
      BY <1>2, <1>3, <3>2 DEF Update, FreshInv, BrowserFit, WireFit
    <3> QED
      BY <3>3, ListNumbers
  <2>3. \A b \in Browser, m \in Matches : m \in excused'[b] \/ shown'[b][m] = 0
    BY <1>1, <1>3 DEF Missing
  <2> QED
    BY <1>1, <2>2, <2>3 DEF FreshInv, BrowserFit, WireFit, EntryFit
<1>4. CASE snapshot # 0 /\ Differs(run)
  <2>1. run'.pc = "emit" /\ run'.before = snapshot
    BY <1>1, <1>2, <1>4 DEF RunRec
  <2>2. Announced' = snapshot
    BY <2>1 DEF Announced
  <2>3. \A i, m : Right(i, m) => Right(i, m)'
    BY <1>2, <2>2 DEF Right
  <2> QED
    BY <1>1, <1>2, <1>4, <2>2, <2>3 DEF FreshInv, BrowserFit, WireFit, EntryFit
<1>5. CASE snapshot # 0 /\ ~Differs(run)
  <2>1. run' = NoRun /\ UNCHANGED <<snapshot, excused>>
    BY <1>1, <1>5
  <2>2. Announced' = Announced
    BY <1>2, <2>1 DEF Announced, NoRun
  <2> QED
    BY <1>1, <2>1, <2>2, FreshFrame
<1> QED
  BY <1>3, <1>4, <1>5

(* What a run about to emit compares. *)
LEMMA EmitCompares ==
  ASSUME LiveInv, run.pc = "emit"
  PROVE  /\ run.before \in DOMAIN Feed /\ snapshot \in DOMAIN Feed
         /\ run.after = snapshot /\ run.before <= snapshot /\ Announced = run.before
         /\ ChangedMatches = {c.id : c \in DiffMatches(Feed[run.before], Feed[snapshot])}
  BY ListNumbers DEF LiveInv, ListsInv, ServerInv, Announced, ChangedMatches

(* The announcement of a run does no harm to an entry it is not about. *)
LEMMA UntouchedStaysRight ==
  ASSUME NoReturn, LiveInv, run.pc = "emit", NEW m \in Matches, m \notin ChangedMatches,
         NEW i \in DOMAIN Feed, i \in Lists(m) \/ i <= run.before, Right(i, m)
  PROVE  UpTo(i, m, snapshot)
  BY EmitCompares, RightIsCarried DEF Right

LEMMA FreshEmit ==
  ASSUME NoReturn, FreshInv, LiveInv, Emit
  PROVE  FreshInv'
<1>1. /\ run.pc = "emit" /\ run' = NoRun /\ UNCHANGED <<snapshot, page, shown>>
      /\ excused' = [b \in Browser |-> Missing(b, {id \in ChangedMatches : CannotHear(b, id)})]
  BY DEF Emit, RunKeeps, redisVars, pageVars, ChangedMatches
<1>2. /\ run.before \in DOMAIN Feed /\ snapshot \in DOMAIN Feed /\ run.before \in Nat
      /\ run.after = snapshot /\ run.before <= snapshot /\ Announced = run.before
      /\ snapshot \in Nat
  BY <1>1, EmitCompares, ListNumbers
<1>3. Announced' = snapshot
  BY <1>1 DEF Announced, NoRun
<1> SUFFICES ASSUME NEW b \in Browser PROVE BrowserFit(b)'
  BY DEF FreshInv
<1>4. /\ wire'[b] = IF bridge /\ room[b] \in ChangedMatches
                    THEN Append(wire[b], UpdateOf(room[b])) ELSE wire[b]
      /\ wire[b] \in Seq(Update) /\ ChangedMatches \subseteq Matches
      /\ room[b] \in ChangedMatches => UpdateOf(room[b]) \in Update
  BY EmitSends DEF LiveInv
<1>5. /\ \A i \in DOMAIN wire[b] : wire[b][i].at <= run.before
      /\ wire[b] # <<>> => Right(wire[b][Len(wire[b])].at, page[b])
      /\ \A i \in DOMAIN wire[b] : wire[b][i] \in Update
  BY <1>2, <1>4 DEF FreshInv, BrowserFit, WireFit
<1>6. /\ room[b] \in {Nothing, page[b]} /\ page[b] \in Matches \cup {Nothing}
      /\ Nothing \notin Matches /\ SocketFit(b)
  BY LiveViewAssumption DEF LiveInv, OwnInv, RoomTypes, RoomInv, SocketInv
<1>7. UpdateOf(room[b]).at = snapshot
  BY <1>2 DEF UpdateOf
<1>8. ASSUME NEW m \in Matches
      PROVE  EntryFit(b, m)'
  <2>1. CASE m \in ChangedMatches /\ CannotHear(b, m)
    BY <1>1, <2>1 DEF EntryFit, Missing
  <2>2. CASE m \in ChangedMatches /\ ~CannotHear(b, m)
    <3>1. page[b] = m /\ link[b] /\ ~joining[b]
      BY <2>2 DEF CannotHear
    <3>2. room[b] = m /\ bridge
      BY <1>6, <3>1 DEF SocketFit
    <3>3. wire'[b] # <<>>
      BY <1>4, <2>2, <3>2
    <3> QED
      BY <1>1, <3>1, <3>3 DEF EntryFit
  <2>3. CASE m \notin ChangedMatches
    <3>1. CASE m \in excused[b] \/ shown[b][m] = 0
      BY <1>1, <3>1 DEF EntryFit, Missing
    <3>2. CASE shown[b][m] # 0 /\ Right(shown[b][m], m)
      <4>1. shown[b][m] \in Lists(m) /\ shown[b][m] \in DOMAIN Feed
        BY <3>2, ListNumbers DEF LiveInv, CopiesInv, ShownInv
      <4>2. UpTo(shown[b][m], m, snapshot)
        BY <1>1, <2>3, <3>2, <4>1, UntouchedStaysRight
      <4> QED
        BY <1>1, <4>2 DEF EntryFit, Right
    <3>3. CASE page[b] = m /\ wire[b] # <<>>
      <4>1. wire'[b] = wire[b]
        BY <1>4, <1>6, <2>3, <3>3
      <4> QED
        BY <1>1, <3>3, <4>1 DEF EntryFit
    <3> QED
      BY <3>1, <3>2, <3>3 DEF FreshInv, BrowserFit, EntryFit
  <2> QED
    BY <2>1, <2>2, <2>3
<1>9. WireFit(b)'
  <2>1. CASE bridge /\ room[b] \in ChangedMatches
    <3> DEFINE u == UpdateOf(room[b])
    <3>1. wire'[b] = Append(wire[b], u) /\ u.at = snapshot /\ u \in Update
      BY <1>4, <1>7, <2>1
    <3> HIDE DEF u
    <3>2. /\ \A i \in DOMAIN wire'[b] : (i \in DOMAIN wire[b] /\ wire'[b][i] = wire[b][i]) \/ wire'[b][i] = u
          /\ wire'[b][Len(wire'[b])] = u
      <4> DEFINE w == wire[b]
      <4>1. w \in Seq(Update) /\ wire'[b] = Append(w, u)
        BY <1>4, <3>1
      <4> HIDE DEF w
      <4>2. \A i \in DOMAIN Append(w, u) : (i \in DOMAIN w /\ Append(w, u)[i] = w[i]) \/ Append(w, u)[i] = u
        BY <3>1, <4>1
      <4>3. Append(w, u)[Len(Append(w, u))] = u
        BY <3>1, <4>1
      <4> QED
        BY <4>1, <4>2, <4>3 DEF w
    <3>3. \A i \in DOMAIN wire'[b] : wire'[b][i].at <= snapshot
      <4>1. \A i \in DOMAIN wire[b] : wire[b][i].at \in Nat /\ wire[b][i].at <= snapshot
        BY <1>2, <1>5, ListNumbers DEF Update
      <4> QED
        BY <1>2, <3>1, <3>2, <4>1
    <3>4. UpTo(u.at, page[b], snapshot)
      BY <1>2, <3>1 DEF UpTo
    <3> QED
      BY <1>1, <1>3, <3>2, <3>3, <3>4 DEF WireFit, Right
  <2>2. CASE ~(bridge /\ room[b] \in ChangedMatches)
    <3>1. wire'[b] = wire[b]
      BY <1>4, <2>2
    <3>2. \A i \in DOMAIN wire[b] : wire[b][i].at <= snapshot
      BY <1>2, <1>5, ListNumbers DEF Update
    <3>3. ASSUME wire[b] # <<>>
          PROVE  UpTo(wire[b][Len(wire[b])].at, page[b], snapshot)
      <4>1. Len(wire[b]) \in DOMAIN wire[b]
        BY <1>4, <3>3
      <4>2. room[b] # Nothing /\ link[b] /\ bridge
        BY <1>6, <3>3 DEF SocketFit
      <4>3. room[b] = page[b] /\ page[b] \in Matches /\ page[b] \notin ChangedMatches
        BY <1>6, <2>2, <4>2
      <4> DEFINE at == wire[b][Len(wire[b])].at
      <4>4. at \in DOMAIN Feed /\ at <= run.before /\ Right(at, page[b])
        BY <1>5, <3>3, <4>1 DEF Update
      <4> HIDE DEF at
      <4>5. UpTo(at, page[b], snapshot)
        BY <1>1, <4>3, <4>4, UntouchedStaysRight
      <4> QED
        BY <4>5 DEF at
    <3> QED
      BY <1>1, <1>3, <3>1, <3>2, <3>3 DEF WireFit, Right
  <2> QED
    BY <2>1, <2>2
<1> QED
  BY <1>8, <1>9 DEF BrowserFit

(* The process goes: what it did not announce and what it had sent is missing. *)
LEMMA FreshGone ==
  ASSUME NoReturn, FreshInv, LiveInv, Gone
  PROVE  FreshInv'
<1>1. /\ run' = NoRun /\ UNCHANGED <<snapshot, page, shown>>
      /\ wire' = [b \in Browser |-> <<>>]
      /\ excused' = [b \in Browser |-> Missing(b, OnTheWay(b) \cup Unannounced)]
  BY DEF Gone, redisVars, pageVars
<1>2. Announced' = snapshot
  BY <1>1 DEF Announced, NoRun
<1>3. \A b \in Browser : WireFit(b)'
  BY <1>1 DEF WireFit
<1> SUFFICES ASSUME NEW b \in Browser, NEW m \in Matches PROVE EntryFit(b, m)'
  BY <1>3 DEF FreshInv, BrowserFit
<1>4. \/ m \in Missing(b, OnTheWay(b) \cup Unannounced)
      \/ shown[b][m] = 0
      \/ Right(shown[b][m], m)
  BY LostIsMissing DEF FreshInv, BrowserFit, LiveInv
<1>5. CASE m \in Missing(b, OnTheWay(b) \cup Unannounced) \/ shown[b][m] = 0
  BY <1>1, <1>5 DEF EntryFit
<1>6. CASE /\ m \notin Missing(b, OnTheWay(b) \cup Unannounced)
           /\ shown[b][m] # 0 /\ Right(shown[b][m], m)
  <2>1. shown[b][m] \in Lists(m) /\ shown[b][m] \in DOMAIN Feed
    BY <1>6, ListNumbers DEF LiveInv, CopiesInv, ShownInv
  <2>2. m \notin Unannounced
    BY <1>6 DEF Missing
  <2>3. UpTo(shown[b][m], m, snapshot)
    <3>1. CASE run.pc = "emit"
      <4>1. m \notin ChangedMatches
        BY <2>2, <3>1, UnannouncedIs DEF LiveInv
      <4> QED
        BY <1>6, <2>1, <3>1, <4>1, UntouchedStaysRight
    <3>2. CASE run.pc # "emit"
      BY <1>6, <3>2 DEF Right, Announced
    <3> QED
      BY <3>1, <3>2
  <2> QED
    BY <1>1, <2>3 DEF EntryFit, Right
<1> QED
  BY <1>4, <1>5, <1>6
(* A browser that loses its connection. *)
LEMMA UnpluggedFits ==
  ASSUME LiveInv, NEW b \in Browser, BrowserFit(b), Unplugged(b),
         UNCHANGED <<snapshot, shown>>, Announced' = Announced
  PROVE  BrowserFit(b)'
<1>1. wire'[b] = <<>> /\ excused'[b] = Missing(b, OnTheWay(b) \cup {})
  BY DEF Unplugged, LiveInv, OwnInv, RoomTypes, CopiesInv, ExcusedType
<1>2. ASSUME NEW m \in Matches
      PROVE  EntryFit(b, m)'
  <2>1. \/ m \in Missing(b, OnTheWay(b) \cup {})
        \/ shown[b][m] = 0
        \/ Right(shown[b][m], m)
    BY LostIsMissing DEF BrowserFit, LiveInv
  <2> QED
    BY <1>1, <2>1 DEF EntryFit, Right
<1> QED
  BY <1>1, <1>2 DEF BrowserFit, WireFit

LEMMA FreshUnplugged ==
  ASSUME FreshInv, LiveInv, NEW b \in Browser, ClosePage(b) \/ Drop(b)
  PROVE  FreshInv'
<1>1. UNCHANGED <<snapshot, run>> /\ Announced' = Announced
  BY DEF ClosePage, Drop, BrowserKeeps, redisVars, Announced
<1>2. ASSUME NEW c \in Browser, c # b
      PROVE  BrowserFit(c)'
  <2>1. wire'[c] = wire[c] /\ excused'[c] = excused[c]
    BY <1>2 DEF ClosePage, Drop, Unplugged, LiveInv, OwnInv, RoomTypes, CopiesInv, ExcusedType
  <2>2. page'[c] = page[c] /\ shown'[c] = shown[c]
    BY <1>2 DEF ClosePage, Drop, pageVars, LiveInv, OwnInv, RoomTypes, CopiesInv, ShownInv
  <2> QED
    BY <1>1, <2>1, <2>2, BrowserStays DEF FreshInv
<1>3. BrowserFit(b)'
  <2>1. Unplugged(b) /\ UNCHANGED shown
    BY DEF ClosePage, Drop, pageVars
  <2> QED
    BY <1>1, <2>1, UnpluggedFits DEF FreshInv
<1> QED
  BY <1>2, <1>3 DEF FreshInv

LEMMA FreshOpen ==
  ASSUME FreshInv, LiveInv, NEW b \in Browser, NEW m \in Matches, OpenPage(b, m)
  PROVE  FreshInv'
<1>1. /\ UNCHANGED <<snapshot, run, wire, shown, excused>> /\ Announced' = Announced
      /\ page[b] = Nothing /\ page' = [page EXCEPT ![b] = m]
  BY DEF OpenPage, BrowserKeeps, redisVars, socketVars, Announced
<1>2. ASSUME NEW c \in Browser, c # b
      PROVE  BrowserFit(c)'
  <2>1. page'[c] = page[c]
    BY <1>1, <1>2 DEF LiveInv, OwnInv, RoomTypes
  <2> QED
    BY <1>1, <2>1, BrowserStays DEF FreshInv
<1>3. wire[b] = <<>>
  BY <1>1 DEF LiveInv, OwnInv, RoomInv
<1>4. BrowserFit(b)'
  BY <1>1, <1>3 DEF FreshInv, BrowserFit, WireFit, EntryFit, Right
<1> QED
  BY <1>2, <1>4 DEF FreshInv

(* An answer that is not right is excused. *)
LEMMA FreshLand ==
  ASSUME FreshInv, LiveInv, NEW b \in Browser, Land(b)
  PROVE  FreshInv'
<1> DEFINE p == page[b]
           i == fetch[b].answer
           new == IF UpToDate(i, p) THEN excused[b] \ {p} ELSE excused[b] \cup {p}
<1>1. /\ fetch[b].pc = "answered" /\ UNCHANGED <<snapshot, run, wire, page>>
      /\ shown' = [shown EXCEPT ![b][p] = i] /\ Announced' = Announced
      /\ excused' = [excused EXCEPT ![b] = new]
  BY DEF Land, BrowserKeeps, redisVars, socketVars, Announced, LiveInv, CopiesInv, ExcusedType
<1>2. p \in Matches
  BY <1>1, NoFetchIs DEF LiveInv, CopiesInv, FetchInv, FetchFit, OwnInv, RoomInv
<1> HIDE DEF p, i
<1>3. ASSUME NEW c \in Browser, c # b
      PROVE  BrowserFit(c)'
  <2>1. shown'[c] = shown[c] /\ excused'[c] = excused[c]
    BY <1>1, <1>3 DEF LiveInv, CopiesInv, ShownInv, ExcusedType
  <2> QED
    BY <1>1, <2>1, BrowserStays DEF FreshInv
<1>4. /\ shown'[b][p] = i /\ \A m \in Matches \ {p} : shown'[b][m] = shown[b][m]
      /\ excused'[b] = new
  BY <1>1, <1>2 DEF LiveInv, CopiesInv, ShownInv, ExcusedType
<1>5. ASSUME NEW m \in Matches
      PROVE  EntryFit(b, m)'
  <2>1. CASE m # p
    <3>1. m \in excused[b] => m \in excused'[b]
      BY <1>4, <2>1
    <3>2. shown'[b][m] = shown[b][m]
      BY <1>4, <2>1
    <3> HIDE DEF new
    <3> QED
      BY <1>1, <2>1, <3>1, <3>2 DEF FreshInv, BrowserFit, EntryFit, Right, p
  <2>2. CASE m = p /\ UpToDate(i, p)
    BY <1>1, <1>4, <2>2, UpToDateIs DEF EntryFit, Right
  <2>3. CASE m = p /\ ~UpToDate(i, p)
    BY <1>4, <2>3 DEF EntryFit
  <2> QED
    BY <2>1, <2>2, <2>3
<1>6. WireFit(b)'
  BY <1>1 DEF FreshInv, BrowserFit, WireFit, Right
<1> QED
  BY <1>3, <1>5, <1>6 DEF FreshInv, BrowserFit

(* What is left of a sequence ends as the sequence did. *)
LEMMA TailEnds ==
  ASSUME NEW S, NEW w \in Seq(S), w # <<>>
  PROVE  /\ Tail(w) # <<>> => Tail(w)[Len(Tail(w))] = w[Len(w)]
         /\ Tail(w) = <<>> => Len(w) = 1
<1>1. PICK t \in Seq(S) : t = Tail(w)
  <2>1. Tail(w) \in Seq(S)
    OBVIOUS
  <2> QED
    BY <2>1, Zenon
<1>2. Len(w) \in Nat /\ Len(t) = Len(w) - 1 /\ Len(<<>>) = 0
  BY <1>1
<1>3. \A j \in 1 .. Len(w) - 1 : t[j] = w[j + 1]
  BY <1>1
<1>4. ASSUME t # <<>>
      PROVE  t[Len(t)] = w[Len(w)]
  <2>1. Len(t) # 0
    BY <1>4
  <2>2. PICK n \in Nat : n = Len(w) - 1 /\ n \in 1 .. Len(w) - 1 /\ n + 1 = Len(w)
    BY <1>2, <2>1
  <2>3. t[n] = w[n + 1]
    BY <1>3, <2>2
  <2> QED
    BY <1>2, <2>2, <2>3
<1>5. ASSUME t = <<>>
      PROVE  Len(w) = 1
  <2>1. Len(t) = 0
    BY <1>2, <1>5
  <2> QED
    BY <1>2, <2>1
<1> QED
  BY <1>1, <1>4, <1>5

(* The last update on the way makes the entry right; one that tells of a match that is
   gone is not stored, and then anything is right. *)
LEMMA FreshReceive ==
  ASSUME FreshInv, LiveInv, NEW b \in Browser, Receive(b)
  PROVE  FreshInv'
<1> PICK p : p = page[b]
  OBVIOUS
<1> DEFINE u == Head(wire[b])
<1>1. /\ wire[b] # <<>> /\ wire' = [wire EXCEPT ![b] = Tail(@)]
      /\ UNCHANGED <<snapshot, run, page>> /\ Announced' = Announced
      /\ \/ /\ Stores(b, u) /\ shown' = [shown EXCEPT ![b][p] = u.at]
            /\ excused' = [excused EXCEPT ![b] = @ \ {p}] \/ UNCHANGED excused
         \/ ~Stores(b, u) /\ UNCHANGED <<shown, excused>>
  BY DEF Receive, BrowserKeeps, redisVars, Announced
<1>2. wire[b] \in Seq(Update) /\ Tail(wire[b]) \in Seq(Update)
  BY <1>1 DEF LiveInv, OwnInv, RoomTypes
<1>3. /\ u = wire[b][1] /\ 1 \in DOMAIN wire[b] /\ wire'[b] = Tail(wire[b])
      /\ \A j \in DOMAIN Tail(wire[b]) :
           j + 1 \in DOMAIN wire[b] /\ Tail(wire[b])[j] = wire[b][j + 1]
  BY <1>1, <1>2 DEF LiveInv, OwnInv, RoomTypes
<1>4. u \in Update /\ u.id = p /\ p \in Matches /\ UpdateFit(u) /\ u.at <= Announced
  <2>1. u \in Update
    BY <1>2, <1>3
  <2>2. u.id = p
    BY <1>3 DEF LiveInv, OwnInv, RoomInv
  <2>3. UpdateFit(u)
    BY <1>3 DEF LiveInv, CopiesInv, WiresInv
  <2>4. u.at <= Announced
    BY <1>3 DEF FreshInv, BrowserFit, WireFit
  <2> QED
    BY <2>1, <2>2, <2>3, <2>4 DEF Update
<1>5. /\ wire'[b] # <<>> => wire'[b][Len(wire'[b])] = wire[b][Len(wire[b])]
      /\ wire'[b] = <<>> => u = wire[b][Len(wire[b])]
  BY <1>1, <1>2, <1>3, TailEnds
<1>6. wire'[b] = <<>> => Right(u.at, p)
  BY <1>1, <1>5 DEF FreshInv, BrowserFit, WireFit
<1> HIDE DEF u
<1>7. ASSUME NEW c \in Browser, c # b
      PROVE  BrowserFit(c)'
  <2>1. wire'[c] = wire[c] /\ shown'[c] = shown[c] /\ excused'[c] = excused[c]
    BY <1>1, <1>7 DEF LiveInv, OwnInv, RoomTypes, CopiesInv, ShownInv, ExcusedType
  <2> QED
    BY <1>1, <2>1, BrowserStays DEF FreshInv
<1>8. WireFit(b)'
  <2>1. \A j \in DOMAIN wire'[b] : wire'[b][j].at <= Announced
    BY <1>3 DEF FreshInv, BrowserFit, WireFit
  <2>2. wire'[b] # <<>> => Right(wire'[b][Len(wire'[b])].at, page[b])
    BY <1>1, <1>5 DEF FreshInv, BrowserFit, WireFit
  <2> QED
    BY <1>1, <2>1, <2>2 DEF WireFit, Right
<1>9. ASSUME NEW m \in Matches, m # p
       PROVE  EntryFit(b, m)'
  <2>1. shown'[b][m] = shown[b][m] /\ (m \in excused[b] => m \in excused'[b])
    BY <1>1, <1>4, <1>9 DEF LiveInv, CopiesInv, ShownInv, ExcusedType
  <2> QED
    BY <1>1, <1>9, <2>1 DEF FreshInv, BrowserFit, EntryFit, Right
<1>10. EntryFit(b, p)'
  <2>1. CASE wire'[b] # <<>>
    BY <1>1, <2>1 DEF EntryFit
  <2>2. CASE wire'[b] = <<>> /\ Stores(b, u) /\ shown' = [shown EXCEPT ![b][p] = u.at]
    <3>1. shown'[b][p] = u.at
      BY <1>4, <2>2 DEF LiveInv, CopiesInv, ShownInv
    <3> QED
      BY <1>1, <1>6, <2>2, <3>1 DEF EntryFit, Right
  <2>3. CASE wire'[b] = <<>> /\ ~Stores(b, u)
    <3>1. u.at \notin Lists(p) /\ Right(u.at, p) /\ u.at <= Announced
      BY <1>4, <1>6, <2>3 DEF Stores, UpdateFit
    <3>2. /\ Announced \in Nat /\ snapshot \in Nat /\ u.at \in Nat
          /\ Announced <= snapshot
      BY <1>4, ListNumbers DEF Announced, LiveInv, ListsInv, ServerInv, RunRec, Update, Index
    <3>3. snapshot \notin Lists(p) \/ Announced \notin Lists(p)
      <4>1. CASE UpTo(u.at, p, snapshot)
        <5>1. snapshot \notin Lists(p) \/ u.at >= snapshot
          BY <3>1, <4>1 DEF UpTo
        <5>2. u.at >= snapshot => u.at = snapshot
          BY <3>1, <3>2
        <5> QED
          BY <3>1, <5>1, <5>2
      <4>2. CASE UpTo(u.at, p, Announced)
        <5>1. Announced \notin Lists(p) \/ u.at >= Announced
          BY <3>1, <4>2 DEF UpTo
        <5>2. u.at >= Announced => u.at = Announced
          BY <3>1, <3>2
        <5> QED
          BY <3>1, <5>1, <5>2
      <4> QED
        BY <3>1, <4>1, <4>2 DEF Right
    <3>4. \A i : Right(i, p)
      BY <3>3 DEF Right, UpTo
    <3> QED
      BY <1>1, <3>4 DEF EntryFit, Right
  <2> QED
    BY <1>1, <2>1, <2>2, <2>3
<1> QED
  BY <1>4, <1>7, <1>8, <1>9, <1>10 DEF FreshInv, BrowserFit

LEMMA FreshStep ==
  ASSUME NoReturn, FreshInv, LiveInv, [Next]_vars
  PROVE  FreshInv'
<1>1. CASE \/ Advance \/ Start \/ Listen \/ AttachHandlers \/ Shutdown \/ CloseHttp \/ CloseSocket
           \/ Drained \/ ForceClose
  <2>1. UNCHANGED <<snapshot, run, wire, page, shown, excused>>
    BY <1>1
    DEF Advance, Start, Listen, AttachHandlers, Shutdown, CloseHttp, CloseSocket, Drained,
        ForceClose, redisVars, socketVars, pageVars
  <2>2. Announced' = Announced
    BY <2>1 DEF Announced
  <2> QED
    BY <2>1, <2>2, FreshFrame
<1>2. CASE PollBegins \/ PollFails
  <2>1. UNCHANGED <<snapshot, wire, page, shown, excused>>
    BY <1>2 DEF PollBegins, PollFails, RunKeeps, redisVars, socketVars, pageVars
  <2>2. Announced' = Announced
    BY <1>2, <2>1 DEF PollBegins, PollFails, Announced, NoRun
  <2> QED
    BY <2>1, <2>2, FreshFrame
<1>3. CASE StartFails \/ Crash \/ Exit
  BY <1>3, FreshGone DEF StartFails, Crash, Exit
<1>4. ASSUME NEW b \in Browser, Connect(b) \/ Join(b) \/ Answer(b) \/ FetchFails(b) \/ Refocus(b)
      PROVE  FreshInv'
  <2>1. UNCHANGED <<snapshot, run, wire, page, shown, excused>>
    BY <1>4 DEF Connect, Join, Answer, FetchFails, Refocus, BrowserKeeps, redisVars, pageVars, socketVars
  <2>2. Announced' = Announced
    BY <2>1 DEF Announced
  <2> QED
    BY <2>1, <2>2, FreshFrame
<1>5. CASE UNCHANGED vars
  <2>1. UNCHANGED <<snapshot, run, wire, page, shown, excused>>
    BY <1>5 DEF vars, redisVars, socketVars, pageVars
  <2>2. Announced' = Announced
    BY <2>1 DEF Announced
  <2> QED
    BY <2>1, <2>2, FreshFrame
<1> QED
  BY <1>1, <1>2, <1>3, <1>4, <1>5, FreshWrites, FreshEmit, FreshUnplugged, FreshOpen, FreshLand,
     FreshReceive DEF Next

(* For any number of browsers, starts, broken connections and visits, and any feed in
   which no match goes back to what it was: an open page shows its match as it was last
   announced, apart from what is excused (socket.js, useMatchSocket.js, useMatches.js). *)
THEOREM PageStaysCurrent ==
  ASSUME NoReturn
  PROVE  Spec => []PageUpToDate
<1>1. FreshInv /\ LiveInv => PageUpToDate
  <2> SUFFICES ASSUME FreshInv, LiveInv, NEW b \in Browser, page[b] # Nothing, wire[b] = <<>>,
                      run.pc # "emit"
               PROVE  \/ page[b] \in excused[b]
                      \/ shown[b][page[b]] = 0
                      \/ UpToDate(shown[b][page[b]], page[b])
    BY DEF PageUpToDate
  <2>1. page[b] \in Matches
    BY DEF LiveInv, OwnInv, RoomInv
  <2>2. Right(shown[b][page[b]], page[b]) => UpTo(shown[b][page[b]], page[b], snapshot)
    BY DEF Right, Announced
  <2> QED
    BY <2>1, <2>2, UpToDateIs DEF FreshInv, BrowserFit, EntryFit
<1>2. FreshInv /\ LiveInv /\ [Next]_vars => FreshInv'
  BY FreshStep
<1> QED
  BY <1>1, <1>2, FreshStart, LiveTypes, PTL DEF Spec
=============================================================================
