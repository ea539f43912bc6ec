------------------------------- MODULE PollJob -------------------------------
(***************************************************************************)
(* The background poll job (src/jobs/pollScores.js) run by any number of   *)
(* server processes that share one Redis and one BullMQ queue.             *)
(*                                                                         *)
(* The provider serves Feed[1], Feed[2], ... in turn; every copy of a      *)
(* match list in the system is named by the index of the list it is a copy *)
(* of, 0 standing for "no such key".  Each await of runPollOnce is a step  *)
(* of its own, so runs of different processes interleave at every one.     *)
(*                                                                         *)
(* A run's lock token (randomUUID) is modelled by the process that runs it *)
(* while the run lasts, and by Orphan once the run is over: a later run of *)
(* the same process never owns it.                                         *)
(***************************************************************************)
EXTENDS MatchDiff

CONSTANTS
  Server,        \* the processes, each with one Worker of concurrency 1
  Slot,          \* the jobs that can be queued or active at one time
  Feed,          \* the match lists the provider serves, in order
  None, Orphan,  \* the lock is free / held by a token no run owns any more
  Attempts,      \* BullMQ attempts per job (3 in the code)
  MaxFaults,     \* bound: provider errors and rejected Redis commands
  MaxLost,       \* bound: SETs that are applied although their reply is lost
  MaxOverruns,   \* bound: runs that outlive the TTL of their lock
  MaxCrashes     \* bound: process crashes

ASSUME FeedAssumption == Len(Feed) \in Nat \ {0}
ASSUME LockAssumption ==
  /\ None \notin Server
  /\ Orphan \notin Server
  /\ None # Orphan
  /\ None \notin Slot
ASSUME BoundAssumption ==
  /\ Attempts \in Nat \ {0}
  /\ MaxFaults \in Nat
  /\ MaxLost \in Nat
  /\ MaxOverruns \in Nat
  /\ MaxCrashes \in Nat

VARIABLES
  feed,      \* index of the list the provider serves now
  job,       \* [Slot -> [state, attempts]], the BullMQ jobs
  run,       \* [Server -> [pc, slot, matches, prev, outcome]]
  lock,      \* poll:lock
  overran,   \* processes whose current run lost its lock to the TTL
  snapshot,  \* poll:snapshot
  emitted,   \* history: the matchUpdated emits, [before, after] each
  spent      \* how much of each bound is used up

vars == <<feed, job, run, lock, overran, snapshot, emitted, spent>>

Version == 1 .. Len(Feed)

Diff(v, w) == DiffMatches(Feed[v], Feed[w])

\* The awaits a run can be at between its SET NX and the end of its finally.
CriticalPc == {"fetch", "get", "seed", "write", "warmQuiet", "warm", "emit", "release"}

Critical(p) == run[p].pc \in CriticalPc

Pc == CriticalPc \cup {"idle", "lock", "settle", "down"}

RunRecord == [pc : Pc, slot : Slot \cup {None}, matches : 0 .. Len(Feed),
              prev : 0 .. Len(Feed), outcome : {"ok", "transient", "parse"}]

JobRecord == [state : {"absent", "waiting", "active"}, attempts : 0 .. Attempts - 1]

SpentRecord == [faults : 0 .. MaxFaults, lost : 0 .. MaxLost,
                overruns : 0 .. MaxOverruns, crashes : 0 .. MaxCrashes]

NoRun == [pc |-> "idle", slot |-> None, matches |-> 0, prev |-> 0, outcome |-> "ok"]

\* A run that was just handed the job in slot s.
NewRun(s) == [pc |-> "lock", slot |-> s, matches |-> 0, prev |-> 0, outcome |-> "ok"]

GoTo(p, pc) == run' = [run EXCEPT ![p].pc = pc]

\* The run goes on with these local variables.
Carry(p, pc, matches, prev) ==
  run' = [run EXCEPT ![p] = [pc |-> pc, slot |-> run[p].slot, matches |-> matches,
                             prev |-> prev, outcome |-> "ok"]]

\* Control leaves the body of runPollOnce with this outcome.
Finish(p, pc, outcome) ==
  run' = [run EXCEPT ![p] = [pc |-> pc, slot |-> run[p].slot, matches |-> 0,
                             prev |-> 0, outcome |-> outcome]]

Fault == /\ spent.faults < MaxFaults
         /\ spent' = [spent EXCEPT !.faults = @ + 1]

LostReply == /\ spent.lost < MaxLost
             /\ spent' = [spent EXCEPT !.lost = @ + 1]

-----------------------------------------------------------------------------
Init ==
  /\ feed = 1
  /\ job = [s \in Slot |-> [state |-> "absent", attempts |-> 0]]
  /\ run = [p \in Server |-> NoRun]
  /\ lock = None
  /\ overran = {}
  /\ snapshot = 0
  /\ emitted = <<>>
  /\ spent = [faults |-> 0, lost |-> 0, overruns |-> 0, crashes |-> 0]

\* The provider serves its next list.
Advance ==
  /\ feed < Len(Feed)
  /\ feed' = feed + 1
  /\ UNCHANGED <<job, run, lock, overran, snapshot, emitted, spent>>

-----------------------------------------------------------------------------
(* BullMQ: the scheduler, the delivery of a job, its retries and stalls. *)

Tick(s) ==
  /\ job[s].state = "absent"
  /\ job' = [job EXCEPT ![s] = [state |-> "waiting", attempts |-> 0]]
  /\ UNCHANGED <<feed, run, lock, overran, snapshot, emitted, spent>>

Take(p, s) ==
  /\ run[p].pc = "idle"
  /\ job[s].state = "waiting"
  /\ job' = [job EXCEPT ![s].state = "active"]
  /\ run' = [run EXCEPT ![p] = NewRun(s)]
  /\ UNCHANGED <<feed, lock, overran, snapshot, emitted, spent>>

\* Mutant: the attempts are not limited.
AfterOutcome_unlimited(entry, outcome) ==
  IF outcome = "transient"
  THEN [state |-> "waiting", attempts |-> entry.attempts + 1]
  ELSE [state |-> "absent", attempts |-> 0]

\* What BullMQ does with a job whose processor ended: a success and an
\* UnrecoverableError ("parse") end it, another error uses up an attempt.
AfterOutcome(entry, outcome) ==
  IF outcome = "transient" /\ entry.attempts + 1 < Attempts
  THEN [state |-> "waiting", attempts |-> entry.attempts + 1]
  ELSE [state |-> "absent", attempts |-> 0]

Settle(p) ==
  /\ run[p].pc = "settle"
  /\ job' = [job EXCEPT ![run[p].slot] = AfterOutcome(@, run[p].outcome)]
  /\ run' = [run EXCEPT ![p] = NoRun]
  /\ UNCHANGED <<feed, lock, overran, snapshot, emitted, spent>>

\* The job of a dead worker is handed out again, or failed when it has
\* stalled too often.
Stall(s) ==
  /\ job[s].state = "active"
  /\ \A p \in Server : run[p].slot # s
  /\ \E state \in {"waiting", "absent"} : job' = [job EXCEPT ![s].state = state]
  /\ UNCHANGED <<feed, run, lock, overran, snapshot, emitted, spent>>

-----------------------------------------------------------------------------
(* runPollOnce *)

\* Mutant: SET without NX.
LockGranted_noNX == TRUE

LockGranted == lock = None

AcquireLock(p) ==
  /\ run[p].pc = "lock"
  /\ \/ /\ LockGranted
        /\ lock' = p
        /\ GoTo(p, "fetch")
     \/ /\ ~LockGranted               \* poll skipped (locked): a success
        /\ Finish(p, "settle", "ok")
        /\ UNCHANGED lock
  /\ UNCHANGED <<feed, job, overran, snapshot, emitted, spent>>

\* SET NX rejects before the try, so nothing is released.  When the reply was
\* lost the key may be set, and a command ioredis sends again then finds it set.
AcquireLockRejects(p) ==
  /\ run[p].pc = "lock"
  /\ \/ /\ Fault
        /\ Finish(p, "settle", "transient")
        /\ UNCHANGED lock
     \/ /\ LostReply
        /\ lock = None
        /\ lock' = Orphan
        /\ \E outcome \in {"ok", "transient"} : Finish(p, "settle", outcome)
  /\ UNCHANGED <<feed, job, overran, snapshot, emitted>>

\* The provider answers with the list it serves at that moment.
GetLiveMatches(p) ==
  /\ run[p].pc = "fetch"
  /\ Carry(p, "get", feed, 0)
  /\ UNCHANGED <<feed, job, lock, overran, snapshot, emitted, spent>>

\* ApiUnavailableError or ApiRateLimitError, and ApiParseError.
GetLiveMatchesFails(p) ==
  /\ run[p].pc = "fetch"
  /\ Fault
  /\ \E outcome \in {"transient", "parse"} : Finish(p, "release", outcome)
  /\ UNCHANGED <<feed, job, lock, overran, snapshot, emitted>>

AfterGet(prev, matches) ==
  IF prev = 0 THEN "seed"
  ELSE IF Diff(prev, matches) = {} THEN "warmQuiet"
  ELSE "write"

GetSnapshot(p) ==
  /\ run[p].pc = "get"
  /\ Carry(p, AfterGet(snapshot, run[p].matches), run[p].matches, snapshot)
  /\ UNCHANGED <<feed, job, lock, overran, snapshot, emitted, spent>>

\* Mutant: the first run announces its seed.
AfterSnapshot_seedAnnounced(pc) == "warm"

AfterSnapshot(pc) == IF pc = "seed" THEN "warmQuiet" ELSE "warm"

SetSnapshot(p) ==
  /\ run[p].pc \in {"seed", "write"}
  /\ snapshot' = run[p].matches
  /\ GoTo(p, AfterSnapshot(run[p].pc))
  /\ UNCHANGED <<feed, job, lock, overran, emitted, spent>>

\* A rejected GET or SET of the snapshot fails the run; a rejected SET may
\* have been applied when only its reply was lost.
SnapshotRejects(p) ==
  /\ run[p].pc \in {"get", "seed", "write"}
  /\ Finish(p, "release", "transient")
  /\ \/ Fault /\ UNCHANGED snapshot
     \/ LostReply /\ run[p].pc # "get" /\ snapshot' = run[p].matches
  /\ UNCHANGED <<feed, job, lock, overran, emitted>>

\* warmCache writes the match:* keys, which ReadCache has one by one, and never throws.
WarmCache(p) ==
  /\ run[p].pc \in {"warmQuiet", "warm"}
  /\ IF run[p].pc = "warm" THEN GoTo(p, "emit") ELSE Finish(p, "release", "ok")
  /\ UNCHANGED <<feed, job, lock, overran, snapshot, emitted, spent>>

\* matchUpdated and the semantic events, in one synchronous turn.
Emit(p) ==
  /\ run[p].pc = "emit"
  /\ emitted' = Append(emitted, [before |-> run[p].prev, after |-> run[p].matches])
  /\ Finish(p, "release", "ok")
  /\ UNCHANGED <<feed, job, lock, overran, snapshot, spent>>

\* Mutant: a blind DEL instead of the token-checked script.
LockAfterRelease_blindDel(p) == None

LockAfterRelease(p) == IF lock = p THEN None ELSE lock

ReleaseLock(p) ==
  /\ run[p].pc = "release"
  /\ lock' = LockAfterRelease(p)
  /\ GoTo(p, "settle")
  /\ overran' = overran \ {p}
  /\ UNCHANGED <<feed, job, snapshot, emitted, spent>>

\* The rejection is swallowed; the key stays until its TTL.
ReleaseLockRejects(p) ==
  /\ run[p].pc = "release"
  /\ Fault
  /\ lock' = IF lock = p THEN Orphan ELSE lock
  /\ GoTo(p, "settle")
  /\ overran' = overran \ {p}
  /\ UNCHANGED <<feed, job, snapshot, emitted>>

-----------------------------------------------------------------------------
(* The TTL of the lock, crashes and restarts. *)

\* Mutant: the lock is set without PX.
HasTtl_noPX == FALSE

HasTtl == TRUE

ExpireOrphan ==
  /\ HasTtl
  /\ lock = Orphan
  /\ lock' = None
  /\ UNCHANGED <<feed, job, run, overran, snapshot, emitted, spent>>

\* The TTL runs out while the run that set it is still under way.
Overrun(p) ==
  /\ HasTtl
  /\ lock = p
  /\ spent.overruns < MaxOverruns
  /\ spent' = [spent EXCEPT !.overruns = @ + 1]
  /\ lock' = None
  /\ overran' = overran \cup {p}
  /\ UNCHANGED <<feed, job, run, snapshot, emitted>>

Crash(p) ==
  /\ run[p].pc # "down"
  /\ spent.crashes < MaxCrashes
  /\ spent' = [spent EXCEPT !.crashes = @ + 1]
  /\ run' = [run EXCEPT ![p] = [NoRun EXCEPT !.pc = "down"]]
  /\ lock' = IF lock = p THEN Orphan ELSE lock
  /\ overran' = overran \ {p}
  /\ UNCHANGED <<feed, job, snapshot, emitted>>

Restart(p) ==
  /\ run[p].pc = "down"
  /\ run' = [run EXCEPT ![p] = NoRun]
  /\ UNCHANGED <<feed, job, lock, overran, snapshot, emitted, spent>>

-----------------------------------------------------------------------------
RunStep(p) ==
  \/ AcquireLock(p) \/ AcquireLockRejects(p)
  \/ GetLiveMatches(p) \/ GetLiveMatchesFails(p)
  \/ GetSnapshot(p) \/ SetSnapshot(p) \/ SnapshotRejects(p)
  \/ WarmCache(p) \/ Emit(p)
  \/ ReleaseLock(p) \/ ReleaseLockRejects(p)
  \/ Settle(p)

Next ==
  \/ Advance
  \/ \E s \in Slot : Tick(s) \/ Stall(s)
  \/ \E p \in Server : \E s \in Slot : Take(p, s)
  \/ \E p \in Server : RunStep(p)
  \/ ExpireOrphan
  \/ \E p \in Server : Overrun(p) \/ Crash(p) \/ Restart(p)

Spec == Init /\ [][Next]_vars

\* Every await settles (axios and Redis commands time out), the scheduler keeps
\* adding jobs, idle workers take them, stalled jobs are found, keys expire and
\* the container is restarted.  Nothing makes the provider move on or fail.
Fairness ==
  /\ \A s \in Slot : WF_vars(Tick(s)) /\ WF_vars(Stall(s))
  /\ WF_vars(\E p \in Server : \E s \in Slot : Take(p, s))
  /\ \A p \in Server : WF_vars(RunStep(p)) /\ WF_vars(Restart(p))
  /\ WF_vars(ExpireOrphan)

FairSpec == Spec /\ Fairness

-----------------------------------------------------------------------------
(* Properties *)

\* Every variable stays in its type.
TypeOK ==
  /\ feed \in Version
  /\ job \in [Slot -> JobRecord]
  /\ run \in [Server -> RunRecord]
  /\ lock \in Server \cup {None, Orphan}
  /\ overran \subseteq Server
  /\ snapshot \in 0 .. Len(Feed)
  /\ emitted \in Seq([before : 0 .. Len(Feed), after : 0 .. Len(Feed)])
  /\ spent \in SpentRecord

\* A run between its SET NX and the end of its finally holds poll:lock, or its
\* own TTL ran out: no release, crash or restart of another run costs it the lock.
LockKept == \A p \in Server : Critical(p) => lock = p \/ p \in overran

\* The announcements go forward: none repeats, or goes back behind, an earlier one.
EmitsForward ==
  \A i, j \in 1 .. Len(emitted) :
    i < j => emitted[i].after <= emitted[j].before

\* "An overlapping / retried / second-instance run can never double-emit": so it is
\* as long as no run outlives its lock.
NeverEmittedTwice == spent.overruns = 0 => EmitsForward

\* Why it is so, as an inductive invariant of the runs without overruns: the run
\* in the critical section is alone, what it fetched is no older than the
\* snapshot, and nothing announced is newer than what it announces from.
RunInOrder(p) ==
  /\ run[p].pc \in {"get", "seed", "write", "warmQuiet", "warm", "emit"}
       => run[p].matches \in 1 .. feed /\ snapshot <= run[p].matches
  /\ run[p].pc = "seed" => snapshot = 0
  /\ run[p].pc = "write" => run[p].prev = snapshot /\ 0 < snapshot
                                                 /\ snapshot < run[p].matches
  /\ run[p].pc \in {"warm", "emit"} =>
       /\ snapshot = run[p].matches
       /\ \A i \in 1 .. Len(emitted) : emitted[i].after <= run[p].prev

InOrder ==
  /\ overran = {}
  /\ snapshot <= feed
  /\ \A i \in 1 .. Len(emitted) : emitted[i].after <= snapshot
  /\ \A p \in Server : RunInOrder(p)
  /\ EmitsForward

\* What the provider serves last ends up in the snapshot for good, whatever
\* failed, stalled or crashed on the way: nothing wedges the poller.
CatchesUp ==
  feed = Len(Feed) ~> [](snapshot # 0 /\ Diff(snapshot, Len(Feed)) = {})

\* A change a run is about to write to the snapshot is announced in the end, by
\* that run or a later one ("a missed emit self-heals on the next poll").
MissedEmitHeals ==
  \A p \in Server, v \in Version :
    (run[p].pc = "write" /\ run[p].matches = v)
      ~> \E i \in 1 .. Len(emitted) : emitted[i].after >= v

\* What an event tells its followers of.
Fact(e) ==
  <<e.name, e.matchId,
    CASE e.name = "matchStarted"     -> <<>>
      [] e.name = "wicketFallen"     -> <<e.teamName, e.wickets>>
      [] e.name = "milestoneReached" -> <<e.teamName, e.milestone>> >>

\* The facts the semantic events of the i-th announcement tell.
FactsOf(i) ==
  {Fact(e) : e \in DeriveMatchEvents(Diff(emitted[i].before, emitted[i].after))}

LiveIn(v, id) ==
  id \in DOMAIN MatchesById(Feed[v]) /\ MatchesById(Feed[v])[id].status = "live"

\* A feed of matches as they are played: figures are numbers, no match and no team
\* leaves it, no total falls, and a match is live for one stretch of it.
FeedGrows ==
  LET table(v) == MatchesById(Feed[v])
  IN  /\ \A v \in Version :
           /\ Len(Feed[v]) \in Nat /\ DOMAIN Feed[v] = 1 .. Len(Feed[v])
           /\ \A i \in DOMAIN Feed[v] :
                LET match == Feed[v][i]
                IN  match # Null /\ (match.score # Null =>
                      \A t \in DOMAIN match.score :
                        match.score[t].runs \in Nat /\ match.score[t].wkts \in Nat)
      /\ \A v, w \in Version : v <= w =>
           \A id \in DOMAIN table(v) :
             /\ id \in DOMAIN table(w)
             /\ \A t \in DOMAIN RunsOf(table(v)[id]) :
                  /\ t \in DOMAIN RunsOf(table(w)[id])
                  /\ RunsOf(table(v)[id])[t] <= RunsOf(table(w)[id])[t]
                  /\ WicketsOf(table(v)[id])[t] <= WicketsOf(table(w)[id])[t]
      /\ \A u, v, w \in Version : u <= v /\ v <= w =>
           \A id \in DOMAIN table(w) : LiveIn(u, id) /\ LiveIn(w, id) => LiveIn(v, id)

\* Over a feed whose figures only grow, no wicket and no milestone is announced
\* twice ("these events never fire twice for the same change").
NoEventTwice ==
  \A i, j \in 1 .. Len(emitted) : i # j => FactsOf(i) \cap FactsOf(j) = {}

\* So it is as long as no run outlives its lock.
EventsNeverRepeat == spent.overruns = 0 => NoEventTwice

-----------------------------------------------------------------------------
(* The job as an implementation of ChangeFeed: an announcement happens there when
   it is emitted, so while a run is between its SET and its emit the subscribers
   still know what that run compared with. *)

Announcing == {p \in Server : run[p].pc \in {"warm", "emit"}}

ToldNow ==
  IF Announcing = {} THEN snapshot ELSE run[CHOOSE p \in Announcing : TRUE].prev

Promise == INSTANCE ChangeFeed WITH
  latest <- feed, told <- ToldNow, log <- emitted, losses <- spent.crashes + spent.lost

\* Without overruns the job keeps the promise, however many provider calls and
\* Redis commands fail: no repetition, only forward, only on a change, a gap only
\* for a crash or a lost reply, and told of the last list in the end.
KeepsPromise == Promise!FeedSpec
=============================================================================
