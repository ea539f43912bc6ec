---------------------------- MODULE PollJobProofs ----------------------------
(***************************************************************************)
(* Proofs about PollJob, for any number of processes and jobs, any feed    *)
(* and any bounds on faults, overruns and crashes.                         *)
(***************************************************************************)
EXTENDS PollJob, MatchDiffProofs, TLAPS

(* Two lists that are the same yield no change. *)
LEMMA DiffOfSame == \A v \in Version : Diff(v, v) = {}
<1>1. TAKE v \in Version
<1> DEFINE m == MatchesById(Feed[v])
<1>2. \A id : ChangedFields(m[id], m[id]) = {}
  BY DEF ChangedFields
<1>3. AddedIn(m, m) = {} /\ RemovedIn(m, m) = {}
  BY DEF AddedIn, RemovedIn
<1>4. ChangedIn(m, m) = {}
  BY <1>2 DEF ChangedIn
<1> QED
  BY <1>3, <1>4 DEF Diff, DiffMatches

-----------------------------------------------------------------------------
(* How the helpers that move a run change it, and that they keep its type. *)

Outcome == {"ok", "transient", "parse"}

(* The state of an idle process is well typed. *)
LEMMA NoRunType == NoRun \in RunRecord
  BY FeedAssumption DEF RunRecord, NoRun, Pc, CriticalPc

(* So is that of a run that was just handed a job. *)
LEMMA NewRunType == \A s \in Slot : NewRun(s) \in RunRecord
  BY FeedAssumption DEF RunRecord, NewRun, Pc, CriticalPc

(* So is that of a process that is down. *)
LEMMA DownType == [NoRun EXCEPT !.pc = "down"] \in RunRecord
  BY FeedAssumption DEF RunRecord, NoRun, Pc, CriticalPc

(* GoTo changes the place of one run, and nothing else of it or of others. *)
LEMMA GoToType ==
  ASSUME run \in [Server -> RunRecord], NEW p \in Server, NEW pc \in Pc, GoTo(p, pc)
  PROVE  /\ run' \in [Server -> RunRecord]
         /\ run'[p].pc = pc
         /\ run'[p].matches = run[p].matches
         /\ run'[p].prev = run[p].prev
         /\ \A q \in Server : q # p => run'[q] = run[q]
  BY DEF RunRecord, GoTo

(* Finish moves one run only, to a well-typed state. *)
LEMMA FinishType ==
  ASSUME run \in [Server -> RunRecord], NEW p \in Server, NEW pc \in Pc,
         NEW outcome \in Outcome, Finish(p, pc, outcome)
  PROVE  /\ run' \in [Server -> RunRecord]
         /\ run'[p].pc = pc
         /\ \A q \in Server : q # p => run'[q] = run[q]
  BY FeedAssumption DEF RunRecord, Finish, Outcome

(* Replacing one run by a well-typed one keeps run well typed. *)
LEMMA ReplaceType ==
  ASSUME run \in [Server -> RunRecord], NEW p \in Server, NEW r \in RunRecord,
         run' = [run EXCEPT ![p] = r]
  PROVE  /\ run' \in [Server -> RunRecord]
         /\ run'[p] = r
         /\ \A q \in Server : q # p => run'[q] = run[q]
  OBVIOUS

(* Carry sets the place and the local variables of one run only. *)
LEMMA CarryType ==
  ASSUME run \in [Server -> RunRecord], NEW p \in Server, NEW pc \in Pc,
         NEW matches \in 0 .. Len(Feed), NEW prev \in 0 .. Len(Feed),
         Carry(p, pc, matches, prev)
  PROVE  /\ run' \in [Server -> RunRecord]
         /\ run'[p].pc = pc
         /\ run'[p].matches = matches
         /\ run'[p].prev = prev
         /\ \A q \in Server : q # p => run'[q] = run[q]
  BY DEF RunRecord, Carry

(* The places that are named in the actions are places. *)
LEMMA PcNames == {"idle", "lock", "fetch", "get", "seed", "write", "warmQuiet", "warm",
                  "emit", "release", "settle", "down"} \subseteq Pc
  BY DEF Pc, CriticalPc

(* The outcomes that are named in the actions are outcomes. *)
LEMMA OutcomeNames == "ok" \in Outcome /\ "transient" \in Outcome /\ "parse" \in Outcome
  BY DEF Outcome

(* Settling a job leaves a well-typed job; Attempts bounds its counter. *)
LEMMA AfterOutcomeType ==
  \A entry \in JobRecord, outcome \in Outcome : AfterOutcome(entry, outcome) \in JobRecord
  BY BoundAssumption DEF AfterOutcome, JobRecord, Outcome

(* A step that uses up one unit of a bound stays within it, and only an overrun
   counts as one. *)
LEMMA SpendType ==
  ASSUME spent \in SpentRecord
  PROVE  /\ Fault \/ LostReply => spent' \in SpentRecord /\ spent'.overruns = spent.overruns
         /\ spent.crashes < MaxCrashes /\ spent' = [spent EXCEPT !.crashes = @ + 1]
              => spent' \in SpentRecord /\ spent'.overruns = spent.overruns
         /\ spent.overruns < MaxOverruns /\ spent' = [spent EXCEPT !.overruns = @ + 1]
              => spent' \in SpentRecord /\ spent'.overruns # 0
<1>1. /\ spent.faults < MaxFaults => spent.faults + 1 \in 0 .. MaxFaults
      /\ spent.lost < MaxLost => spent.lost + 1 \in 0 .. MaxLost
      /\ spent.overruns < MaxOverruns => spent.overruns + 1 \in 0 .. MaxOverruns
      /\ spent.crashes < MaxCrashes => spent.crashes + 1 \in 0 .. MaxCrashes
  BY BoundAssumption DEF SpentRecord
<1>2. spent.overruns + 1 # 0
  BY BoundAssumption DEF SpentRecord
<1> QED
  BY <1>1, <1>2 DEF SpentRecord, Fault, LostReply

-----------------------------------------------------------------------------
(* Every step keeps every variable in its type; the base of all that follows. *)
THEOREM TypeCorrect == Spec => []TypeOK
<1>1. Init => TypeOK
  <2> SUFFICES ASSUME Init PROVE TypeOK
    OBVIOUS
  <2>1. run \in [Server -> RunRecord]
    BY FeedAssumption DEF Init, NoRun, RunRecord, Pc, CriticalPc
  <2>2. job \in [Slot -> JobRecord]
    BY BoundAssumption DEF Init, JobRecord
  <2>3. emitted \in Seq([before : 0 .. Len(Feed), after : 0 .. Len(Feed)])
    BY DEF Init
  <2> QED
    BY <2>1, <2>2, <2>3, FeedAssumption, BoundAssumption DEF Init, TypeOK, Version, SpentRecord
<1>2. TypeOK /\ [Next]_vars => TypeOK'
  <2> SUFFICES ASSUME TypeOK, [Next]_vars PROVE TypeOK'
    OBVIOUS
  <2>0. /\ run \in [Server -> RunRecord] /\ job \in [Slot -> JobRecord]
        /\ snapshot \in 0 .. Len(Feed)
        /\ overran \subseteq Server
    BY DEF TypeOK
  <2>a. Fault \/ LostReply => spent' \in SpentRecord
    BY SpendType DEF TypeOK
  <2>b. \A p \in Server : run[p].matches \in 0 .. Len(Feed) /\ run[p].prev \in 0 .. Len(Feed) /\ run[p].slot \in Slot \cup {None}
    BY <2>0 DEF RunRecord
  <2>1. CASE Advance
    BY <2>1, FeedAssumption DEF Advance, TypeOK, Version
  <2>2. ASSUME NEW s \in Slot, Tick(s) PROVE TypeOK'
    <3>1. job' \in [Slot -> JobRecord]
      BY <2>0, <2>2, BoundAssumption DEF Tick, JobRecord
    <3> QED
      BY <2>2, <3>1 DEF Tick, TypeOK
  <2>3. ASSUME NEW s \in Slot, Stall(s) PROVE TypeOK'
    <3>1. job' \in [Slot -> JobRecord]
      BY <2>0, <2>3 DEF Stall, JobRecord
    <3> QED
      BY <2>3, <3>1 DEF Stall, TypeOK
  <2>4. ASSUME NEW p \in Server, NEW s \in Slot, Take(p, s) PROVE TypeOK'
    <3>1. job' \in [Slot -> JobRecord]
      BY <2>0, <2>4 DEF Take, JobRecord
    <3>2. run' \in [Server -> RunRecord]
      BY <2>0, <2>4, NewRunType, ReplaceType DEF Take
    <3> QED
      BY <2>4, <3>1, <3>2 DEF Take, TypeOK
  <2>5. ASSUME NEW p \in Server, AcquireLock(p) PROVE TypeOK'
    <3>1. run' \in [Server -> RunRecord]
      BY <2>0, <2>5, GoToType, FinishType, PcNames, OutcomeNames DEF AcquireLock
    <3> QED
      BY <2>5, <3>1 DEF AcquireLock, TypeOK
  <2>6. ASSUME NEW p \in Server, AcquireLockRejects(p) PROVE TypeOK'
    <3>1. run' \in [Server -> RunRecord]
      BY <2>0, <2>6, FinishType, PcNames, OutcomeNames DEF AcquireLockRejects
    <3> QED
      BY <2>6, <2>a, <3>1 DEF AcquireLockRejects, TypeOK
  <2>7. ASSUME NEW p \in Server, GetLiveMatches(p) PROVE TypeOK'
    <3>1. run' \in [Server -> RunRecord]
      BY <2>7, <2>0, CarryType, PcNames, FeedAssumption DEF GetLiveMatches, TypeOK, Version
    <3> QED
      BY <2>7, <3>1 DEF GetLiveMatches, TypeOK
  <2>8. ASSUME NEW p \in Server, GetLiveMatchesFails(p) PROVE TypeOK'
    <3>1. run' \in [Server -> RunRecord]
      BY <2>0, <2>8, FinishType, PcNames, OutcomeNames DEF GetLiveMatchesFails
    <3> QED
      BY <2>8, <2>a, <3>1 DEF GetLiveMatchesFails, TypeOK
  <2>9. ASSUME NEW p \in Server, GetSnapshot(p) PROVE TypeOK'
    <3>1. AfterGet(snapshot, run[p].matches) \in Pc
      BY PcNames DEF AfterGet
    <3>2. run' \in [Server -> RunRecord]
      BY <2>9, <2>0, <2>b, <3>1, CarryType DEF GetSnapshot
    <3> QED
      BY <2>9, <3>2 DEF GetSnapshot, TypeOK
  <2>10. ASSUME NEW p \in Server, SetSnapshot(p) PROVE TypeOK'
    <3>1. run' \in [Server -> RunRecord]
      BY <2>0, <2>10, GoToType, PcNames DEF SetSnapshot, AfterSnapshot
    <3> QED
      BY <2>10, <2>b, <3>1 DEF SetSnapshot, TypeOK
  <2>11. ASSUME NEW p \in Server, SnapshotRejects(p) PROVE TypeOK'
    <3>1. run' \in [Server -> RunRecord]
      BY <2>0, <2>11, FinishType, PcNames, OutcomeNames DEF SnapshotRejects
    <3> QED
      BY <2>11, <2>a, <2>b, <3>1 DEF SnapshotRejects, TypeOK
  <2>12. ASSUME NEW p \in Server, WarmCache(p) PROVE TypeOK'
    <3>1. run' \in [Server -> RunRecord]
      BY <2>0, <2>12, GoToType, FinishType, PcNames, OutcomeNames DEF WarmCache
    <3> QED
      BY <2>12, <2>a, <2>b, <3>1 DEF WarmCache, TypeOK
  <2>13. ASSUME NEW p \in Server, Emit(p) PROVE TypeOK'
    <3>1. run' \in [Server -> RunRecord]
      BY <2>0, <2>13, FinishType, PcNames, OutcomeNames DEF Emit
    <3>2. emitted' \in Seq([before : 0 .. Len(Feed), after : 0 .. Len(Feed)])
      BY <2>13, <2>b DEF Emit, TypeOK
    <3> QED
      BY <2>13, <3>1, <3>2 DEF Emit, TypeOK
  <2>14. ASSUME NEW p \in Server, ReleaseLock(p) PROVE TypeOK'
    <3>1. run' \in [Server -> RunRecord]
      BY <2>0, <2>14, GoToType, PcNames DEF ReleaseLock
    <3> QED
      BY <2>14, <3>1 DEF ReleaseLock, LockAfterRelease, TypeOK
  <2>15. ASSUME NEW p \in Server, ReleaseLockRejects(p) PROVE TypeOK'
    <3>1. run' \in [Server -> RunRecord]
      BY <2>0, <2>15, GoToType, PcNames DEF ReleaseLockRejects
    <3> QED
      BY <2>15, <2>a, <3>1 DEF ReleaseLockRejects, TypeOK
  <2>16. ASSUME NEW p \in Server, Settle(p) PROVE TypeOK'
    <3>1. run' \in [Server -> RunRecord]
      BY <2>0, <2>16, NoRunType, ReplaceType DEF Settle
    <3>2. run[p].outcome \in Outcome
      BY <2>0 DEF RunRecord, Outcome
    <3>3. job' \in [Slot -> JobRecord]
      BY <2>0, <2>16, <3>2, AfterOutcomeType DEF Settle
    <3> QED
      BY <2>16, <3>1, <3>3 DEF Settle, TypeOK
  <2>17. CASE ExpireOrphan
    BY <2>17 DEF ExpireOrphan, TypeOK
  <2>18. ASSUME NEW p \in Server, Overrun(p) PROVE TypeOK'
    <3>1. spent' \in SpentRecord
      BY <2>18, SpendType DEF Overrun, TypeOK
    <3> QED
      BY <2>18, <3>1 DEF Overrun, TypeOK
  <2>19. ASSUME NEW p \in Server, Crash(p) PROVE TypeOK'
    <3>1. run' \in [Server -> RunRecord]
      BY <2>0, <2>19, DownType, ReplaceType DEF Crash
    <3>2. spent' \in SpentRecord
      BY <2>19, SpendType DEF Crash, TypeOK
    <3> QED
      BY <2>19, <3>1, <3>2 DEF Crash, TypeOK
  <2>20. ASSUME NEW p \in Server, Restart(p) PROVE TypeOK'
    <3>1. run' \in [Server -> RunRecord]
      BY <2>0, <2>20, NoRunType, ReplaceType DEF Restart
    <3> QED
      BY <2>20, <3>1 DEF Restart, TypeOK
  <2>21. CASE UNCHANGED vars
    BY <2>21 DEF vars, TypeOK
  <2> QED
    BY <2>1, <2>2, <2>3, <2>4, <2>5, <2>6, <2>7, <2>8, <2>9, <2>10, <2>11,
       <2>12, <2>13, <2>14, <2>15, <2>16, <2>17, <2>18, <2>19, <2>20, <2>21
       DEF Next, RunStep
<1> QED
  BY <1>1, <1>2, PTL DEF Spec

-----------------------------------------------------------------------------
(* Most steps leave the lock alone and bring no further run into the critical
   section; LockKept survives them. *)
LEMMA LockUntouched ==
  ASSUME LockKept, lock' = lock, overran' = overran,
         \A q \in Server : Critical(q)' => Critical(q)
  PROVE  LockKept'
  BY DEF LockKept

(* No run loses poll:lock other than by its own TTL: the token check in the
   release script, the NX of the acquisition and the fate of a crashed run's
   token keep the lock of every run in the critical section. *)
THEOREM LockSafe == Spec => []LockKept
<1>1. Init => LockKept
  BY DEF Init, LockKept, Critical, CriticalPc, NoRun
<1>2. TypeOK /\ LockKept /\ [Next]_vars => LockKept'
  <2> SUFFICES ASSUME TypeOK, LockKept, [Next]_vars PROVE LockKept'
    OBVIOUS
  <2>0. run \in [Server -> RunRecord] /\ overran \subseteq Server
    BY DEF TypeOK
  <2>1. CASE Advance
    BY <2>1, LockUntouched DEF Advance, Critical
  <2>2. ASSUME NEW s \in Slot, Tick(s) PROVE LockKept'
    BY <2>2, LockUntouched DEF Tick, Critical
  <2>3. ASSUME NEW s \in Slot, Stall(s) PROVE LockKept'
    BY <2>3, LockUntouched DEF Stall, Critical
  <2>4. ASSUME NEW p \in Server, NEW s \in Slot, Take(p, s) PROVE LockKept'
    <3>1. \A q \in Server : Critical(q)' => Critical(q)
      BY <2>0, <2>4, NewRunType, ReplaceType DEF Take, Critical, NewRun, CriticalPc
    <3> QED
      BY <2>4, <3>1, LockUntouched DEF Take
  <2>5. ASSUME NEW p \in Server, AcquireLock(p) PROVE LockKept'
    <3>1. CASE lock = None
      <4>1. lock' = p /\ \A q \in Server : q # p => run'[q] = run[q]
        BY <2>0, <2>5, <3>1, GoToType, PcNames DEF AcquireLock, LockGranted
      <4> QED
        BY <2>5, <3>1, <4>1, LockAssumption DEF AcquireLock, LockKept, Critical
    <3>2. CASE lock # None
      <4>1. \A q \in Server : Critical(q)' => Critical(q)
        BY <2>0, <2>5, <3>2, FinishType, PcNames, OutcomeNames
           DEF AcquireLock, LockGranted, Critical, CriticalPc
      <4> QED
        BY <2>5, <3>2, <4>1, LockUntouched DEF AcquireLock, LockGranted
    <3> QED
      BY <3>1, <3>2
  <2>6. ASSUME NEW p \in Server, AcquireLockRejects(p) PROVE LockKept'
    <3>1. \A q \in Server : Critical(q)' => Critical(q)
      BY <2>0, <2>6, FinishType, PcNames, OutcomeNames
         DEF AcquireLockRejects, Critical, CriticalPc
    <3> QED
      BY <2>6, <3>1, LockAssumption DEF AcquireLockRejects, LockKept
  <2>7. ASSUME NEW p \in Server, GetLiveMatches(p) PROVE LockKept'
    <3>1. \A q \in Server : Critical(q)' => Critical(q)
      BY <2>0, <2>7, CarryType, PcNames, FeedAssumption
         DEF GetLiveMatches, Critical, CriticalPc, TypeOK, Version
    <3> QED
      BY <2>7, <3>1, LockUntouched DEF GetLiveMatches
  <2>8. ASSUME NEW p \in Server, GetLiveMatchesFails(p) PROVE LockKept'
    <3>1. \A q \in Server : Critical(q)' => Critical(q)
      BY <2>0, <2>8, FinishType, PcNames, OutcomeNames
         DEF GetLiveMatchesFails, Critical, CriticalPc
    <3> QED
      BY <2>8, <3>1, LockUntouched DEF GetLiveMatchesFails
  <2>9. ASSUME NEW p \in Server, GetSnapshot(p) PROVE LockKept'
    <3>1. Critical(p) /\ \A q \in Server : q # p => run'[q] = run[q]
      BY <2>0, <2>9 DEF GetSnapshot, Carry, Critical, CriticalPc
    <3> QED
      BY <2>9, <3>1, LockUntouched DEF GetSnapshot, Critical
  <2>10. ASSUME NEW p \in Server, SetSnapshot(p) PROVE LockKept'
    <3>1. Critical(p) /\ \A q \in Server : q # p => run'[q] = run[q]
      BY <2>0, <2>10 DEF SetSnapshot, GoTo, Critical, CriticalPc
    <3> QED
      BY <2>10, <3>1, LockUntouched DEF SetSnapshot, Critical
  <2>11. ASSUME NEW p \in Server, SnapshotRejects(p) PROVE LockKept'
    <3>1. Critical(p) /\ \A q \in Server : q # p => run'[q] = run[q]
      BY <2>0, <2>11 DEF SnapshotRejects, Finish, Critical, CriticalPc
    <3> QED
      BY <2>11, <3>1, LockUntouched DEF SnapshotRejects, Critical
  <2>12. ASSUME NEW p \in Server, WarmCache(p) PROVE LockKept'
    <3>1. Critical(p) /\ \A q \in Server : q # p => run'[q] = run[q]
      BY <2>0, <2>12 DEF WarmCache, GoTo, Finish, Critical, CriticalPc
    <3> QED
      BY <2>12, <3>1, LockUntouched DEF WarmCache, Critical
  <2>13. ASSUME NEW p \in Server, Emit(p) PROVE LockKept'
    <3>1. Critical(p) /\ \A q \in Server : q # p => run'[q] = run[q]
      BY <2>0, <2>13 DEF Emit, Finish, Critical, CriticalPc
    <3> QED
      BY <2>13, <3>1, LockUntouched DEF Emit, Critical
  <2>14. ASSUME NEW p \in Server, ReleaseLock(p) PROVE LockKept'
    <3>1. ~Critical(p)' /\ \A q \in Server : q # p => run'[q] = run[q]
      BY <2>0, <2>14, GoToType, PcNames DEF ReleaseLock, Critical, CriticalPc
    <3> QED
      BY <2>14, <3>1 DEF ReleaseLock, LockAfterRelease, LockKept, Critical
  <2>15. ASSUME NEW p \in Server, ReleaseLockRejects(p) PROVE LockKept'
    <3>1. ~Critical(p)' /\ \A q \in Server : q # p => run'[q] = run[q]
      BY <2>0, <2>15, GoToType, PcNames DEF ReleaseLockRejects, Critical, CriticalPc
    <3> QED
      BY <2>15, <3>1 DEF ReleaseLockRejects, LockKept, Critical
  <2>16. ASSUME NEW p \in Server, Settle(p) PROVE LockKept'
    <3>1. ~Critical(p)' /\ \A q \in Server : q # p => run'[q] = run[q]
      BY <2>0, <2>16, NoRunType, ReplaceType DEF Settle, Critical, CriticalPc, NoRun
    <3> QED
      BY <2>16, <3>1, LockUntouched DEF Settle, Critical
  <2>17. CASE ExpireOrphan
    BY <2>17, LockAssumption DEF ExpireOrphan, LockKept, Critical
  <2>18. ASSUME NEW p \in Server, Overrun(p) PROVE LockKept'
    BY <2>18 DEF Overrun, LockKept, Critical
  <2>19. ASSUME NEW p \in Server, Crash(p) PROVE LockKept'
    <3>1. ~Critical(p)' /\ \A q \in Server : q # p => run'[q] = run[q]
      BY <2>0, <2>19, DownType, ReplaceType DEF Crash, Critical, CriticalPc, NoRun
    <3> QED
      BY <2>19, <3>1 DEF Crash, LockKept, Critical
  <2>20. ASSUME NEW p \in Server, Restart(p) PROVE LockKept'
    <3>1. ~Critical(p)' /\ \A q \in Server : q # p => run'[q] = run[q]
      BY <2>0, <2>20, NoRunType, ReplaceType DEF Restart, Critical, CriticalPc, NoRun
    <3> QED
      BY <2>20, <3>1, LockUntouched DEF Restart, Critical
  <2>21. CASE UNCHANGED vars
    BY <2>21, LockUntouched DEF vars, Critical
  <2> QED
    BY <2>1, <2>2, <2>3, <2>4, <2>5, <2>6, <2>7, <2>8, <2>9, <2>10, <2>11,
       <2>12, <2>13, <2>14, <2>15, <2>16, <2>17, <2>18, <2>19, <2>20, <2>21
       DEF Next, RunStep
<1> QED
  BY <1>1, <1>2, TypeCorrect, PTL DEF Spec

-----------------------------------------------------------------------------
(* Without overruns the critical section is exclusive, and InOrder is inductive. *)

(* Two runs in the critical section are one. *)
LEMMA Exclusive ==
  ASSUME LockKept, InOrder, NEW p \in Server, NEW q \in Server,
         Critical(p), Critical(q)
  PROVE  p = q
  BY DEF LockKept, InOrder

(* A step that moves one run only, and keeps that run in order, keeps them all. *)
LEMMA OneRunMoves ==
  ASSUME InOrder, NEW p \in Server, \A q \in Server : q # p => run'[q] = run[q],
         UNCHANGED <<feed, snapshot, emitted>>, overran' \subseteq overran, RunInOrder(p)'
  PROVE  InOrder'
<1>1. \A q \in Server : q # p => RunInOrder(q)'
  BY DEF InOrder, RunInOrder
<1> QED
  BY <1>1 DEF InOrder, EmitsForward

(* The entries of a sequence over S are in S. *)
LEMMA EntryOfLog ==
  \A S : \A log \in Seq(S) : \A i \in 1 .. Len(log) : log[i] \in S
  OBVIOUS

NoOverrun == spent.overruns = 0

(* Nothing gives an overrun back. *)
LEMMA OverrunsStay ==
  ASSUME TypeOK, [Next]_vars, NoOverrun'
  PROVE  NoOverrun
<1>1. \/ UNCHANGED spent \/ Fault \/ LostReply
      \/ \E p \in Server : Overrun(p) \/ Crash(p)
  BY DEF Next, vars, RunStep, Advance, Tick, Stall, Take, AcquireLock, AcquireLockRejects,
     GetLiveMatches, GetLiveMatchesFails, GetSnapshot, SetSnapshot, SnapshotRejects,
     WarmCache, Emit, ReleaseLock, ReleaseLockRejects, Settle, ExpireOrphan, Restart
<1> QED
  BY <1>1, SpendType DEF TypeOK, Overrun, Crash, NoOverrun

(* As long as no run outlives the TTL of its lock, the run in the critical section is
   alone and everything is in order: the invariant the promise to subscribers rests on. *)
THEOREM RunsInOrder == Spec => [](NoOverrun => InOrder)
<1> DEFINE Inv == NoOverrun => InOrder
<1>1. Init => Inv
  BY FeedAssumption DEF Init, InOrder, RunInOrder, EmitsForward, NoRun
<1>2. TypeOK /\ LockKept /\ InOrder /\ [Next]_vars /\ spent'.overruns = 0 => InOrder'
  <2> SUFFICES ASSUME TypeOK, LockKept, InOrder, [Next]_vars, spent'.overruns = 0
               PROVE  InOrder'
    OBVIOUS
  <2>0. /\ run \in [Server -> RunRecord]
        /\ feed \in Nat /\ snapshot \in Nat /\ overran = {}
        /\ emitted \in Seq([before : 0 .. Len(Feed), after : 0 .. Len(Feed)])
    BY FeedAssumption DEF TypeOK, InOrder, Version
  <2>b. \A p \in Server : run[p].matches \in 0 .. Len(Feed) /\ run[p].prev \in 0 .. Len(Feed)
    BY <2>0 DEF RunRecord
  <2>d. \A i \in 1 .. Len(emitted) : emitted[i].after \in Nat
    <3>1. \A i \in 1 .. Len(emitted) :
            emitted[i] \in [before : 0 .. Len(Feed), after : 0 .. Len(Feed)]
      BY <2>0, EntryOfLog
    <3>2. \A r \in [before : 0 .. Len(Feed), after : 0 .. Len(Feed)] : r.after \in Nat
      BY FeedAssumption
    <3> QED
      BY <3>1, <3>2
  <2>c. ASSUME NEW p \in Server, Critical(p)
        PROVE  \A q \in Server : q # p => RunInOrder(q)' \/ run'[q] # run[q]
    <3>1. \A q \in Server : q # p => ~Critical(q)
      BY <2>c, Exclusive
    <3> QED
      BY <3>1 DEF RunInOrder, Critical, CriticalPc
  <2>1. CASE Advance
    <3>1. feed' = feed + 1 /\ UNCHANGED <<run, overran, snapshot, emitted>>
      BY <2>1 DEF Advance
    <3>2. \A p \in Server : RunInOrder(p)'
      BY <2>0, <2>b, <3>1 DEF InOrder, RunInOrder
    <3> QED
      BY <2>0, <3>1, <3>2 DEF InOrder, EmitsForward
  <2>2. ASSUME NEW s \in Slot, Tick(s) PROVE InOrder'
    BY <2>2 DEF Tick, InOrder, RunInOrder, EmitsForward
  <2>3. ASSUME NEW s \in Slot, Stall(s) PROVE InOrder'
    BY <2>3 DEF Stall, InOrder, RunInOrder, EmitsForward
  <2>4. ASSUME NEW p \in Server, NEW s \in Slot, Take(p, s) PROVE InOrder'
    <3>1. run'[p].pc = "lock" /\ \A q \in Server : q # p => run'[q] = run[q]
      BY <2>0, <2>4, NewRunType, ReplaceType DEF Take, NewRun
    <3> QED
      BY <2>4, <3>1, OneRunMoves DEF Take, RunInOrder
  <2>5. ASSUME NEW p \in Server, AcquireLock(p) PROVE InOrder'
    <3>1. run'[p].pc \in {"fetch", "settle"} /\ \A q \in Server : q # p => run'[q] = run[q]
      BY <2>0, <2>5, GoToType, FinishType, PcNames, OutcomeNames DEF AcquireLock
    <3> QED
      BY <2>5, <3>1, OneRunMoves DEF AcquireLock, RunInOrder
  <2>6. ASSUME NEW p \in Server, AcquireLockRejects(p) PROVE InOrder'
    <3>1. run'[p].pc = "settle" /\ \A q \in Server : q # p => run'[q] = run[q]
      BY <2>0, <2>6, FinishType, PcNames, OutcomeNames DEF AcquireLockRejects
    <3> QED
      BY <2>6, <3>1, OneRunMoves DEF AcquireLockRejects, RunInOrder
  <2>7. ASSUME NEW p \in Server, GetLiveMatches(p) PROVE InOrder'
    <3>1. run'[p].pc = "get" /\ run'[p].matches = feed /\ \A q \in Server : q # p => run'[q] = run[q]
      BY <2>0, <2>7, CarryType, PcNames, FeedAssumption DEF GetLiveMatches, TypeOK, Version
    <3>2. RunInOrder(p)'
      BY <2>0, <2>7, <3>1, FeedAssumption DEF GetLiveMatches, RunInOrder, InOrder, TypeOK, Version
    <3> QED
      BY <2>7, <3>1, <3>2, OneRunMoves DEF GetLiveMatches
  <2>8. ASSUME NEW p \in Server, GetLiveMatchesFails(p) PROVE InOrder'
    <3>1. run'[p].pc = "release" /\ \A q \in Server : q # p => run'[q] = run[q]
      BY <2>0, <2>8, FinishType, PcNames, OutcomeNames DEF GetLiveMatchesFails
    <3> QED
      BY <2>8, <3>1, OneRunMoves DEF GetLiveMatchesFails, RunInOrder
  <2>9. ASSUME NEW p \in Server, GetSnapshot(p) PROVE InOrder'
    <3>1. /\ run[p].matches \in 1 .. feed /\ snapshot <= run[p].matches
      BY <2>9 DEF GetSnapshot, InOrder, RunInOrder
    <3>2. /\ run'[p].pc = AfterGet(snapshot, run[p].matches)
          /\ run'[p].matches = run[p].matches
          /\ run'[p].prev = snapshot
          /\ \A q \in Server : q # p => run'[q] = run[q]
      <4>1. AfterGet(snapshot, run[p].matches) \in Pc
        BY PcNames DEF AfterGet
      <4> QED
        BY <2>0, <2>9, <2>b, <4>1, CarryType DEF GetSnapshot, TypeOK
    <3>3. AfterGet(snapshot, run[p].matches) = "write" => 0 < snapshot /\ snapshot < run[p].matches
      <4>1. SUFFICES ASSUME AfterGet(snapshot, run[p].matches) = "write"
                     PROVE  0 < snapshot /\ snapshot < run[p].matches
        OBVIOUS
      <4>2. snapshot # 0 /\ Diff(snapshot, run[p].matches) # {}
        BY <4>1 DEF AfterGet
      <4>3. snapshot # run[p].matches
        BY <2>0, <4>2, DiffOfSame, FeedAssumption DEF TypeOK, Version
      <4> QED
        BY <2>0, <2>b, <3>1, <4>2, <4>3, FeedAssumption
    <3>4. /\ AfterGet(snapshot, run[p].matches) \in {"seed", "warmQuiet", "write"}
          /\ AfterGet(snapshot, run[p].matches) = "seed" => snapshot = 0
      BY DEF AfterGet
    <3>5. RunInOrder(p)'
      BY <2>9, <3>1, <3>2, <3>3, <3>4 DEF RunInOrder, GetSnapshot
    <3> QED
      BY <2>9, <3>2, <3>5, OneRunMoves DEF GetSnapshot
  <2>10. ASSUME NEW p \in Server, SetSnapshot(p) PROVE InOrder'
    <3>1. /\ run'[p].pc = AfterSnapshot(run[p].pc)
          /\ run'[p].matches = run[p].matches
          /\ run'[p].prev = run[p].prev
          /\ \A q \in Server : q # p => run'[q] = run[q]
      BY <2>0, <2>10, GoToType, PcNames DEF SetSnapshot, AfterSnapshot
    <3>2. snapshot' = run[p].matches /\ UNCHANGED <<feed, overran, emitted>>
      BY <2>10 DEF SetSnapshot
    <3>3. run[p].matches \in 1 .. feed /\ snapshot <= run[p].matches
      BY <2>10 DEF SetSnapshot, InOrder, RunInOrder
    <3>4. \A i \in 1 .. Len(emitted) : emitted[i].after <= snapshot /\ emitted[i].after \in Nat
      BY <2>d DEF InOrder
    <3>5. RunInOrder(p)'
      BY <2>0, <2>b, <2>10, <3>1, <3>2, <3>3, <3>4, FeedAssumption
         DEF SetSnapshot, AfterSnapshot, RunInOrder, InOrder
    <3>6. \A q \in Server : RunInOrder(q)'
      BY <2>c, <2>10, <3>1, <3>5 DEF SetSnapshot, Critical, CriticalPc
    <3> QED
      BY <2>0, <3>2, <3>3, <3>4, <3>6, FeedAssumption DEF InOrder, EmitsForward
  <2>11. ASSUME NEW p \in Server, SnapshotRejects(p) PROVE InOrder'
    <3>1. run'[p].pc = "release" /\ \A q \in Server : q # p => run'[q] = run[q]
      BY <2>0, <2>11, FinishType, PcNames, OutcomeNames DEF SnapshotRejects
    <3>2. snapshot' \in {snapshot, run[p].matches} /\ UNCHANGED <<feed, overran, emitted>>
      BY <2>11 DEF SnapshotRejects
    <3>3. run[p].matches \in 1 .. feed /\ snapshot <= run[p].matches
      BY <2>11 DEF SnapshotRejects, InOrder, RunInOrder
    <3>4. \A i \in 1 .. Len(emitted) : emitted[i].after <= snapshot /\ emitted[i].after \in Nat
      BY <2>d DEF InOrder
    <3>5. \A q \in Server : RunInOrder(q)'
      BY <2>c, <2>11, <3>1 DEF SnapshotRejects, RunInOrder, Critical, CriticalPc
    <3> QED
      BY <2>0, <3>2, <3>3, <3>4, <3>5, FeedAssumption DEF InOrder, EmitsForward
  <2>12. ASSUME NEW p \in Server, WarmCache(p) PROVE InOrder'
    <3>1. CASE run[p].pc = "warm"
      <4>1. /\ run'[p].pc = "emit" /\ run'[p].matches = run[p].matches
            /\ run'[p].prev = run[p].prev
            /\ \A q \in Server : q # p => run'[q] = run[q]
        BY <2>0, <2>12, <3>1, GoToType, PcNames DEF WarmCache
      <4>2. RunInOrder(p)'
        BY <2>12, <3>1, <4>1 DEF WarmCache, InOrder, RunInOrder
      <4> QED
        BY <2>12, <4>1, <4>2, OneRunMoves DEF WarmCache
    <3>2. CASE run[p].pc # "warm"
      <4>1. run'[p].pc = "release" /\ \A q \in Server : q # p => run'[q] = run[q]
        BY <2>0, <2>12, <3>2, FinishType, PcNames, OutcomeNames DEF WarmCache
      <4> QED
        BY <2>12, <4>1, OneRunMoves DEF WarmCache, RunInOrder
    <3> QED
      BY <3>1, <3>2
  <2>13. ASSUME NEW p \in Server, Emit(p) PROVE InOrder'
    <3>1. run'[p].pc = "release" /\ \A q \in Server : q # p => run'[q] = run[q]
      BY <2>0, <2>13, FinishType, PcNames, OutcomeNames DEF Emit
    <3> DEFINE e == [before |-> run[p].prev, after |-> run[p].matches]
    <3>2. emitted' = Append(emitted, e) /\ UNCHANGED <<feed, overran, snapshot>>
      BY <2>13 DEF Emit
    <3>3. /\ run[p].matches = snapshot
          /\ \A i \in 1 .. Len(emitted) : emitted[i].after <= run[p].prev
      BY <2>13 DEF Emit, InOrder, RunInOrder
    <3>4. /\ Len(emitted') = Len(emitted) + 1 /\ Len(emitted) \in Nat
          /\ \A i \in 1 .. Len(emitted) : emitted'[i] = emitted[i]
          /\ emitted'[Len(emitted) + 1] = e
      BY <2>0, <2>b, <3>2
    <3>5. \A i \in 1 .. Len(emitted') : emitted'[i].after <= snapshot'
      BY <2>0, <3>2, <3>3, <3>4 DEF InOrder
    <3>6. EmitsForward'
      <4>1. \A i, j \in 1 .. Len(emitted) :
              i < j => emitted'[i].after <= emitted'[j].before
        BY <3>4 DEF InOrder, EmitsForward
      <4>2. \A i \in 1 .. Len(emitted) : emitted'[i].after <= emitted'[Len(emitted) + 1].before
        BY <3>3, <3>4
      <4> QED
        BY <3>4, <4>1, <4>2 DEF EmitsForward
    <3>7. \A q \in Server : RunInOrder(q)'
      BY <2>c, <2>13, <3>1 DEF Emit, RunInOrder, Critical, CriticalPc
    <3> QED
      BY <3>2, <3>5, <3>6, <3>7 DEF InOrder
  <2>14. ASSUME NEW p \in Server, ReleaseLock(p) PROVE InOrder'
    <3>1. run'[p].pc = "settle" /\ \A q \in Server : q # p => run'[q] = run[q]
      BY <2>0, <2>14, GoToType, PcNames DEF ReleaseLock
    <3> QED
      BY <2>14, <3>1, OneRunMoves DEF ReleaseLock, RunInOrder
  <2>15. ASSUME NEW p \in Server, ReleaseLockRejects(p) PROVE InOrder'
    <3>1. run'[p].pc = "settle" /\ \A q \in Server : q # p => run'[q] = run[q]
      BY <2>0, <2>15, GoToType, PcNames DEF ReleaseLockRejects
    <3> QED
      BY <2>15, <3>1, OneRunMoves DEF ReleaseLockRejects, RunInOrder
  <2>16. ASSUME NEW p \in Server, Settle(p) PROVE InOrder'
    <3>1. run'[p].pc = "idle" /\ \A q \in Server : q # p => run'[q] = run[q]
      BY <2>0, <2>16, NoRunType, ReplaceType DEF Settle, NoRun
    <3> QED
      BY <2>16, <3>1, OneRunMoves DEF Settle, RunInOrder
  <2>17. CASE ExpireOrphan
    BY <2>17 DEF ExpireOrphan, InOrder, RunInOrder, EmitsForward
  <2>18. ASSUME NEW p \in Server, Overrun(p) PROVE InOrder'
    BY <2>18, SpendType DEF Overrun, TypeOK
  <2>19. ASSUME NEW p \in Server, Crash(p) PROVE InOrder'
    <3>1. run'[p].pc = "down" /\ \A q \in Server : q # p => run'[q] = run[q]
      BY <2>0, <2>19, DownType, ReplaceType DEF Crash, NoRun
    <3> QED
      BY <2>19, <3>1, OneRunMoves DEF Crash, RunInOrder
  <2>20. ASSUME NEW p \in Server, Restart(p) PROVE InOrder'
    <3>1. run'[p].pc = "idle" /\ \A q \in Server : q # p => run'[q] = run[q]
      BY <2>0, <2>20, NoRunType, ReplaceType DEF Restart, NoRun
    <3> QED
      BY <2>20, <3>1, OneRunMoves DEF Restart, RunInOrder
  <2>21. CASE UNCHANGED vars
    BY <2>21 DEF vars, InOrder, RunInOrder, EmitsForward
  <2> QED
    BY <2>1, <2>2, <2>3, <2>4, <2>5, <2>6, <2>7, <2>8, <2>9, <2>10, <2>11,
       <2>12, <2>13, <2>14, <2>15, <2>16, <2>17, <2>18, <2>19, <2>20, <2>21
       DEF Next, RunStep
<1>3. TypeOK /\ LockKept /\ Inv /\ [Next]_vars => Inv'
  BY <1>2, OverrunsStay DEF NoOverrun
<1> QED
  BY <1>1, <1>3, TypeCorrect, LockSafe, PTL DEF Spec

(* As long as no run outlives the TTL of its lock, no change is announced twice
   and none out of order, however many processes poll, whatever fails, is lost,
   stalls or crashes. *)
THEOREM NoDoubleEmit == Spec => []NeverEmittedTwice
<1>1. (NoOverrun => InOrder) => NeverEmittedTwice
  BY DEF InOrder, NeverEmittedTwice, NoOverrun
<1> QED
  BY <1>1, RunsInOrder, PTL

-----------------------------------------------------------------------------
(* What a run knows where it writes, warms and announces. *)

(* A run that is where it may write or announce has come there by its own step. *)
LEMMA Moves ==
  ASSUME TypeOK, [Next]_vars, NEW p \in Server
  PROVE  \/ run'[p] = run[p]
         \/ run'[p].pc \in {"idle", "lock", "fetch", "release", "settle", "down"}
         \/ GetLiveMatches(p) \/ GetSnapshot(p) \/ SetSnapshot(p)
         \/ WarmCache(p) /\ run[p].pc = "warm"
<1> DEFINE Stays(q) == \/ run'[q] = run[q]
                       \/ run'[q].pc \in {"idle", "lock", "fetch", "release", "settle", "down"}
<1>0. run \in [Server -> RunRecord]
  BY DEF TypeOK
<1>1. CASE run' = run
  BY <1>1
<1>2. ASSUME NEW q \in Server, NEW pc, pc \in {"fetch", "settle"}, GoTo(q, pc) PROVE Stays(p)
  BY <1>0, <1>2, GoToType, PcNames
<1>3. ASSUME NEW q \in Server, NEW pc, NEW outcome, pc \in {"release", "settle"},
             outcome \in Outcome, Finish(q, pc, outcome)
      PROVE  Stays(p)
  BY <1>0, <1>3, FinishType, PcNames
<1>4. ASSUME NEW q \in Server, NEW r \in RunRecord, r.pc \in {"idle", "lock", "down"},
             run' = [run EXCEPT ![q] = r]
      PROVE  Stays(p)
  BY <1>0, <1>4, ReplaceType
<1>5. ASSUME NEW q \in Server, NEW s \in Slot, Take(q, s) PROVE Stays(p)
  BY <1>4, <1>5, NewRunType DEF Take, NewRun
<1>6. ASSUME NEW q \in Server, Settle(q) \/ Restart(q) PROVE Stays(p)
  BY <1>4, <1>6, NoRunType DEF Settle, Restart, NoRun
<1>7. ASSUME NEW q \in Server, Crash(q) PROVE Stays(p)
  BY <1>4, <1>7, DownType DEF Crash, NoRun
<1>8. ASSUME NEW q \in Server,
             \/ AcquireLock(q) \/ AcquireLockRejects(q) \/ GetLiveMatchesFails(q)
             \/ SnapshotRejects(q) \/ Emit(q)
      PROVE  Stays(p)
  BY <1>2, <1>3, <1>8, OutcomeNames
     DEF AcquireLock, AcquireLockRejects, GetLiveMatchesFails, SnapshotRejects, Emit
<1>9. ASSUME NEW q \in Server, ReleaseLock(q) \/ ReleaseLockRejects(q) PROVE Stays(p)
  BY <1>2, <1>9 DEF ReleaseLock, ReleaseLockRejects
<1>10. ASSUME NEW q \in Server, WarmCache(q), run[q].pc # "warm" PROVE Stays(p)
  BY <1>3, <1>10, OutcomeNames DEF WarmCache
<1>11. ASSUME NEW q \in Server, q # p,
              \/ GetLiveMatches(q) \/ GetSnapshot(q) \/ SetSnapshot(q)
              \/ WarmCache(q) /\ run[q].pc = "warm"
       PROVE  Stays(p)
  BY <1>0, <1>11 DEF GetLiveMatches, GetSnapshot, SetSnapshot, WarmCache, Carry, GoTo
<1>12. CASE Advance \/ (\E s \in Slot : Tick(s) \/ Stall(s)) \/ ExpireOrphan
            \/ (\E q \in Server : Overrun(q)) \/ UNCHANGED vars
  BY <1>1, <1>12 DEF Advance, Tick, Stall, ExpireOrphan, Overrun, vars
<1> HIDE DEF Stays
<1>13. ASSUME NEW q \in Server, RunStep(q)
       PROVE  \/ Stays(p) \/ GetLiveMatches(p) \/ GetSnapshot(p) \/ SetSnapshot(p)
              \/ WarmCache(p) /\ run[p].pc = "warm"
  <2>1. CASE WarmCache(q)
    BY <1>10, <1>11, <2>1, Zenon
  <2>2. CASE GetLiveMatches(q) \/ GetSnapshot(q) \/ SetSnapshot(q)
    BY <1>11, <2>2, Zenon
  <2>3. CASE \/ AcquireLock(q) \/ AcquireLockRejects(q) \/ GetLiveMatchesFails(q)
            \/ SnapshotRejects(q) \/ Emit(q)
    BY <1>8, <2>3
  <2>4. CASE ReleaseLock(q) \/ ReleaseLockRejects(q)
    BY <1>9, <2>4
  <2>5. CASE Settle(q)
    BY <1>6, <2>5
  <2> QED
    BY <1>13, <2>1, <2>2, <2>3, <2>4, <2>5 DEF RunStep
<1>14. \/ Stays(p) \/ GetLiveMatches(p) \/ GetSnapshot(p) \/ SetSnapshot(p)
       \/ WarmCache(p) /\ run[p].pc = "warm"
       \/ Advance \/ (\E s \in Slot : Tick(s) \/ Stall(s)) \/ ExpireOrphan
       \/ (\E q \in Server : Overrun(q)) \/ UNCHANGED vars
  BY <1>5, <1>6, <1>7, <1>13 DEF Next
<1> QED
  BY <1>12, <1>14 DEF Stays

(* A run that is to announce compares two lists of the provider, the second newer than
   the first, that differ. *)
HasNews(p) ==
  run[p].pc \in {"write", "warm", "emit"} =>
    /\ run[p].prev \in 1 .. feed /\ run[p].matches \in 1 .. feed
    /\ run[p].prev < run[p].matches
    /\ Diff(run[p].prev, run[p].matches) # {}

(* Nothing without a change is announced, and nothing older than what is known. *)
THEOREM NewsOnly == Spec => [](NoOverrun => \A p \in Server : HasNews(p))
<1> DEFINE Inv == NoOverrun => \A p \in Server : HasNews(p)
           Order == NoOverrun => InOrder
<1>1. Init => Inv
  BY DEF Init, NoRun, HasNews
<1>2. ASSUME TypeOK, Order, Order', Inv, [Next]_vars, NoOverrun' PROVE Inv'
  <2>1. NoOverrun /\ InOrder /\ InOrder'
    BY <1>2, OverrunsStay
  <2>2. feed \in Nat /\ feed' \in Nat /\ feed <= feed' /\ run \in [Server -> RunRecord]
    <3>1. feed' = feed \/ feed' = feed + 1
      BY <1>2 DEF Next, vars, RunStep, Advance, Tick, Stall, Take, AcquireLock,
         AcquireLockRejects, GetLiveMatches, GetLiveMatchesFails, GetSnapshot, SetSnapshot,
         SnapshotRejects, WarmCache, Emit, ReleaseLock, ReleaseLockRejects, Settle,
         ExpireOrphan, Overrun, Crash, Restart
    <3> QED
      BY <1>2, <3>1, FeedAssumption DEF TypeOK, Version
  <2>3. SUFFICES ASSUME NEW p \in Server, run'[p].pc \in {"write", "warm", "emit"}
                 PROVE  HasNews(p)'
    BY DEF HasNews
  <2>4. CASE run'[p] = run[p]
    BY <1>2, <2>1, <2>2, <2>4 DEF HasNews
  <2>5. ASSUME run[p].pc \in {"write", "warm"}, run'[p].matches = run[p].matches,
               run'[p].prev = run[p].prev
        PROVE  HasNews(p)'
    BY <1>2, <2>1, <2>2, <2>5 DEF HasNews
  <2>6. CASE GetLiveMatches(p)
    BY <2>2, <2>3, <2>6, CarryType, PcNames DEF GetLiveMatches, Carry
  <2>7. CASE GetSnapshot(p)
    <3>1. AfterGet(snapshot, run[p].matches) \in Pc
      BY PcNames DEF AfterGet
    <3>2. run[p].matches \in 0 .. Len(Feed) /\ snapshot \in 0 .. Len(Feed)
      BY <1>2, <2>2 DEF TypeOK, RunRecord
    <3>3. /\ run'[p].pc = AfterGet(snapshot, run[p].matches)
          /\ run'[p].matches = run[p].matches /\ run'[p].prev = snapshot
      BY <2>2, <2>7, <3>1, <3>2, CarryType DEF GetSnapshot
    <3>4. run'[p].pc = "write" /\ Diff(snapshot, run[p].matches) # {}
      BY <2>3, <3>3 DEF AfterGet
    <3>5. /\ run'[p].matches \in 1 .. feed' /\ run'[p].prev = snapshot'
          /\ 0 < snapshot' /\ snapshot' < run'[p].matches
      BY <2>1, <3>4 DEF InOrder, RunInOrder
    <3>6. snapshot' = snapshot /\ snapshot \in Nat
      BY <2>7, <3>2, FeedAssumption DEF GetSnapshot
    <3> QED
      BY <2>2, <3>3, <3>4, <3>5, <3>6 DEF HasNews
  <2>8. CASE SetSnapshot(p)
    <3>1. /\ run'[p].pc = AfterSnapshot(run[p].pc) /\ run'[p].matches = run[p].matches
          /\ run'[p].prev = run[p].prev
      BY <2>2, <2>8, GoToType, PcNames DEF SetSnapshot, AfterSnapshot
    <3>2. run[p].pc = "write"
      BY <2>3, <2>8, <3>1 DEF SetSnapshot, AfterSnapshot
    <3> QED
      BY <2>5, <3>1, <3>2
  <2>9. CASE WarmCache(p) /\ run[p].pc = "warm"
    <3>1. run'[p].matches = run[p].matches /\ run'[p].prev = run[p].prev
      BY <2>2, <2>9, GoToType, PcNames DEF WarmCache
    <3> QED
      BY <2>5, <2>9, <3>1
  <2> QED
    BY <1>2, <2>3, <2>4, <2>6, <2>7, <2>8, <2>9, Moves
<1> QED
  BY <1>1, <1>2, TypeCorrect, RunsInOrder, PTL DEF Spec

-----------------------------------------------------------------------------
(* The safety half of the refinement of ChangeFeed. *)

(* What the subscribers know while a run is announcing is what that run compared
   with, and the snapshot at any other time. *)
ToldIs ==
  /\ Announcing = {} => ToldNow = snapshot
  /\ \A p \in Announcing : ToldNow = run[p].prev

(* There is one run in the critical section, so there is one answer. *)
LEMMA OneAnnouncer == LockKept /\ (NoOverrun => InOrder) => (NoOverrun => ToldIs)
<1> SUFFICES ASSUME LockKept, InOrder PROVE ToldIs
  OBVIOUS
<1>1. Announcing = {} => ToldNow = snapshot
  BY DEF ToldNow
<1>2. ASSUME NEW p \in Announcing PROVE ToldNow = run[p].prev
  <2> DEFINE q == CHOOSE q \in Announcing : TRUE
  <2>1. q \in Announcing
    BY <1>2
  <2>2. p \in Server /\ q \in Server /\ Critical(p) /\ Critical(q)
    BY <1>2, <2>1 DEF Announcing, Critical, CriticalPc
  <2>3. p = q
    BY <2>2, Exclusive
  <2> QED
    BY <1>2, <2>3 DEF ToldNow
<1> QED
  BY <1>1, <1>2 DEF ToldIs

(* While a run is in the critical section no other run is announcing. *)
LEMMA OthersQuiet ==
  ASSUME LockKept, InOrder, NEW p \in Server, Critical(p)
  PROVE  Announcing \subseteq {p}
<1>1. \A q \in Announcing : q \in Server /\ Critical(q)
  BY DEF Announcing, Critical, CriticalPc
<1> QED
  BY <1>1, Exclusive

(* A step that brings no run to or from an announcement and leaves the snapshot alone
   tells nobody anything. *)
LEMMA ToldStays ==
  ASSUME ToldIs, ToldIs', snapshot' = snapshot, NEW p \in Server,
         \A q \in Server : q # p => run'[q] = run[q],
         run'[p].pc \in {"warm", "emit"} <=> run[p].pc \in {"warm", "emit"},
         run[p].pc \in {"warm", "emit"} => run'[p].prev = run[p].prev
  PROVE  ToldNow' = ToldNow
<1>1. Announcing' = Announcing
  BY DEF Announcing
<1>2. \A q \in Announcing : run'[q].prev = run[q].prev
  BY DEF Announcing
<1>3. CASE Announcing = {}
  BY <1>1, <1>3 DEF ToldIs
<1>4. ASSUME NEW q \in Announcing PROVE ToldNow' = ToldNow
  BY <1>1, <1>2, <1>4 DEF ToldIs
<1> QED
  BY <1>3, <1>4

(* A crash and a lost reply are each one loss; a fault is none. *)
LEMMA LossesCount ==
  ASSUME spent \in SpentRecord
  PROVE  /\ spent.crashes + spent.lost \in Nat
         /\ Fault => spent'.crashes + spent'.lost = spent.crashes + spent.lost
         /\ LostReply => spent'.crashes + spent'.lost = (spent.crashes + spent.lost) + 1
         /\ spent' = [spent EXCEPT !.crashes = @ + 1]
              => spent'.crashes + spent'.lost = (spent.crashes + spent.lost) + 1
  BY BoundAssumption DEF SpentRecord, Fault, LostReply

(* The abstract specification compares two lists as the job does. *)
LEMMA SameDiff == \A v, w : Promise!DiffMatches(Feed[v], Feed[w]) = Diff(v, w)
<1>1. \A b, a : Promise!ChangedFields(b, a) = ChangedFields(b, a)
  BY DEF ChangedFields, FieldValue, WicketsOf, NoTeams, ComparedFields,
     Promise!ChangedFields, Promise!FieldValue, Promise!WicketsOf, Promise!NoTeams,
     Promise!ComparedFields
<1>2. \A list : Promise!MatchesById(list) = MatchesById(list)
  BY DEF MatchesById, Promise!MatchesById
<1>3. \A id, type, b, a, f : Promise!Change(id, type, b, a, f) = Change(id, type, b, a, f)
  BY DEF Change, Promise!Change
<1>4. \A b, a : Promise!AddedIn(b, a) = AddedIn(b, a)
  BY <1>3 DEF AddedIn, Promise!AddedIn
<1>5. \A b, a : Promise!ChangedIn(b, a) = ChangedIn(b, a)
  BY <1>1, <1>3 DEF ChangedIn, Promise!ChangedIn
<1>6. \A b, a : Promise!RemovedIn(b, a) = RemovedIn(b, a)
  BY <1>3 DEF RemovedIn, Promise!RemovedIn
<1>7. \A b, a : Promise!DiffMatches(b, a) = DiffMatches(b, a)
  BY <1>2, <1>4, <1>5, <1>6 DEF DiffMatches, Promise!DiffMatches
<1> QED
  BY <1>7 DEF Diff

(* What is known is a list the provider has served, or none. *)
LEMMA ToldIsServed ==
  ASSUME TypeOK, InOrder, ToldIs, \A p \in Server : HasNews(p)
  PROVE  /\ ToldNow \in 0 .. feed /\ ToldNow <= snapshot /\ snapshot \in 0 .. feed
         /\ feed \in 1 .. Len(Feed)
<1>1. snapshot \in 0 .. feed /\ feed \in 1 .. Len(Feed)
  BY FeedAssumption DEF TypeOK, Version, InOrder
<1>2. CASE Announcing = {}
  BY <1>1, <1>2 DEF ToldIs
<1>3. ASSUME NEW p \in Announcing
      PROVE  ToldNow \in 0 .. feed /\ ToldNow <= snapshot
  <2>1. ToldNow = run[p].prev /\ snapshot = run[p].matches
    BY <1>3 DEF ToldIs, InOrder, RunInOrder, Announcing
  <2>2. run[p].prev \in 1 .. feed /\ run[p].prev < run[p].matches
    BY <1>3 DEF HasNews, Announcing
  <2> QED
    BY <1>1, <2>1, <2>2
<1> QED
  BY <1>1, <1>2, <1>3

(* As long as no run outlives its lock, everything the job does is a step of ChangeFeed:
   it announces only a change, from what its subscribers know to something later, and
   leaves a gap only where a crash or a lost reply did. *)
THEOREM PromiseSafe == Spec /\ []NoOverrun => Promise!FeedSafe
<1> DEFINE News == NoOverrun => \A p \in Server : HasNews(p)
           Order == NoOverrun => InOrder
           Told == NoOverrun => ToldIs
<1>1. Init => Promise!FeedInit
  BY DEF Init, Promise!FeedInit, ToldNow, Announcing, NoRun
<1>2. ASSUME TypeOK, LockKept, InOrder, InOrder', ToldIs, ToldIs', \A p \in Server : HasNews(p),
             NoOverrun', [Next]_vars
      PROVE  [Promise!FeedNext]_Promise!feedVars
  <2> DEFINE losses == spent.crashes + spent.lost
             Stutter == UNCHANGED <<feed, ToldNow, emitted, losses>>
             Lose == /\ UNCHANGED <<feed, emitted>> /\ ToldNow' \in ToldNow .. feed
                     /\ losses' = losses + 1
  <2>0. run \in [Server -> RunRecord] /\ spent \in SpentRecord
    BY <1>2 DEF TypeOK
  <2>a. Stutter => [Promise!FeedNext]_Promise!feedVars
    BY DEF Promise!feedVars
  <2>b. Lose => [Promise!FeedNext]_Promise!feedVars
    BY DEF Promise!FeedNext, Promise!Lose
  <2>c. ToldNow \in 0 .. feed /\ ToldNow <= snapshot /\ snapshot \in 0 .. feed
        /\ feed \in 1 .. Len(Feed)
    BY <1>2, ToldIsServed
  <2>d. losses \in Nat
    BY <2>0, LossesCount
  <2>e. ASSUME run' = run, snapshot' = snapshot PROVE ToldNow' = ToldNow
    BY <2>e DEF ToldNow, Announcing
  <2>f. ASSUME NEW p \in Server, NEW pc \in Pc \ {"warm", "emit"}, GoTo(p, pc),
               run[p].pc \notin {"warm", "emit"}, snapshot' = snapshot
        PROVE  ToldNow' = ToldNow
    BY <1>2, <2>0, <2>f, GoToType, ToldStays
  <2>g. ASSUME NEW p \in Server, NEW pc \in Pc \ {"warm", "emit"}, NEW outcome \in Outcome,
               Finish(p, pc, outcome), run[p].pc \notin {"warm", "emit"}, snapshot' = snapshot
        PROVE  ToldNow' = ToldNow
    BY <1>2, <2>0, <2>g, FinishType, ToldStays
  <2>h. ASSUME NEW p \in Server, NEW r \in RunRecord, run' = [run EXCEPT ![p] = r],
               r.pc \notin {"warm", "emit"}, run[p].pc \notin {"warm", "emit"},
               snapshot' = snapshot
        PROVE  ToldNow' = ToldNow
    BY <1>2, <2>0, <2>h, ReplaceType, ToldStays
  <2>1. CASE Advance
    BY <2>1, <2>e DEF Advance, Promise!FeedNext, Promise!Serve
  <2>2. CASE (\E s \in Slot : Tick(s) \/ Stall(s)) \/ ExpireOrphan \/ UNCHANGED vars
    <3>1. UNCHANGED <<run, snapshot, feed, emitted, spent>>
      BY <2>2 DEF Tick, Stall, ExpireOrphan, vars
    <3> QED
      BY <2>a, <2>e, <3>1
  <2>3. ASSUME NEW p \in Server, NEW s \in Slot, Take(p, s) PROVE Stutter
    BY <2>3, <2>h, NewRunType DEF Take, NewRun
  <2>4. ASSUME NEW p \in Server, AcquireLock(p) PROVE Stutter
    BY <2>4, <2>f, <2>g, PcNames, OutcomeNames DEF AcquireLock
  <2>5. ASSUME NEW p \in Server, AcquireLockRejects(p) PROVE Stutter \/ Lose
    <3>1. ToldNow' = ToldNow /\ UNCHANGED <<feed, emitted>> /\ (Fault \/ LostReply)
      BY <2>5, <2>g, PcNames, OutcomeNames DEF AcquireLockRejects
    <3> QED
      BY <2>0, <2>c, <3>1, LossesCount
  <2>6. ASSUME NEW p \in Server, GetLiveMatches(p) PROVE Stutter
    <3>1. run'[p].pc = "get" /\ \A q \in Server : q # p => run'[q] = run[q]
      BY <1>2, <2>0, <2>6, CarryType, PcNames, FeedAssumption DEF GetLiveMatches, TypeOK, Version
    <3> QED
      BY <1>2, <2>6, <3>1, ToldStays DEF GetLiveMatches
  <2>7. ASSUME NEW p \in Server, GetLiveMatchesFails(p) PROVE Stutter
    <3>1. ToldNow' = ToldNow /\ UNCHANGED <<feed, emitted>> /\ Fault
      BY <2>7, <2>g, PcNames, OutcomeNames DEF GetLiveMatchesFails
    <3> QED
      BY <2>0, <3>1, LossesCount
  <2>8. ASSUME NEW p \in Server, GetSnapshot(p) PROVE Stutter
    <3>1. run'[p].pc \in {"seed", "warmQuiet", "write"} /\ \A q \in Server : q # p => run'[q] = run[q]
      BY <2>0, <2>8 DEF GetSnapshot, Carry, AfterGet
    <3> QED
      BY <1>2, <2>8, <3>1, ToldStays DEF GetSnapshot
  <2>9. ASSUME NEW p \in Server, SetSnapshot(p) PROVE [Promise!FeedNext]_Promise!feedVars
    <3>1. /\ run'[p].pc = AfterSnapshot(run[p].pc) /\ run'[p].prev = run[p].prev
          /\ run'[p].matches = run[p].matches
          /\ \A q \in Server : q # p => run'[q] = run[q]
      BY <2>0, <2>9, GoToType, PcNames DEF SetSnapshot, AfterSnapshot
    <3>2. Announcing = {} /\ \A q \in Server : q # p => run[q].pc \notin {"warm", "emit"}
      <4>1. Critical(p) /\ p \notin Announcing
        BY <2>9 DEF SetSnapshot, Critical, CriticalPc, Announcing
      <4>2. Announcing = {}
        BY <1>2, <4>1, OthersQuiet
      <4> QED
        BY <4>2 DEF Announcing
    <3>3. ToldNow = snapshot
      BY <1>2, <3>2 DEF ToldIs
    <3>4. UNCHANGED <<feed, emitted, spent>> /\ snapshot' = run[p].matches
      BY <2>9 DEF SetSnapshot
    <3>5. CASE run[p].pc = "seed"
      <4>1. Announcing' = {}
        BY <3>1, <3>2, <3>5 DEF Announcing, AfterSnapshot
      <4>2. ToldNow' = snapshot' /\ snapshot = 0 /\ run[p].matches \in 1 .. feed
        BY <1>2, <3>5, <4>1 DEF ToldIs, InOrder, RunInOrder
      <4>3. /\ ToldNow = 0 /\ ToldNow' \in 1 .. feed
            /\ UNCHANGED <<feed, emitted, losses>>
        BY <3>3, <3>4, <4>2
      <4> QED
        BY <4>3 DEF Promise!FeedNext, Promise!Seed
    <3>6. CASE run[p].pc = "write"
      <4>1. p \in Announcing'
        BY <3>1, <3>6 DEF Announcing, AfterSnapshot
      <4>2. ToldNow' = run'[p].prev
        BY <1>2, <4>1 DEF ToldIs
      <4>3. run[p].prev = snapshot
        BY <1>2, <3>6 DEF InOrder, RunInOrder
      <4> QED
        BY <2>a, <3>1, <3>3, <3>4, <4>2, <4>3
    <3> QED
      BY <2>9, <3>5, <3>6 DEF SetSnapshot
  <2>10. ASSUME NEW p \in Server, SnapshotRejects(p) PROVE Stutter \/ Lose
    <3>1. run'[p].pc = "release" /\ \A q \in Server : q # p => run'[q] = run[q]
      BY <2>0, <2>10, FinishType, PcNames, OutcomeNames DEF SnapshotRejects
    <3>2. Critical(p) /\ p \notin Announcing
      BY <2>10 DEF SnapshotRejects, Critical, CriticalPc, Announcing
    <3>3. Announcing = {}
      BY <1>2, <3>2, OthersQuiet
    <3>4. Announcing' = {}
      BY <3>1, <3>3 DEF Announcing
    <3>5. ToldNow = snapshot /\ ToldNow' = snapshot'
      BY <1>2, <3>3, <3>4 DEF ToldIs
    <3>6. CASE Fault /\ UNCHANGED snapshot
      BY <2>0, <2>10, <3>5, <3>6, LossesCount DEF SnapshotRejects
    <3>7. CASE LostReply /\ run[p].pc # "get" /\ snapshot' = run[p].matches
      <4>1. run[p].matches \in 1 .. feed /\ snapshot <= run[p].matches
        BY <1>2, <2>10, <3>7 DEF InOrder, RunInOrder, SnapshotRejects
      <4>2. snapshot' \in snapshot .. feed
        BY <2>c, <3>7, <4>1
      <4> QED
        BY <2>0, <2>10, <3>5, <3>7, <4>2, LossesCount DEF SnapshotRejects
    <3> QED
      BY <2>10, <3>6, <3>7 DEF SnapshotRejects
  <2>11. ASSUME NEW p \in Server, WarmCache(p) PROVE Stutter
    <3>1. /\ \A q \in Server : q # p => run'[q] = run[q]
          /\ run'[p].pc \in {"warm", "emit"} <=> run[p].pc \in {"warm", "emit"}
          /\ run[p].pc \in {"warm", "emit"} => run'[p].prev = run[p].prev
      BY <2>0, <2>11, GoToType, FinishType, PcNames, OutcomeNames DEF WarmCache
    <3>2. ToldNow' = ToldNow
      BY <1>2, <2>11, <3>1, ToldStays DEF WarmCache
    <3>3. UNCHANGED spent \/ Fault
      BY <2>11 DEF WarmCache
    <3> QED
      BY <2>0, <2>11, <3>2, <3>3, LossesCount DEF WarmCache
  <2>12. ASSUME NEW p \in Server, Emit(p) PROVE [Promise!FeedNext]_Promise!feedVars
    <3> DEFINE new == run[p].matches
    <3>1. run'[p].pc = "release" /\ \A q \in Server : q # p => run'[q] = run[q]
      BY <2>0, <2>12, FinishType, PcNames, OutcomeNames DEF Emit
    <3>2. Critical(p) /\ p \in Announcing
      BY <2>12 DEF Emit, Critical, CriticalPc, Announcing
    <3>3. Announcing = {p}
      BY <1>2, <3>2, OthersQuiet
    <3>4. Announcing' = {}
      BY <3>1, <3>3 DEF Announcing
    <3>5. ToldNow = run[p].prev /\ ToldNow' = snapshot' /\ snapshot' = snapshot /\ snapshot = new
      BY <1>2, <2>12, <3>2, <3>4 DEF ToldIs, Emit, InOrder, RunInOrder
    <3>6. ToldNow # 0 /\ new \in ToldNow + 1 .. feed /\ Diff(ToldNow, new) # {}
      BY <1>2, <2>12, <2>c, <3>5 DEF HasNews, Emit
    <3>7. Promise!DiffMatches(Feed[ToldNow], Feed[new]) # {}
      BY <3>6, SameDiff
    <3>8. /\ emitted' = Append(emitted, [before |-> ToldNow, after |-> new])
          /\ UNCHANGED <<feed, losses>> /\ ToldNow' = new
      BY <2>12, <3>5 DEF Emit
    <3> QED
      BY <3>6, <3>7, <3>8 DEF Promise!FeedNext, Promise!Announce
  <2>13. ASSUME NEW p \in Server, ReleaseLock(p) PROVE Stutter
    BY <2>13, <2>f, PcNames DEF ReleaseLock
  <2>14. ASSUME NEW p \in Server, ReleaseLockRejects(p) PROVE Stutter
    <3>1. ToldNow' = ToldNow /\ UNCHANGED <<feed, emitted>> /\ Fault
      BY <2>14, <2>f, PcNames DEF ReleaseLockRejects
    <3> QED
      BY <2>0, <3>1, LossesCount
  <2>15. ASSUME NEW p \in Server, Settle(p) \/ Restart(p) PROVE Stutter
    BY <2>15, <2>h, NoRunType DEF Settle, Restart, NoRun
  <2>16. ASSUME NEW p \in Server, Overrun(p) PROVE FALSE
    BY <1>2, <2>0, <2>16, SpendType DEF Overrun, NoOverrun
  <2>17. ASSUME NEW p \in Server, Crash(p) PROVE Lose
    <3>1. run'[p].pc = "down" /\ \A q \in Server : q # p => run'[q] = run[q]
      BY <2>0, <2>17, DownType, ReplaceType DEF Crash, NoRun
    <3>2. UNCHANGED <<feed, emitted, snapshot>> /\ losses' = losses + 1
      BY <2>0, <2>17, LossesCount DEF Crash
    <3>3. CASE run[p].pc \in {"warm", "emit"}
      <4>1. Critical(p) /\ p \in Announcing
        BY <3>3 DEF Critical, CriticalPc, Announcing
      <4>2. Announcing \subseteq {p}
        BY <1>2, <4>1, OthersQuiet
      <4>3. Announcing' = {}
        BY <3>1, <4>2 DEF Announcing
      <4>4. ToldNow' = snapshot
        BY <1>2, <3>2, <4>3 DEF ToldIs
      <4> QED
        BY <2>c, <3>2, <4>4
    <3>4. CASE run[p].pc \notin {"warm", "emit"}
      <4>1. ToldNow' = ToldNow
        BY <1>2, <3>1, <3>2, <3>4, ToldStays
      <4> QED
        BY <2>c, <3>2, <4>1
    <3> QED
      BY <3>3, <3>4
  <2> HIDE DEF Stutter, Lose
  <2> QED
    BY <1>2, <2>a, <2>b, <2>1, <2>2, <2>3, <2>4, <2>5, <2>6, <2>7, <2>8, <2>9, <2>10,
       <2>11, <2>12, <2>13, <2>14, <2>15, <2>16, <2>17
       DEF Next, RunStep
<1> QED
  BY <1>1, <1>2, TypeCorrect, LockSafe, RunsInOrder, NewsOnly, OneAnnouncer, PTL
     DEF Spec, Promise!FeedSafe

-----------------------------------------------------------------------------
(* No fact is announced twice over a feed that grows. *)

(* The lists of such a feed hold matches, whose figures are numbers. *)
LEMMA FeedFigured ==
  ASSUME FeedGrows, NEW v \in Version
  PROVE  /\ FiguredList(Feed[v])
         /\ \A id \in DOMAIN MatchesById(Feed[v]) : MatchesById(Feed[v])[id] # Null
<1>1. /\ Len(Feed[v]) \in Nat /\ DOMAIN Feed[v] = 1 .. Len(Feed[v])
      /\ \A i \in DOMAIN Feed[v] : Feed[v][i] # Null /\ Figured(Feed[v][i])
  BY DEF FeedGrows, Figured
<1>2. \A id \in DOMAIN MatchesById(Feed[v]) :
        \E i \in DOMAIN Feed[v] : MatchesById(Feed[v])[id] = Feed[v][i]
  BY <1>1, EntryOfTable
<1> QED
  BY <1>1, <1>2 DEF FiguredList

(* Once a team has figures they stay, and do not fall. *)
LEMMA FiguresGrow ==
  ASSUME FeedGrows, NEW v \in Version, NEW w \in Version, v <= w,
         NEW id \in DOMAIN MatchesById(Feed[v]), NEW t \in TeamsOf(Feed[v], id)
  PROVE  /\ RunsIs(Feed[v], id, t) \in Nat /\ WicketsIs(Feed[v], id, t) \in Nat
         /\ RunsWas(Feed[w], id, t) \in Nat /\ WicketsWas(Feed[w], id, t) \in Nat
         /\ RunsIs(Feed[v], id, t) <= RunsWas(Feed[w], id, t)
         /\ WicketsIs(Feed[v], id, t) <= WicketsWas(Feed[w], id, t)
<1> DEFINE x == MatchesById(Feed[v])[id]
           y == MatchesById(Feed[w])[id]
<1>1. /\ id \in DOMAIN MatchesById(Feed[w]) /\ t \in DOMAIN RunsOf(y)
      /\ RunsOf(x)[t] <= RunsOf(y)[t] /\ WicketsOf(x)[t] <= WicketsOf(y)[t]
  BY DEF FeedGrows, TeamsOf
<1>2. Figured(x) /\ Figured(y)
  BY <1>1, FeedFigured, FiguredTable
<1>3. /\ RunsOf(x)[t] \in Nat /\ WicketsOf(x)[t] \in Nat
      /\ RunsOf(y)[t] \in Nat /\ WicketsOf(y)[t] \in Nat /\ t \in DOMAIN WicketsOf(y)
  BY <1>1, <1>2, FiguresType DEF TeamsOf
<1> QED
  BY <1>1, <1>3 DEF RunsIs, RunsWas, WicketsIs, WicketsWas, Known

(* Four lists of the feed, compared two by two, one pair after the other. *)
InTurn(u, v, w, x) == {u, v, w, x} \subseteq Version /\ v <= w /\ w <= x

(* A match does not start in both comparisons: it would have been live between. *)
LEMMA StartsOnce ==
  ASSUME FeedGrows, NEW u, NEW v, NEW w, NEW x, InTurn(u, v, w, x),
         NEW e \in MatchStarted(Diff(u, v)), NEW f \in MatchStarted(Diff(w, x))
  PROVE  e.matchId # f.matchId
<1> SUFFICES ASSUME e.matchId = f.matchId PROVE FALSE
  OBVIOUS
<1> DEFINE id == e.matchId
<1>0. u \in Version /\ v \in Version /\ w \in Version /\ x \in Version /\ v <= w /\ w <= x
  BY DEF InTurn
<1>1. LiveIn(v, id)
  BY <1>0, FeedFigured, StartedIff DEF Diff, LiveIn
<1>2. LiveIn(x, id) /\ ~LiveIn(w, id)
  BY <1>0, FeedFigured, StartedIff DEF Diff, LiveIn
<1>3. id \in DOMAIN MatchesById(Feed[x])
  BY <1>2 DEF LiveIn
<1> QED
  BY <1>0, <1>1, <1>2, <1>3 DEF FeedGrows

(* A team's wickets are not announced at the same count in both. *)
LEMMA FallsOnce ==
  ASSUME FeedGrows, NEW u, NEW v, NEW w, NEW x, InTurn(u, v, w, x),
         NEW e \in WicketFallen(Diff(u, v)), NEW f \in WicketFallen(Diff(w, x))
  PROVE  ~(e.matchId = f.matchId /\ e.teamName = f.teamName /\ e.wickets = f.wickets)
<1> SUFFICES ASSUME e.matchId = f.matchId, e.teamName = f.teamName, e.wickets = f.wickets
             PROVE FALSE
  OBVIOUS
<1>0. u \in Version /\ v \in Version /\ w \in Version /\ x \in Version /\ v <= w /\ w <= x
  BY DEF InTurn
<1>1. PICK id \in Both(Feed[u], Feed[v]) : \E t \in TeamsOf(Feed[v], id) :
        e.matchId = id /\ e.teamName = t /\ e.wickets = WicketsIs(Feed[v], id, t)
  BY <1>0, FeedFigured, WicketFallenIff DEF Diff
<1>2. PICK t \in TeamsOf(Feed[v], id) :
        e.matchId = id /\ e.teamName = t /\ e.wickets = WicketsIs(Feed[v], id, t)
  BY <1>1
<1>3. /\ f.wickets = WicketsIs(Feed[x], id, t) /\ t \in TeamsOf(Feed[x], id)
      /\ WicketsIs(Feed[x], id, t) > WicketsWas(Feed[w], id, t)
      /\ id \in DOMAIN MatchesById(Feed[x])
  <2>1. PICK id2 \in Both(Feed[w], Feed[x]) : \E t2 \in TeamsOf(Feed[x], id2) :
          /\ WicketsIs(Feed[x], id2, t2) > WicketsWas(Feed[w], id2, t2)
          /\ f.matchId = id2 /\ f.teamName = t2 /\ f.wickets = WicketsIs(Feed[x], id2, t2)
    BY <1>0, FeedFigured, WicketFallenIff DEF Diff
  <2> QED
    BY <1>2, <2>1 DEF Both
<1>4. /\ WicketsIs(Feed[v], id, t) \in Nat /\ WicketsWas(Feed[w], id, t) \in Nat
      /\ WicketsIs(Feed[v], id, t) <= WicketsWas(Feed[w], id, t)
  BY <1>0, FiguresGrow DEF Both
<1>5. WicketsIs(Feed[x], id, t) \in Nat
  BY <1>0, <1>3, FeedFigured, FiguredTable, FiguresType DEF WicketsIs, TeamsOf
<1>6. WicketsIs(Feed[v], id, t) = WicketsIs(Feed[x], id, t)
  BY <1>2, <1>3
<1> QED
  BY <1>3, <1>4, <1>5, <1>6

(* Nor does a team reach one milestone in both. *)
LEMMA ReachesOnce ==
  ASSUME FeedGrows, NEW u, NEW v, NEW w, NEW x, InTurn(u, v, w, x),
         NEW e \in MilestoneReached(Diff(u, v)), NEW f \in MilestoneReached(Diff(w, x))
  PROVE  ~(e.matchId = f.matchId /\ e.teamName = f.teamName /\ e.milestone = f.milestone)
<1> SUFFICES ASSUME e.matchId = f.matchId, e.teamName = f.teamName, e.milestone = f.milestone
             PROVE FALSE
  OBVIOUS
<1>0. u \in Version /\ v \in Version /\ w \in Version /\ x \in Version /\ v <= w /\ w <= x
  BY DEF InTurn
<1>1. PICK id \in Both(Feed[u], Feed[v]) : \E t \in TeamsOf(Feed[v], id) :
        e.matchId = id /\ e.teamName = t /\ e.milestone = MilestoneOf(RunsIs(Feed[v], id, t))
  BY <1>0, FeedFigured, MilestoneReachedIff DEF Diff
<1>2. PICK t \in TeamsOf(Feed[v], id) :
        e.matchId = id /\ e.teamName = t /\ e.milestone = MilestoneOf(RunsIs(Feed[v], id, t))
  BY <1>1
<1>3. /\ f.milestone = MilestoneOf(RunsIs(Feed[x], id, t)) /\ t \in TeamsOf(Feed[x], id)
      /\ Passes(Feed[w], Feed[x], id, t) /\ id \in DOMAIN MatchesById(Feed[x])
  <2>1. PICK id2 \in Both(Feed[w], Feed[x]) : \E t2 \in TeamsOf(Feed[x], id2) :
          /\ Passes(Feed[w], Feed[x], id2, t2)
          /\ f.matchId = id2 /\ f.teamName = t2
          /\ f.milestone = MilestoneOf(RunsIs(Feed[x], id2, t2))
    BY <1>0, FeedFigured, MilestoneReachedIff DEF Diff
  <2> QED
    BY <1>2, <2>1 DEF Both
<1>4. /\ RunsIs(Feed[v], id, t) \in Nat /\ RunsWas(Feed[w], id, t) \in Nat
      /\ RunsIs(Feed[v], id, t) <= RunsWas(Feed[w], id, t)
  BY <1>0, FiguresGrow DEF Both
<1>5. RunsIs(Feed[x], id, t) \in Nat
  BY <1>0, <1>3, FeedFigured, FiguredTable, FiguresType DEF RunsIs, TeamsOf
<1> DEFINE m == RunsIs(Feed[v], id, t)
           n == RunsWas(Feed[w], id, t)
           k == RunsIs(Feed[x], id, t)
<1>6. MilestoneOf(m) = MilestoneOf(k) /\ n \div MilestoneStep < k \div MilestoneStep
  BY <1>2, <1>3 DEF Passes
<1> HIDE DEF m, n, k
<1>7. m \in Nat /\ n \in Nat /\ k \in Nat /\ m <= n
  BY <1>4, <1>5 DEF m, n, k
<1>8. /\ m \div MilestoneStep = k \div MilestoneStep
      /\ m \div MilestoneStep <= n \div MilestoneStep
  BY <1>6, <1>7, MilestoneOrder
<1>9. m \div MilestoneStep \in Nat /\ n \div MilestoneStep \in Nat
  BY <1>7, MilestoneOrder
<1> QED
  BY <1>6, <1>8, <1>9

(* The name of an event tells its kind. *)
LEMMA EventNames ==
  ASSUME NEW C, NEW e \in DeriveMatchEvents(C)
  PROVE  \/ e.name = "matchStarted" /\ e \in MatchStarted(C)
         \/ e.name = "wicketFallen" /\ e \in WicketFallen(C)
         \/ e.name = "milestoneReached" /\ e \in MilestoneReached(C)
  BY DEF DeriveMatchEvents, MatchStarted, WicketFallen, MilestoneReached

(* So no fact is told by both. *)
LEMMA FactsDiffer ==
  ASSUME FeedGrows, NEW u, NEW v, NEW w, NEW x, InTurn(u, v, w, x),
         NEW e \in DeriveMatchEvents(Diff(u, v)), NEW f \in DeriveMatchEvents(Diff(w, x))
  PROVE  Fact(e) # Fact(f)
<1> SUFFICES ASSUME Fact(e) = Fact(f) PROVE FALSE
  OBVIOUS
<1>1. e.name = f.name /\ e.matchId = f.matchId
  BY DEF Fact
<1>2. CASE e.name = "matchStarted"
  <2>1. e \in MatchStarted(Diff(u, v)) /\ f \in MatchStarted(Diff(w, x))
    BY <1>1, <1>2, EventNames
  <2> QED
    BY <1>1, <2>1, StartsOnce
<1>3. CASE e.name = "wicketFallen"
  <2>1. e.teamName = f.teamName /\ e.wickets = f.wickets
    BY <1>1, <1>3 DEF Fact
  <2>2. e \in WicketFallen(Diff(u, v)) /\ f \in WicketFallen(Diff(w, x))
    BY <1>1, <1>3, EventNames
  <2> QED
    BY <1>1, <2>1, <2>2, FallsOnce
<1>4. CASE e.name = "milestoneReached"
  <2>1. e.teamName = f.teamName /\ e.milestone = f.milestone
    BY <1>1, <1>4 DEF Fact
  <2>2. e \in MilestoneReached(Diff(u, v)) /\ f \in MilestoneReached(Diff(w, x))
    BY <1>1, <1>4, EventNames
  <2> QED
    BY <1>1, <2>1, <2>2, ReachesOnce
<1> QED
  BY <1>2, <1>3, <1>4, EventNames

(* Every announcement goes from one list of the provider to a later one. *)
GoesForward ==
  \A i \in 1 .. Len(emitted) :
    /\ emitted[i].before \in Version /\ emitted[i].after \in Version
    /\ emitted[i].before <= emitted[i].after

(* Announcements go forward, each by itself and all together. *)
THEOREM Forward == Spec => [](NoOverrun => GoesForward)
<1> DEFINE News == NoOverrun => \A p \in Server : HasNews(p)
           Inv == NoOverrun => GoesForward
<1>1. Init => Inv
  BY DEF Init, GoesForward
<1>2. TypeOK /\ News /\ Inv /\ [Next]_vars => Inv'
  <2> SUFFICES ASSUME TypeOK, News, Inv, [Next]_vars, NoOverrun' PROVE GoesForward'
    OBVIOUS
  <2>1. GoesForward /\ \A p \in Server : HasNews(p)
    BY OverrunsStay
  <2>2. CASE emitted' = emitted
    BY <2>1, <2>2 DEF GoesForward
  <2>3. ASSUME NEW p \in Server, Emit(p) PROVE GoesForward'
    <3> DEFINE e == [before |-> run[p].prev, after |-> run[p].matches]
    <3>1. emitted' = Append(emitted, e)
      BY <2>3 DEF Emit
    <3>2. emitted \in Seq([before : 0 .. Len(Feed), after : 0 .. Len(Feed)])
      BY DEF TypeOK
    <3>3. /\ Len(emitted') = Len(emitted) + 1 /\ Len(emitted) \in Nat
          /\ \A i \in 1 .. Len(emitted) : emitted'[i] = emitted[i]
          /\ emitted'[Len(emitted) + 1] = e
      BY <3>1, <3>2
    <3>4. /\ run[p].prev \in Version /\ run[p].matches \in Version
          /\ run[p].prev <= run[p].matches
      <4>1. /\ run[p].prev \in 1 .. feed /\ run[p].matches \in 1 .. feed
            /\ run[p].prev < run[p].matches
        BY <2>1, <2>3 DEF Emit, HasNews
      <4> QED
        BY <4>1, FeedAssumption DEF TypeOK, Version
    <3> QED
      BY <2>1, <3>3, <3>4 DEF GoesForward
  <2> QED
    BY <2>2, <2>3 DEF Next, vars, RunStep, Advance, Tick, Stall, Take, AcquireLock,
       AcquireLockRejects, GetLiveMatches, GetLiveMatchesFails, GetSnapshot, SetSnapshot,
       SnapshotRejects, WarmCache, ReleaseLock, ReleaseLockRejects, Settle, ExpireOrphan,
       Overrun, Crash, Restart
<1> QED
  BY <1>1, <1>2, TypeCorrect, NewsOnly, PTL DEF Spec

(* Over a feed of matches as they are played, no start, no wicket and no milestone is
   announced twice, however many processes poll and whatever fails, as long as no run
   outlives its lock. *)
THEOREM NeverRepeat ==
  ASSUME FeedGrows
  PROVE  Spec => []EventsNeverRepeat
<1>1. ASSUME InOrder, GoesForward PROVE NoEventTwice
  <2>1. ASSUME NEW i \in 1 .. Len(emitted), NEW j \in 1 .. Len(emitted), i < j
        PROVE  FactsOf(i) \cap FactsOf(j) = {}
    <3> DEFINE u == emitted[i].before
               v == emitted[i].after
               w == emitted[j].before
               x == emitted[j].after
    <3>1. InTurn(u, v, w, x)
      BY <1>1, <2>1 DEF InTurn, InOrder, EmitsForward, GoesForward
    <3> HIDE DEF u, v, w, x
    <3>2. \A e \in DeriveMatchEvents(Diff(u, v)), f \in DeriveMatchEvents(Diff(w, x)) :
            Fact(e) # Fact(f)
      BY <3>1, FactsDiffer
    <3>3. /\ FactsOf(i) = {Fact(e) : e \in DeriveMatchEvents(Diff(u, v))}
          /\ FactsOf(j) = {Fact(e) : e \in DeriveMatchEvents(Diff(w, x))}
      BY DEF FactsOf, u, v, w, x
    <3> QED
      BY <3>2, <3>3
  <2> QED
    BY <2>1 DEF NoEventTwice
<1>2. (NoOverrun => InOrder) /\ (NoOverrun => GoesForward) => EventsNeverRepeat
  BY <1>1 DEF EventsNeverRepeat, NoOverrun
<1> QED
  BY <1>2, RunsInOrder, Forward, PTL
=============================================================================
