------------------------------ MODULE MatchDiff ------------------------------
(***************************************************************************)
(* The pure part of the poll job (src/jobs/pollScores.js): how two match   *)
(* lists are compared, and which semantic events a comparison yields.      *)
(*                                                                         *)
(* A match is a record [id, teams, status, overs, score]; `score' is Null  *)
(* or a function from team names to [runs, wkts], which is what the string *)
(* "runs/wkts" of the code carries.  A match list is a sequence of         *)
(* matches.  The changes[] and events[] arrays are sets here: no consumer  *)
(* depends on the order inside one array.                                  *)
(***************************************************************************)
EXTENDS Integers, Sequences, FiniteSets

CONSTANT Null

ComparedFields == {"status", "overs", "score", "wickets"}

MilestoneStep == 50

NoTeams == [t \in {} |-> 0]

WicketsOf(match) ==
  IF match.score = Null THEN NoTeams
  ELSE [t \in DOMAIN match.score |-> match.score[t].wkts]

RunsOf(match) ==
  IF match.score = Null THEN NoTeams
  ELSE [t \in DOMAIN match.score |-> match.score[t].runs]

FieldValue(match, field) ==
  IF field = "wickets" THEN WicketsOf(match) ELSE match[field]

ChangedFields(before, after) ==
  {f \in ComparedFields : FieldValue(before, f) # FieldValue(after, f)}

\* new Map(list.filter(id != null)): of two entries with one id the later wins.
MatchesById(list) ==
  LET ids == {list[i].id : i \in DOMAIN list} \ {Null}
      lastAt(id) == CHOOSE i \in DOMAIN list :
                      /\ list[i].id = id
                      /\ \A j \in DOMAIN list : list[j].id = id => j <= i
  IN  [id \in ids |-> list[lastAt(id)]]

Change(id, type, before, after, fields) ==
  [id |-> id, type |-> type, before |-> before, after |-> after, fields |-> fields]

AddedIn(prev, next) ==
  {Change(id, "added", Null, next[id], {}) : id \in DOMAIN next \ DOMAIN prev}

ChangedIn(prev, next) ==
  {Change(id, "changed", prev[id], next[id], ChangedFields(prev[id], next[id])) :
      id \in {x \in DOMAIN next \cap DOMAIN prev : ChangedFields(prev[x], next[x]) # {}}}

\* Mutant: matches that went away are not looked for.
RemovedIn_none(prev, next) == {}

RemovedIn(prev, next) ==
  {Change(id, "removed", prev[id], Null, {}) : id \in DOMAIN prev \ DOMAIN next}

DiffMatches(before, after) ==
  LET prev == MatchesById(before)
      next == MatchesById(after)
  IN  AddedIn(prev, next) \cup ChangedIn(prev, next) \cup RemovedIn(prev, next)

-----------------------------------------------------------------------------
(* deriveMatchEvents *)

\* before[team] ?? 0
Known(figures, team) == IF team \in DOMAIN figures THEN figures[team] ELSE 0

\* Mutant: any change of a live match counts.
WentLive_anyChange(c) == c.after # Null /\ c.after.status = "live"

WentLive(c) ==
  /\ c.after # Null
  /\ c.after.status = "live"
  /\ \/ c.type = "changed" /\ "status" \in c.fields
     \/ c.type = "added"

MatchStarted(changes) ==
  {[name |-> "matchStarted", matchId |-> c.id, teams |-> c.after.teams] :
      c \in {d \in changes : WentLive(d)}}

\* Mutant: counted from zero instead of from the previous snapshot.
WicketDelta_fromZero(c, team) == WicketsOf(c.after)[team]

WicketDelta(c, team) == WicketsOf(c.after)[team] - Known(WicketsOf(c.before), team)

WicketFallen(changes) ==
  UNION {{[name |-> "wicketFallen", matchId |-> c.id, teamName |-> t,
           wickets |-> WicketsOf(c.after)[t], delta |-> WicketDelta(c, t)] :
             t \in {u \in DOMAIN WicketsOf(c.after) : WicketDelta(c, u) > 0}} :
         c \in {d \in changes : d.type = "changed" /\ "wickets" \in d.fields}}

MilestoneOf(runs) == (runs \div MilestoneStep) * MilestoneStep

\* Mutant: the previous total is not consulted.
CrossedMilestone_everyTime(c, team) == MilestoneOf(RunsOf(c.after)[team]) >= MilestoneStep

CrossedMilestone(c, team) ==
  LET runs == RunsOf(c.after)[team]
  IN  /\ MilestoneOf(runs) >= MilestoneStep
      /\ Known(RunsOf(c.before), team) \div MilestoneStep < runs \div MilestoneStep

MilestoneReached(changes) ==
  UNION {{[name |-> "milestoneReached", matchId |-> c.id, teamName |-> t,
           runs |-> RunsOf(c.after)[t], milestone |-> MilestoneOf(RunsOf(c.after)[t])] :
             t \in {u \in DOMAIN RunsOf(c.after) : CrossedMilestone(c, u)}} :
         c \in {d \in changes : d.type = "changed" /\ "score" \in d.fields}}

DeriveMatchEvents(changes) ==
  MatchStarted(changes) \cup WicketFallen(changes) \cup MilestoneReached(changes)
=============================================================================
