----------------------------- MODULE ListHistory -----------------------------
(***************************************************************************)
(* From the provider to the events: consecutive polls of an HTTP provider  *)
(* that may answer any of Bodies, or of the mock provider, whose matches   *)
(* go on between the calls.  What a poll gets is normalised (Scores); the  *)
(* last three lists are kept, to check what MatchDiff computes of them     *)
(* against what a subscriber needs.                                        *)
(***************************************************************************)
EXTENDS MockProvider

CONSTANTS
  Bodies,    \* the answers of the HTTP provider
  Failures,  \* the failures that may be injected into the mock
  MaxTicks   \* bound: how long the mock's matches go on

\* Innings with a label, or <<>> for none, and figures that are natural numbers or
\* absent.
IsRaw(raw) ==
  /\ Len(raw.score) \in Nat /\ DOMAIN raw.score = 1 .. Len(raw.score)
  /\ \A j \in DOMAIN raw.score :
       /\ OrZero(raw.score[j].r) \in Nat /\ OrZero(raw.score[j].w) \in Nat
       /\ IsName(raw.score[j].inning)

IsAnswer(answer) ==
  LET raws == ExtractMatchList(answer)
  IN  /\ Len(raws) \in Nat /\ DOMAIN raws = 1 .. Len(raws)
      /\ \A i \in DOMAIN raws : IsRaw(raws[i])

ASSUME BodiesAssumption == \A answer \in Bodies : IsAnswer(answer)

\* What an innings gains is a sum of naturals, and a natural.
ASSUME GainsAssumption ==
  MaxTicks \in Nat /\ \A n \in 0 .. MaxTicks : Gains(n) \subseteq [runs : Nat, wkts : Nat]

VARIABLES
  source,   \* the provider CRICKET_API_KEY selects: "http" or "mock"
  body,     \* the last answer
  first, second, third,  \* the last three lists
  mock,     \* state.matches of the mock
  anchor,   \* state.anchor of the mock, in ticks
  failure   \* the mock's injected failure

lists == <<first, second, third>>

mockVars == <<mock, anchor, failure>>

vars == <<source, body, lists, mockVars>>

Init ==
  /\ \/ source = "http" /\ body \in Bodies /\ failure = Injected("none", 2)
     \/ source = "mock" /\ body = CurrentMatchesBody(Matches) /\ failure \in Failures
  /\ mock = Matches /\ anchor = 0
  /\ first = MatchesOf(body) /\ second = first /\ third = first

\* One more poll gets an answer.
Polled(answer) ==
  /\ body' = answer
  /\ first' = second
  /\ second' = third
  /\ third' = MatchesOf(answer)
  /\ UNCHANGED source

HttpPoll ==
  /\ source = "http"
  /\ \E answer \in Bodies : Polled(answer)
  /\ UNCHANGED mockVars

\* maybeFail lets the call through, and the matches have gone on by some ticks.
MockServes ==
  /\ source = "mock"
  /\ failure' = Counted(failure)
  /\ ~Triggers(failure')
  /\ anchor' \in anchor .. MaxTicks
  /\ mock' \in Evolved(mock, anchor' - anchor)

GetCurrentMatches ==
  /\ MockServes
  /\ Polled(CurrentMatchesBody(mock'))

\* A route's fallback asks the mock too, for a known id or not.
GetMatchInfo ==
  /\ MockServes
  /\ UNCHANGED <<source, body, lists>>

\* A call of either kind that meets the injected failure.
MockFails ==
  /\ source = "mock"
  /\ failure' = Counted(failure)
  /\ Triggers(failure')
  /\ UNCHANGED <<source, body, lists, mock, anchor>>

Next == HttpPoll \/ GetCurrentMatches \/ GetMatchInfo \/ MockFails

Spec == Init /\ [][Next]_vars

-----------------------------------------------------------------------------
(* Properties *)

\* What a subscriber that applies changes to its own table is left with.
Patched(table, changes) ==
  LET gone == {c.id : c \in {d \in changes : d.type = "removed"}}
      new == {c \in changes : c.type # "removed"}
      ids == (DOMAIN table \cup {c.id : c \in new}) \ gone
  IN  [id \in ids |-> IF \E c \in new : c.id = id
                      THEN (CHOOSE c \in new : c.id = id).after
                      ELSE table[id]]

\* Applying the changes of a poll to the table of the list before gives the
\* table of the list after, in every compared field: no change is left out,
\* none is about a match that did not move.
ChangesRebuildList ==
  LET was == MatchesById(second)
      is == MatchesById(third)
      patched == Patched(was, DiffMatches(second, third))
  IN  /\ DOMAIN patched = DOMAIN is
      /\ \A id \in DOMAIN is : ChangedFields(patched[id], is[id]) = {}
      /\ \A c \in DiffMatches(second, third) :
           c.type = "changed" =>
             \E f \in {"status", "overs", "score"} : c.before[f] # c.after[f]

EventsOf(before, after) == DeriveMatchEvents(DiffMatches(before, after))

Named(events, name) == {e \in events : e.name = name}

Delta(before, after, id, team) ==
  LET found == {e \in Named(EventsOf(before, after), "wicketFallen") :
                  e.matchId = id /\ e.teamName = team}
  IN  IF found = {} THEN 0 ELSE (CHOOSE e \in found : TRUE).delta

\* A match whose figures only grow over the three polls.
Growing(id) ==
  LET a == MatchesById(first) b == MatchesById(second) c == MatchesById(third)
      grows(x, y) == \A t \in DOMAIN RunsOf(x) :
        /\ t \in DOMAIN RunsOf(y)
        /\ RunsOf(x)[t] <= RunsOf(y)[t]
        /\ WicketsOf(x)[t] <= WicketsOf(y)[t]
  IN  /\ id \in DOMAIN a \cap DOMAIN b \cap DOMAIN c
      /\ grows(a[id], b[id]) /\ grows(b[id], c[id])

Teams(id) == DOMAIN RunsOf(MatchesById(third)[id])

\* A poll that is skipped loses no wicket: the two deltas of a growing match add
\* up to the delta of the two polls taken as one.
DeltasAddUp ==
  \A id \in DOMAIN MatchesById(third) : Growing(id) =>
    \A t \in Teams(id) :
      Delta(first, third, id, t) = Delta(first, second, id, t) + Delta(second, third, id, t)

Milestones(before, after, id) ==
  {<<e.teamName, e.milestone>> :
     e \in {x \in Named(EventsOf(before, after), "milestoneReached") : x.matchId = id}}

\* A growing match passes a milestone once, and the milestone that the two polls
\* taken as one would report is reported by one of them.
MilestonesOnce ==
  \A id \in DOMAIN MatchesById(third) : Growing(id) =>
    /\ Milestones(first, second, id) \cap Milestones(second, third, id) = {}
    /\ Milestones(first, third, id)
         \subseteq Milestones(first, second, id) \cup Milestones(second, third, id)

\* matchStarted is about a match that was not live in the list before, and every
\* match that is live now and was not then is announced.
StartedMeansWentLive ==
  LET was == MatchesById(second)
      is == MatchesById(third)
  IN  {e.matchId : e \in Named(EventsOf(second, third), "matchStarted")}
        = {id \in DOMAIN is : /\ is[id].status = "live"
                              /\ id \in DOMAIN was => was[id].status # "live"}

\* The matches the app sees are those the mock holds: nothing is lost or renamed
\* on the way out through toExternal and in through normalizeMatch, whatever the
\* status and however far the match has gone on.
MockRoundTrip ==
  source = "mock" => MatchesOf(CurrentMatchesBody(mock)) = mock

\* Of a match and what it was normalised from: innings whose labels all name one of
\* the match's teams are credited to the team they name, the last of several one
\* counting, in whatever order they are listed.  It takes a first team whose name no
\* label of the other begins with: "India A" after "India" loses its innings to it.
TeamsKept(raw, match) ==
  LET teams == match.teams
      names == [j \in DOMAIN raw.score |->
                  IF raw.score[j].inning = <<>> THEN <<>> ELSE Front(raw.score[j].inning)]
      labelled == Range(names) \subseteq Range(teams)
      named == {Null, <<>>} \cap Range(teams) = {}
      distinct == \A j \in DOMAIN names :
                    names[j] # teams[1] => ~IsPrefix(teams[1], raw.score[j].inning)
  IN  labelled /\ named /\ distinct /\ raw.score # <<>> =>
        /\ DOMAIN match.score = Range(names)
        /\ \A j \in DOMAIN names :
             (\A k \in DOMAIN names : k > j => names[k] # names[j]) =>
               match.score[names[j]]
                 = [runs |-> OrZero(raw.score[j].r), wkts |-> OrZero(raw.score[j].w)]

\* Every match of a poll has its innings credited to the teams their labels name.
InningsKeepTheirTeam ==
  \A i \in DOMAIN third : TeamsKept(ExtractMatchList(body)[i], third[i])
=============================================================================
