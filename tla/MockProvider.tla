---------------------------- MODULE MockProvider ----------------------------
(***************************************************************************)
(* The provider that stands in when no API key is set                      *)
(* (src/lib/mockCricketApi.js, seeded by src/lib/mockMatches.js): matches  *)
(* whose figures grow with the wall clock, served in the external shape,   *)
(* with failures that can be injected.                                     *)
(***************************************************************************)
EXTENDS Scores

CONSTANTS
  Matches,  \* the fixtures, as internal matches
  Rolls     \* the values pseudoRandom may take, in thousandths

\* A name or a label is a sequence of words.
IsName(words) == words \in Seq(Range(words))

\* What buildMatch makes a fixture, and evolve keeps it: a score is of both teams,
\* there are overs with it, and no label of the second team's innings begins with the
\* name of the first.
IsFixture(m) ==
  /\ m = [id |-> m.id, teams |-> m.teams, status |-> m.status, overs |-> m.overs,
          score |-> m.score]
  /\ m.teams = <<m.teams[1], m.teams[2]>>
  /\ m.status \in {"live", "completed", "upcoming"}
  /\ \A k \in 1 .. 2 : IsName(m.teams[k]) /\ m.teams[k] \notin {Null, <<>>}
  /\ ~IsPrefix(m.teams[1], Append(m.teams[2], "Inning 1"))
  /\ \/ m.score = Null /\ m.overs = Null
     \/ /\ m.overs \in Nat
        /\ m.score \in [{m.teams[1], m.teams[2]} -> [runs : Nat, wkts : Nat]]

ASSUME FixtureAssumption ==
  /\ Null \notin Nat
  /\ Matches \in Seq(Range(Matches))
  /\ \A i \in DOMAIN Matches : IsFixture(Matches[i])

BuildMatch(id, teamA, teamB, status) ==
  LET played == status # "upcoming"
  IN  [id |-> id, teams |-> <<teamA, teamB>>, status |-> status,
       overs |-> IF played THEN 100 + 13 * id ELSE Null,
       score |-> IF ~played THEN Null
                 ELSE [t \in {teamA, teamB} |->
                         IF t = teamA THEN [runs |-> 120 + id * 7, wkts |-> id % 10]
                         ELSE [runs |-> 100 + id * 5, wkts |-> (id + 3) % 10]]]

\* What one innings gains in so many ticks: 1 to 6 runs each, and a wicket for a
\* roll above nine tenths.
Gains(ticks) ==
  {[runs |-> MapThenSumSet(LAMBDA t : 1 + (roll[t] * 6) \div 1000, 1 .. ticks),
    wkts |-> Cardinality({t \in 1 .. ticks : roll[t] > 900})] :
      roll \in [1 .. ticks -> Rolls]}

Batting(list) ==
  UNION {{<<i, t>> : t \in DOMAIN list[i].score} :
           i \in {j \in DOMAIN list : list[j].status = "live" /\ list[j].score # Null}}

AtMostTen(wkts) == IF wkts > 10 THEN 10 ELSE wkts

Grown(figures, gain) ==
  [runs |-> figures.runs + gain.runs, wkts |-> AtMostTen(figures.wkts + gain.wkts)]

\* evolve: the lists the mock may hold after so many ticks.
Evolved(list, ticks) ==
  {[i \in DOMAIN list |->
      IF \E t \in Range(list[i].teams) : <<i, t>> \in Batting(list)
      THEN [list[i] EXCEPT !.overs = @ + 3 * ticks,
                           !.score = [t \in DOMAIN @ |-> Grown(@[t], gain[<<i, t>>])]]
      ELSE list[i]] :
   gain \in [Batting(list) -> Gains(ticks)]}

\* The external shape: one innings per team, named after it.
ToExternal(match) ==
  LET ended == match.status = "completed"
      started == ended \/ match.status = "live"
      innings == IF match.score = Null THEN <<>> ELSE match.teams
  IN  [id |-> match.id, name |-> match.teams, teams |-> match.teams,
       status |-> IF ended THEN {} ELSE IF started THEN {"live"} ELSE {"upcoming"},
       matchStarted |-> started, matchEnded |-> ended,
       score |-> [i \in DOMAIN innings |->
                    [inning |-> Append(innings[i], "Inning 1"),
                     r |-> match.score[innings[i]].runs,
                     w |-> match.score[innings[i]].wkts,
                     o |-> match.overs]]]

CurrentMatchesBody(list) ==
  [data |-> [i \in DOMAIN list |-> ToExternal(list[i])], matches |-> Null]

-----------------------------------------------------------------------------
(* Failure injection *)

\* A mode with its count of calls.  What kind of failure it is (a timeout, a 429,
\* a 500, a malformed body) makes no difference to the provider's own state.
Injected(mode, n) == [mode |-> mode, n |-> n, counter |-> 0]

\* The counter is only looked at for its first value or modulo n, and is kept
\* small accordingly.
Counted(failure) ==
  [failure EXCEPT !.counter = IF failure.mode = "everyNth" THEN (@ + 1) % failure.n
                              ELSE IF @ < 2 THEN @ + 1 ELSE @]

\* shouldTrigger, of the failure already counted.
Triggers(failure) ==
  CASE failure.mode = "none"     -> FALSE
    [] failure.mode = "once"     -> failure.counter = 1
    [] failure.mode = "everyNth" -> failure.counter % failure.n = 0
    [] OTHER                     -> TRUE
=============================================================================
