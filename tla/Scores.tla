------------------------------- MODULE Scores -------------------------------
(***************************************************************************)
(* Normalisation of what a provider answers (src/lib/cricketSchemas.js)    *)
(* into the matches that MatchDiff compares.                               *)
(*                                                                         *)
(* An external match has the fields id, name, status, teams, matchStarted, *)
(* matchEnded and score.  A team's name is a sequence of words, because    *)
(* innings find their team by a prefix of their label; `name' is what is   *)
(* left when "A vs B" is split; `status' is the set of the classes whose   *)
(* keywords the text contains.  An absent field is Null, <<>> or {}, an    *)
(* absent flag FALSE.  Ids are the texts String() makes of them, and overs *)
(* are counted in tenths.                                                  *)
(***************************************************************************)
EXTENDS MatchDiff, SequencesExt, FiniteSetsExt

\* Mutant: started is looked at before ended.
NormalizeStatus_startedFirst(raw) ==
  IF raw.matchStarted THEN "live" ELSE IF raw.matchEnded THEN "completed" ELSE "upcoming"

\* The flags win, then the first class of this order the text has a keyword of.
NormalizeStatus(raw) ==
  IF raw.matchEnded THEN "completed"
  ELSE IF raw.matchStarted \/ "live" \in raw.status THEN "live"
  ELSE IF "completed" \in raw.status THEN "completed"
  ELSE IF "upcoming" \in raw.status THEN "upcoming"
  ELSE "unknown"

NormalizeTeams(raw) ==
  IF Len(raw.teams) >= 2 THEN SubSeq(raw.teams, 1, 2)
  ELSE IF Len(raw.name) >= 2 THEN SubSeq(raw.name, 1, 2)
  ELSE <<Null, Null>>

\* The teams whose name the label of the i-th innings begins with.
TeamsByName(raw, teams, i) ==
  {k \in DOMAIN teams : /\ teams[k] \notin {Null, <<>>}
                        /\ IsPrefix(teams[k], raw.score[i].inning)}

\* Mutant: only the position decides.
TeamOfInnings_byPosition(raw, teams, i) ==
  IF i <= 2 /\ teams[i] # Null THEN teams[i] ELSE <<"Innings", i>>

\* byName ?? teams[i] ?? `Innings ${i + 1}`
TeamOfInnings(raw, teams, i) ==
  IF TeamsByName(raw, teams, i) # {} THEN teams[Min(TeamsByName(raw, teams, i))]
  ELSE IF i <= 2 /\ teams[i] # Null THEN teams[i]
  ELSE <<"Innings", i>>

OrZero(figure) == IF figure = Null THEN 0 ELSE figure

\* Every innings overwrites what an earlier one of its team has left.
NormalizeScore(raw, teams) ==
  LET owner == [i \in DOMAIN raw.score |-> TeamOfInnings(raw, teams, i)]
      latest(t) == raw.score[Max({i \in DOMAIN owner : owner[i] = t})]
  IN  IF raw.score = <<>> THEN Null
      ELSE [t \in Range(owner) |->
              [runs |-> OrZero(latest(t).r), wkts |-> OrZero(latest(t).w)]]

NormalizeOvers(raw) ==
  LET figures == {inn.o : inn \in Range(raw.score)} \ {Null}
  IN  IF figures = {} THEN Null ELSE Max(figures)

NormalizeMatch(raw) ==
  [id     |-> raw.id,
   teams  |-> NormalizeTeams(raw),
   status |-> NormalizeStatus(raw),
   overs  |-> NormalizeOvers(raw),
   score  |-> NormalizeScore(raw, NormalizeTeams(raw))]

\* The list lies under `data' or `matches'; Null where there is no array.
ExtractMatchList(body) ==
  IF body.data # Null THEN body.data
  ELSE IF body.matches # Null THEN body.matches
  ELSE <<>>

\* What a poll gets of an answer that parses.
MatchesOf(body) ==
  LET raws == ExtractMatchList(body)
  IN  [i \in DOMAIN raws |-> NormalizeMatch(raws[i])]
=============================================================================
