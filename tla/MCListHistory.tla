---------------------------- MODULE MCListHistory ----------------------------
(***************************************************************************)
(* Answers with up to two matches and figures on both sides of a           *)
(* milestone; innings in the other order, twice for a team, without label, *)
(* without figures, of teams whose names share a word; the mock's own      *)
(* fixtures.                                                               *)
(***************************************************************************)
EXTENDS ListHistory

India == <<"India">>
IndiaA == <<"India", "A">>
Aus == <<"Australia">>

Inn(team, number, runs, wkts) ==
  [inning |-> team \o <<number>>, r |-> runs, w |-> wkts, o |-> 10]

Of(team, runs, wkts) == Inn(team, "Inning 1", runs, wkts)

Raw(id, teams, started, ended, score) ==
  [id |-> id, name |-> <<>>, teams |-> teams, status |-> {}, matchStarted |-> started,
   matchEnded |-> ended, score |-> score]

Data(list) == [data |-> list, matches |-> Null]

Figures == {<<>>, <<Of(India, 40, 0)>>, <<Of(India, 51, 0)>>, <<Of(India, 51, 2)>>,
            <<Of(India, 101, 3), Of(Aus, 60, 1)>>, <<Of(Aus, 60, 2), Of(India, 120, 3)>>}

\* One match in every state of play.
OneMatch ==
  {Data(<<Raw("m1", <<India, Aus>>, TRUE, ended, score)>>) :
      ended \in BOOLEAN, score \in Figures}

\* Shapes only an unusual answer has: no list, no id, a match listed twice, four
\* innings, innings without label or figures, a text instead of flags, a name
\* instead of teams.
Unusual ==
  {Data(Null), Data(<<>>), Data(<<Raw(Null, <<India, Aus>>, TRUE, FALSE, <<>>)>>),
   Data(<<Raw("m1", <<India, Aus>>, TRUE, FALSE, <<Of(India, 51, 2)>>),
          Raw("m2", <<India, Aus>>, TRUE, FALSE, <<>>)>>),
   Data(<<Raw("m1", <<India, Aus>>, TRUE, FALSE, <<>>),
          Raw("m1", <<India, Aus>>, TRUE, TRUE, <<Of(India, 51, 2)>>)>>),
   Data(<<Raw("m1", <<India, Aus>>, TRUE, FALSE,
              <<Of(India, 101, 3), Of(Aus, 60, 1), Inn(Aus, "Inning 2", 20, 0),
                Inn(India, "Inning 2", 30, 1)>>)>>),
   Data(<<Raw("m1", <<IndiaA, India>>, TRUE, FALSE, <<Of(India, 51, 2), Of(IndiaA, 40, 0)>>)>>),
   Data(<<Raw("m1", <<India, IndiaA>>, TRUE, FALSE, <<Of(India, 51, 2), Of(IndiaA, 40, 0)>>)>>),
   [data |-> Null,
    matches |-> <<[Raw("m1", <<>>, FALSE, FALSE,
                       <<[inning |-> <<>>, r |-> 51, w |-> Null, o |-> Null],
                         Of(Aus, 60, 1)>>)
                   EXCEPT !.name = <<India, Aus>>, !.status = {"live", "completed"}],
                  [Raw("m2", <<>>, FALSE, FALSE, <<Of(India, 40, 0)>>)
                   EXCEPT !.status = {"upcoming"}],
                  Raw("m3", <<>>, FALSE, FALSE, <<>>)>>]}

MCBodies == OneMatch \cup Unusual

\* mockMatches.js, lines 23-30.
MCMatches ==
  <<BuildMatch(1, India, Aus, "live"),
    BuildMatch(2, <<"England">>, <<"Pakistan">>, "live"),
    BuildMatch(3, <<"South", "Africa">>, <<"New", "Zealand">>, "completed"),
    BuildMatch(4, <<"Sri", "Lanka">>, <<"Bangladesh">>, "upcoming"),
    BuildMatch(5, India, <<"England">>, "upcoming"),
    BuildMatch(6, Aus, <<"South", "Africa">>, "completed")>>

MCFailures == {Injected("none", 2), Injected("once", 2), Injected("everyNth", 3)}
=============================================================================
