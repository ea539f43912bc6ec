------------------------------ MODULE MCPollJob ------------------------------
(* Small instances of PollJob: two processes, two jobs, a feed of up to four lists. *)
EXTENDS PollJob, TLC

Match(id, status, overs, runs, wkts) ==
  [id |-> id, teams |-> <<"ind", "aus">>, status |-> status, overs |-> overs,
   score |-> ("ind" :> [runs |-> runs, wkts |-> wkts])]

\* A wicket and a milestone, then a match that ends while another goes live.
MCFeed == << <<Match("m1", "live", 9, 40, 1)>>,
             <<Match("m1", "live", 11, 52, 2)>>,
             <<Match("m1", "completed", 20, 90, 2), Match("m2", "live", 0, 0, 0)>> >>

\* As MCFeed, with a third list that differs only in what is not compared.
MCFeedQuiet == << MCFeed[1], MCFeed[2],
                  <<[MCFeed[2][1] EXCEPT !.teams = <<"ind", "eng">>]>>, MCFeed[3] >>

\* The feed grows as that of EventsNeverRepeat is taken to.
ASSUME FeedGrowsHere == FeedGrows

Processes == Permutations(Server) \cup Permutations(Slot)
=============================================================================
