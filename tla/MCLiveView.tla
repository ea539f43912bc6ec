----------------------------- MODULE MCLiveView -----------------------------
(* One browser, two matches: one moves on when the other is unlisted.       *)
EXTENDS LiveView, TLC

CONSTANTS b1, m1, m2

Entry(id, overs) ==
  [id |-> id, teams |-> <<"ind", "aus">>, status |-> "live", overs |-> overs, score |-> Null]

MCFeed == <<<<Entry(m1, 1), Entry(m2, 1)>>, <<Entry(m1, 2)>>>>

\* What the theorem about PageUpToDate supposes.
ASSUME NoReturnHere == NoReturn
=============================================================================
