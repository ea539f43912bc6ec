------------------------------ MODULE ChangeFeed ------------------------------
(***************************************************************************)
(* What the poll job promises its subscribers, without processes, locks,   *)
(* jobs or Redis: a log of announcements.  The first list seeds what they  *)
(* are taken to know; from then on every announcement carries the changes  *)
(* from what they know to a later list of the provider, is made only when  *)
(* there is a change, and what they know is the list it ends with.  A loss *)
(* (a crash, a lost reply) may skip one announcement.                      *)
(***************************************************************************)
EXTENDS MatchDiff

CONSTANT Feed

VARIABLES
  latest,  \* index of the list the provider serves
  told,    \* index of the list the subscribers know, 0 before the seed
  log,     \* the announcements made so far
  losses   \* how many losses there were

feedVars == <<latest, told, log, losses>>

FeedInit == latest = 1 /\ told = 0 /\ log = <<>> /\ losses = 0

Serve ==
  /\ latest < Len(Feed)
  /\ latest' = latest + 1
  /\ UNCHANGED <<told, log, losses>>

Seed ==
  /\ told = 0
  /\ told' \in 1 .. latest
  /\ UNCHANGED <<latest, log, losses>>

Announce ==
  /\ told # 0
  /\ \E new \in told + 1 .. latest :
       /\ DiffMatches(Feed[told], Feed[new]) # {}
       /\ told' = new
       /\ log' = Append(log, [before |-> told, after |-> new])
  /\ UNCHANGED <<latest, losses>>

Lose ==
  /\ losses' = losses + 1
  /\ told' \in told .. latest
  /\ UNCHANGED <<latest, log>>

FeedNext == Serve \/ Seed \/ Announce \/ Lose

\* What is never done.
FeedSafe == FeedInit /\ [][FeedNext]_feedVars

\* The subscribers are told in the end; nothing makes the provider move on.
FeedSpec == FeedSafe /\ WF_feedVars(Seed) /\ WF_feedVars(Announce)
=============================================================================
