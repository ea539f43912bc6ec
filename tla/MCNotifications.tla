--------------------------- MODULE MCNotifications ---------------------------
(***************************************************************************)
(* Two users, two seeded teams and one that is not.  One event is about    *)
(* both seeded teams, the other names the unseeded team first.             *)
(***************************************************************************)
EXTENDS Notifications, TLC

CONSTANTS u1, u2, india, england, eleven, r1, r2, started, opened

MCTeamsOf == started :> <<india, england>> @@ opened :> <<eleven, india>>

\* Users are told apart by nothing, nor are requests.
Symmetric == Permutations(User) \cup Permutations(Request)
=============================================================================
