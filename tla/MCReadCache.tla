----------------------------- MODULE MCReadCache -----------------------------
(* One match, which is gone from the last list while its details are still served. *)
EXTENDS ReadCache

MCLive == <<{"m1"}, {"m1"}, {}>>
MCKnown == <<{"m1"}, {}, {"m1"}>>
=============================================================================
