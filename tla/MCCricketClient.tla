--------------------------- MODULE MCCricketClient ---------------------------
(* One or two callers, and a provider with every kind of answer the client tells apart. *)
EXTENDS CricketClient

Said(status, body, retryAfter) ==
  [status |-> status, body |-> body, retryAfter |-> retryAfter, left |-> Null, resets |-> Null]

Counted(left, resets) ==
  [status |-> 200, body |-> "ok", retryAfter |-> Null, left |-> left, resets |-> resets]

MCAnswer ==
  {Counted(1, Null), Counted(0, Null), Counted(0, 1),
   Said(200, "ok", Null), Said(200, "empty", Null), Said(200, "malformed", Null),
   Said(200, "aborted", Null), Said(200, "limit", Null), Said(200, "other", Null),
   Said(200, "key", Null), Said(0, "ok", Null), Said(500, "ok", Null), Said(401, "ok", Null),
   Said(404, "ok", Null), Said(429, "ok", Null), Said(429, "ok", 3)}
=============================================================================
