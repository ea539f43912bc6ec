----------------------------- MODULE MCBrowser ------------------------------
(* Two users who log in on one tab after each other.                        *)
EXTENDS Browser, TLC

CONSTANTS u1, u2, t1

Events == [k \in Key |-> IF k = "unread" THEN 4 ELSE 3]
=============================================================================
