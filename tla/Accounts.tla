------------------------------ MODULE Accounts ------------------------------
(***************************************************************************)
(* Accounts (src/routes/auth.js): a signup looks the email up, hashes the  *)
(* password and creates the row, in three awaits with nothing to hold them *)
(* together but the unique index on User.email.                            *)
(***************************************************************************)
EXTENDS Naturals, FiniteSetsExt

CONSTANTS
  User,        \* an account, by its email
  Registered,  \* the accounts there are at first
  MaxSignups   \* bound: signups under way or with a row

VARIABLES
  accounts,  \* the rows of User
  hashing,   \* per email: signups that found it free and have not created it
  welcomed,  \* per email: signups that were answered 201
  unheard    \* per email: signups whose row was created but not reported back

accountVars == <<accounts, hashing, welcomed, unheard>>

ASSUME AccountsAssumption == Registered \subseteq User /\ MaxSignups \in Nat

AccountsInit ==
  /\ accounts = Registered
  /\ hashing = [u \in User |-> 0]
  /\ welcomed = [u \in User |-> 0]
  /\ unheard = [u \in User |-> 0]

Signups == MapThenSumSet(LAMBDA u : hashing[u] + welcomed[u] + unheard[u], User)

\* The lookup; a taken email is answered 409 EMAIL_TAKEN and changes nothing.
LookUpEmail(u) ==
  /\ u \notin accounts
  /\ Signups < MaxSignups
  /\ hashing' = [hashing EXCEPT ![u] = @ + 1]
  /\ UNCHANGED <<accounts, welcomed, unheard>>

\* Mutant: the lookup is all there is.
EmailIsFree_noIndex(u) == TRUE

\* The unique index; a second row is a P2002, for which errorHandler.js knows
\* only one reason: 409 ALREADY_FOLLOWING.
EmailIsFree(u) == u \notin accounts

CreateUser(u) ==
  /\ hashing[u] > 0
  /\ hashing' = [hashing EXCEPT ![u] = @ - 1]
  /\ IF EmailIsFree(u)
     THEN /\ accounts' = accounts \cup {u}
          /\ welcomed' = [welcomed EXCEPT ![u] = @ + 1]
     ELSE UNCHANGED <<accounts, welcomed>>
  /\ UNCHANGED unheard

\* The database cannot be reached for the create, or its reply is lost: 503 or 500,
\* and in the second case there may be a row.
SignupFails(u) ==
  /\ hashing[u] > 0
  /\ hashing' = [hashing EXCEPT ![u] = @ - 1]
  /\ \/ UNCHANGED <<accounts, unheard>>
     \/ /\ EmailIsFree(u)
        /\ accounts' = accounts \cup {u}
        /\ unheard' = [unheard EXCEPT ![u] = @ + 1]
  /\ UNCHANGED welcomed

\* However many signups of an email are under way, fail or go unanswered, an account
\* has been created once, and never for nobody: it was there at first, its signup was
\* welcomed, or the answer of its create was lost, and only one of the three.
OneAccountPerEmail ==
  \A u \in User :
    LET atFirst == IF u \in Registered THEN 1 ELSE 0
    IN  atFirst + welcomed[u] + unheard[u] = IF u \in accounts THEN 1 ELSE 0
=============================================================================
