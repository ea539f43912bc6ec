-------------------------- MODULE NotificationPages --------------------------
(***************************************************************************)
(* The feed of notifications, page by page: GET /notifications             *)
(* (src/routes/notifications.js), whose nextCursor is the createdAt of the *)
(* last row, and useNotificationsFeed (client/src/hooks/useNotifications)  *)
(* that asks for the page before it.  Rows are records with a field `at'.  *)
(***************************************************************************)
EXTENDS Naturals, FiniteSets, FiniteSetsExt, Sequences

\* Mutant: lte instead of lt.
Before_orEqual(rows, cursor) == {n \in rows : n.at <= cursor}

\* createdAt: { lt: before }.
Before(rows, cursor) == {n \in rows : n.at < cursor}

\* take and orderBy; nothing orders the rows of one createdAt, so there may be
\* several such pages.
PagesBefore(rows, cursor, limit) ==
  LET older == Before(rows, cursor)
      size == IF Cardinality(older) < limit THEN Cardinality(older) ELSE limit
  IN  {page \in kSubset(size, older) : \A n \in page, m \in older \ page : n.at >= m.at}

\* null unless the page is full.
NextCursor(page, limit) ==
  IF Cardinality(page) = limit THEN {Min({n.at : n \in page})} ELSE {}

\* The sequences of pages that a reader may get who asks for one after the other,
\* until there is no cursor; `limit' is at least 1, so that there are no more full
\* pages than rows.
Walks(rows, limit) ==
  LET ats == {n.at : n \in rows}
      newest == IF ats = {} THEN 0 ELSE Max(ats) + 1
      most == Cardinality(rows) + 1
      Page == {page \in SUBSET rows : Cardinality(page) <= limit}
      WalksOf(k) ==
        {pages \in [1 .. k -> Page] :
           /\ pages[1] \in PagesBefore(rows, newest, limit)
           /\ \A i \in 1 .. k - 1 : \E cursor \in NextCursor(pages[i], limit) :
                pages[i + 1] \in PagesBefore(rows, cursor, limit)
           /\ NextCursor(pages[k], limit) = {} \/ k = most}
  IN  UNION {WalksOf(k) : k \in 1 .. most}
=============================================================================
