--------------------------- MODULE BrowserProofs ----------------------------
(***************************************************************************)
(* Theorems about one tab of the client: its types, and what its cache may *)
(* show when nothing is under way.                                         *)
(***************************************************************************)
EXTENDS Browser, TLAPS

\* The types in full.
AnyItem == Team \cup Note

EntryRec == [items : {NoData} \cup SUBSET AnyItem, of : Nat, stale : BOOLEAN, unsure : BOOLEAN]

ReadRec == [pc : {"none", "asked", "answered", "refused"}, token : Nat,
            items : {NoData} \cup SUBSET AnyItem, unsure : BOOLEAN]

Call == {"follow", "unfollow", "read", "readAll"}

ClickRec == [key : Key, call : Call, items : SUBSET AnyItem, token : Nat, before : EntryRec,
             pc : {"sent", "done", "failed", "refused"}, held : BOOLEAN]

SessionInv ==
  /\ logins \in Seq(User) /\ token \in 0 .. Len(logins) /\ expired \subseteq DOMAIN logins
  /\ followsPage \in BOOLEAN

\* The notifications there have been.
NotesInv == notes \in Seq(User) /\ Len(notes) <= MaxNotes

RowsInv ==
  /\ rows \in [User -> [Key -> SUBSET AnyItem]]
  /\ \A u \in User, k \in Key : rows[u][k] \subseteq Items(k)

EntryType ==
  /\ entry \in [Key -> EntryRec]
  /\ \A k \in Key : entry[k].items \in {NoData} \cup SUBSET Items(k)

\* A request of a query belongs to the session, to a query on the screen, and has got
\* an answer of its kind.
ReadInv ==
  /\ read \in [Key -> ReadRec]
  /\ \A k \in Key :
       /\ read[k] # NoRead => Mounted(k) /\ read[k].token = token
       /\ read[k].pc = "answered" => read[k].items \in SUBSET Items(k)

\* A mutation that is not settled touches items of its key, and so does its rollback.
ClicksInv ==
  /\ clicks \in Seq(ClickRec \cup {Settled})
  /\ \A i \in DOMAIN clicks : clicks[i] # Settled =>
       /\ clicks[i].items \subseteq Items(clicks[i].key)
       /\ clicks[i].before.items \in {NoData} \cup SUBSET Items(clicks[i].key)
       /\ clicks[i].token \in DOMAIN logins

TypeInv == SessionInv /\ RowsInv /\ EntryType /\ ReadInv /\ ClicksInv

\* A list that agrees with the user's rows; notifications may have come since.
InSync(items, k) ==
  /\ items \subseteq rows[logins[token]][k]
  /\ k = "follows" => items = rows[logins[token]][k]

\* What is kept after a session is marked.
LeftStale == token = 0 => \A k \in Key : entry[k].items = NoData \/ entry[k].stale

\* Without a mutation of its key under way an answer is still right when it lands ...
AnswerFits(k) ==
  (token # 0 /\ Under(k) = {} /\ read[k].pc = "answered" /\ ~read[k].unsure)
    => InSync(read[k].items, k)

\* ... and an entry that is not marked is the session's own, and right if it is sure.
EntryFits(k) ==
  (token # 0 /\ Under(k) = {} /\ entry[k].items # NoData /\ ~entry[k].stale)
    => entry[k].of = token /\ (~entry[k].unsure => InSync(entry[k].items, k))

FitInv == LeftStale /\ \A k \in Key : AnswerFits(k) /\ EntryFits(k)

-----------------------------------------------------------------------------
(* What the records of the cache and of the clicks are made of *)

\* A request that goes out.
LEMMA AskedIs ==
  ASSUME NEW t \in Nat
  PROVE  /\ Asked(t) \in ReadRec
         /\ Asked(t).pc = "asked" /\ Asked(t).token = t
         /\ NoRead \in ReadRec /\ NoRead.pc = "none"
BY DEF Asked, NoRead, ReadRec

\* An entry that is dropped, patched or marked.
LEMMA EntriesAre ==
  ASSUME NEW e \in EntryRec
  PROVE  /\ NoEntry \in EntryRec /\ NoEntry.items = NoData /\ ~NoEntry.stale
         /\ Invalidated(e) \in EntryRec /\ Invalidated(e).stale
         /\ Invalidated(e).items = e.items
BY DEF NoEntry, EntryRec, Invalidated

LEMMA PatchedIs ==
  ASSUME NEW e \in EntryRec, NEW k \in Key, e.items \in {NoData} \cup SUBSET Items(k),
         NEW call \in Call, NEW items \in SUBSET Items(k), token \in Nat
  PROVE  /\ Patched(e, call, items) \in EntryRec
         /\ Patched(e, call, items).items \in {NoData} \cup SUBSET Items(k)
<1>1. SUBSET Items(k) \subseteq SUBSET AnyItem
  BY DEF Items, AnyItem
<1>2. CASE e.items # NoData
  <2> DEFINE new == IF call = "follow" THEN e.items \cup items ELSE e.items \ items
  <2>1. new \in SUBSET Items(k)
    BY <1>2
  <2>2. Patched(e, call, items) = [e EXCEPT !.items = new, !.stale = FALSE]
    BY <1>2 DEF Patched
  <2> HIDE DEF new
  <2> QED
    BY <1>1, <2>1, <2>2 DEF EntryRec
<1>3. CASE e.items = NoData /\ call = "follow"
  <2>1. Patched(e, call, items) =
          [items |-> items, of |-> token, stale |-> FALSE, unsure |-> FALSE]
    BY <1>3 DEF Patched
  <2> QED
    BY <1>1, <2>1 DEF EntryRec
<1>4. CASE e.items = NoData /\ call # "follow"
  BY <1>4 DEF Patched
<1> QED
  BY <1>2, <1>3, <1>4

\* A click that has been sent.
LEMMA SentIs ==
  ASSUME NEW c \in ClickRec \cup {Settled}, c # Settled,
         NEW p \in {"sent", "done", "failed", "refused"}
  PROVE  /\ c \in ClickRec /\ [c EXCEPT !.pc = p] \in ClickRec
         /\ [c EXCEPT !.pc = p].key = c.key /\ [c EXCEPT !.pc = p].items = c.items
         /\ [c EXCEPT !.pc = p].before = c.before /\ [c EXCEPT !.pc = p].token = c.token
<1>1. c \in ClickRec
  OBVIOUS
<1> QED
  BY <1>1 DEF ClickRec

LEMMA SettledIs ==
  /\ Settled.pc = "settled" /\ Settled.key = "none" /\ Settled.key \notin Key
  /\ Settled \notin ClickRec
BY DEF Settled, Key, ClickRec

LEMMA ReleasedIs ==
  ASSUME ClicksInv
  PROVE  /\ Released \in Seq(ClickRec \cup {Settled}) /\ DOMAIN Released = DOMAIN clicks
         /\ \A i \in DOMAIN clicks :
              /\ (Released[i] = Settled) <=> (clicks[i] = Settled)
              /\ Released[i].key = clicks[i].key /\ Released[i].pc = clicks[i].pc
              /\ clicks[i] # Settled =>
                   /\ Released[i].items = clicks[i].items
                   /\ Released[i].before = clicks[i].before
                   /\ Released[i].token = clicks[i].token
<1>1. ASSUME NEW i \in DOMAIN clicks, clicks[i] = Settled
      PROVE  Released[i] = Settled
  <2>1. [Settled EXCEPT !.held = FALSE] = Settled
    <3> DEFINE Only == [key : {"none"}, pc : {"settled"}, held : {FALSE}]
    <3>1. Settled \in Only
      BY DEF Settled
    <3>2. \A r \in Only : [r EXCEPT !.held = FALSE] \in Only
      OBVIOUS
    <3>3. \A r \in Only : r = [key |-> r.key, pc |-> r.pc, held |-> r.held]
      OBVIOUS
    <3>4. \A r \in Only : r.key = "none" /\ r.pc = "settled" /\ r.held = FALSE
      OBVIOUS
    <3>5. \A r \in Only : r = Settled
      BY <3>3, <3>4 DEF Settled
    <3> HIDE DEF Only
    <3> QED
      BY <3>1, <3>2, <3>5
  <2>2. Released[i] = [clicks[i] EXCEPT !.held = FALSE]
    BY DEF Released
  <2> QED
    BY <1>1, <2>1, <2>2
<1>2. ASSUME NEW i \in DOMAIN clicks, clicks[i] # Settled
      PROVE  /\ Released[i] \in ClickRec
             /\ Released[i].key = clicks[i].key /\ Released[i].pc = clicks[i].pc
             /\ Released[i].items = clicks[i].items
             /\ Released[i].before = clicks[i].before
             /\ Released[i].token = clicks[i].token
  <2>1. clicks[i] \in ClickRec
    BY <1>2 DEF ClicksInv
  <2>2. Released[i] = [clicks[i] EXCEPT !.held = FALSE]
    BY DEF Released
  <2> QED
    BY <2>1, <2>2 DEF ClickRec
<1>3. DOMAIN Released = DOMAIN clicks /\ DOMAIN clicks = 1 .. Len(clicks)
  BY DEF Released, ClicksInv
<1>4. \A i \in 1 .. Len(clicks) : Released[i] \in ClickRec \cup {Settled}
  BY <1>1, <1>2, <1>3
<1>5. Len(clicks) \in Nat
  BY DEF ClicksInv
<1>6. Released = [i \in 1 .. Len(clicks) |-> Released[i]]
  BY <1>3 DEF Released
<1>7. Released \in Seq(ClickRec \cup {Settled})
  BY <1>4, <1>5, <1>6
<1> QED
  BY <1>1, <1>2, <1>3, <1>7, SettledIs

-----------------------------------------------------------------------------
(* The types *)

LEMMA TypeInit == Init => TypeInv
<1> SUFFICES ASSUME Init PROVE TypeInv
  OBVIOUS
<1>1. SessionInv
  <2>1. <<>> \in Seq(User) /\ Len(<<>>) = 0
    OBVIOUS
  <2>2. logins = <<>> /\ token = 0 /\ expired = {} /\ followsPage = FALSE
    BY DEF Init
  <2>3. token \in 0 .. Len(logins)
    BY <2>1, <2>2
  <2> QED
    BY <2>1, <2>2, <2>3 DEF SessionInv
<1>2. RowsInv
  BY DEF Init, RowsInv
<1>3. EntryType
  BY EntriesAre, SMT DEF Init, EntryType, NoEntry, EntryRec
<1>4. ReadInv
  BY DEF Init, ReadInv, NoRead, ReadRec
<1>5. ClicksInv
  BY DEF Init, ClicksInv
<1> QED
  BY <1>1, <1>2, <1>3, <1>4, <1>5 DEF TypeInv

\* What a logout and a 401 leave.
LEMMA OutKeeps ==
  ASSUME TypeInv, LoggedOut
  PROVE  ReadInv' /\ token' = 0 /\ followsPage' = FALSE
BY AskedIs DEF LoggedOut, ReadInv, NoRead, ReadRec

LEMMA ClearedIs == Cleared \in [Key -> EntryRec] /\ \A k \in Key : Cleared[k] = NoEntry
BY DEF Cleared, NoEntry, EntryRec

LEMMA ReleasedKeeps ==
  ASSUME TypeInv, clicks' = Released, UNCHANGED logins
  PROVE  ClicksInv'
<1>1. Released \in Seq(ClickRec \cup {Settled}) /\ DOMAIN Released = DOMAIN clicks
  BY ReleasedIs DEF TypeInv
<1>2. ASSUME NEW i \in DOMAIN clicks, Released[i] # Settled
      PROVE  /\ Released[i].items \subseteq Items(Released[i].key)
             /\ Released[i].before.items \in {NoData} \cup SUBSET Items(Released[i].key)
             /\ Released[i].token \in DOMAIN logins
  BY <1>2, ReleasedIs DEF TypeInv, ClicksInv
<1> QED
  BY <1>1, <1>2 DEF ClicksInv

\* A click goes on, and stays what it was.
LEMMA ClickGoesOn ==
  ASSUME TypeInv, NEW i \in DOMAIN clicks, clicks[i].pc # "settled",
         NEW p \in {"sent", "done", "failed", "refused"},
         clicks' = [clicks EXCEPT ![i].pc = p], UNCHANGED logins
  PROVE  ClicksInv' /\ (\A k \in Key : Under(k)' = Under(k))
<1>1. clicks[i] \in ClickRec \cup {Settled} /\ clicks[i] # Settled
  BY SettledIs DEF TypeInv, ClicksInv
<1> DEFINE new == [clicks[i] EXCEPT !.pc = p]
<1>2. /\ new \in ClickRec /\ new.key = clicks[i].key /\ new.items = clicks[i].items
      /\ new.before = clicks[i].before /\ new.token = clicks[i].token
  BY <1>1, SentIs
<1>3. clicks' = [clicks EXCEPT ![i] = new]
  OBVIOUS
<1> HIDE DEF new
<1>4. clicks' \in Seq(ClickRec \cup {Settled}) /\ DOMAIN clicks' = DOMAIN clicks
  BY <1>2, <1>3 DEF TypeInv, ClicksInv
<1>5. ASSUME NEW j \in DOMAIN clicks
      PROVE  /\ clicks'[j].key = clicks[j].key
             /\ clicks'[j] # Settled =>
                  /\ clicks'[j].items \subseteq Items(clicks'[j].key)
                  /\ clicks'[j].before.items \in {NoData} \cup SUBSET Items(clicks'[j].key)
                  /\ clicks'[j].token \in DOMAIN logins
  <2>1. CASE j = i
    <3>1. clicks'[j] = new
      BY <1>3, <2>1 DEF TypeInv, ClicksInv
    <3> QED
      BY <1>1, <1>2, <2>1, <3>1 DEF TypeInv, ClicksInv
  <2>2. CASE j # i
    BY <1>3, <2>2 DEF TypeInv, ClicksInv
  <2> QED
    BY <2>1, <2>2
<1>6. ClicksInv'
  BY <1>4, <1>5 DEF ClicksInv
<1>7. \A k \in Key : Under(k)' = Under(k)
  BY <1>4, <1>5 DEF Under
<1> QED
  BY <1>6, <1>7

\* A click that settles, with or without the release of the others.
LEMMA ClickSettles ==
  ASSUME TypeInv, NEW i \in DOMAIN clicks, NEW base,
         base = clicks \/ base = Released,
         clicks' = [base EXCEPT ![i] = Settled], UNCHANGED logins
  PROVE  ClicksInv' /\ (\A k \in Key : Under(k)' = Under(k) \ {i})
<1>1. base \in Seq(ClickRec \cup {Settled}) /\ DOMAIN base = DOMAIN clicks
  BY ReleasedIs DEF TypeInv, ClicksInv
<1>2. ASSUME NEW j \in DOMAIN clicks
      PROVE  /\ base[j].key = clicks[j].key
             /\ base[j] # Settled =>
                  /\ base[j].items \subseteq Items(base[j].key)
                  /\ base[j].before.items \in {NoData} \cup SUBSET Items(base[j].key)
                  /\ base[j].token \in DOMAIN logins
  BY ReleasedIs DEF TypeInv, ClicksInv
<1>3. clicks' \in Seq(ClickRec \cup {Settled}) /\ DOMAIN clicks' = DOMAIN clicks
  BY <1>1
<1>4. clicks'[i] = Settled /\ \A j \in DOMAIN clicks \ {i} : clicks'[j] = base[j]
  BY <1>1
<1>5. ClicksInv'
  BY <1>2, <1>3, <1>4 DEF ClicksInv
<1>6. \A k \in Key : Under(k)' = Under(k) \ {i}
  BY <1>2, <1>3, <1>4, SettledIs DEF Under
<1> QED
  BY <1>5, <1>6

\* A request of one query goes out, is answered, lands or goes away.
LEMMA OneRead ==
  ASSUME TypeInv, UNCHANGED <<token, followsPage>>, NEW k \in Key, NEW r \in ReadRec,
         read' = [read EXCEPT ![k] = r],
         r # NoRead => Mounted(k) /\ r.token = token,
         r.pc = "answered" => r.items \in SUBSET Items(k)
  PROVE  ReadInv'
BY DEF TypeInv, ReadInv, Mounted

\* An entry is written.
LEMMA OneEntry ==
  ASSUME NEW base, base \in [Key -> EntryRec],
         \A j \in Key : base[j].items \in {NoData} \cup SUBSET Items(j),
         NEW k \in Key, NEW e \in EntryRec, e.items \in {NoData} \cup SUBSET Items(k),
         entry' = [base EXCEPT ![k] = e]
  PROVE  EntryType'
BY DEF EntryType

\* What a GET answers.
LEMMA ListedIs ==
  ASSUME NEW u, NEW k \in Key
  PROVE  /\ Listed(u, k) \subseteq rows[u][k]
         /\ k = "follows" => Listed(u, k) = rows[u][k]
BY DEF Listed, Newest

LEMMA TypeOfLogin ==
  ASSUME TypeInv, NEW u \in User, Login(u)
  PROVE  TypeInv'
<1>1. /\ token = 0 /\ logins' = Append(logins, u) /\ token' = Len(logins')
      /\ read' = [read EXCEPT !["unread"] = Asked(token')]
      /\ UNCHANGED <<rows, expired, followsPage, entry, clicks>>
  BY DEF Login, IssueToken, serverVars
<1>2. /\ logins' \in Seq(User) /\ Len(logins') = Len(logins) + 1 /\ Len(logins) \in Nat
      /\ DOMAIN logins \subseteq DOMAIN logins'
  BY <1>1 DEF TypeInv, SessionInv
<1>3. token' \in Nat /\ token' # 0
  BY <1>1, <1>2
<1>4. SessionInv'
  <2>1. token' \in 0 .. Len(logins')
    BY <1>1, <1>2
  <2> QED
    BY <1>1, <1>2, <2>1 DEF TypeInv, SessionInv
<1>5. RowsInv' /\ EntryType'
  BY <1>1 DEF TypeInv, RowsInv, EntryType
<1>6. ReadInv'
  <2>1. /\ Asked(token') \in ReadRec /\ Asked(token').pc = "asked"
        /\ Asked(token').token = token'
    BY <1>3, AskedIs
  <2>2. \A k \in Key : read[k] = NoRead
    BY <1>1 DEF TypeInv, ReadInv, Mounted
  <2>3. NoRead.pc = "none"
    BY DEF NoRead
  <2> QED
    BY <1>1, <1>3, <2>1, <2>2, <2>3 DEF TypeInv, ReadInv, Mounted, Key
<1>7. ClicksInv'
  BY <1>1, <1>2 DEF TypeInv, ClicksInv
<1> QED
  BY <1>4, <1>5, <1>6, <1>7 DEF TypeInv

\* The cache is cleared and the session is over.
LEMMA TypeOfLogout ==
  ASSUME TypeInv, LoggedOut, entry' = Cleared, clicks' = Released,
         UNCHANGED <<serverVars, logins, expired, faults>>
  PROVE  TypeInv'
<1>1. SessionInv'
  <2>1. Len(logins) \in Nat
    BY DEF TypeInv, SessionInv
  <2>2. token' = 0 /\ 0 \in 0 .. Len(logins) /\ followsPage' = FALSE
    BY <2>1 DEF LoggedOut
  <2> QED
    BY <2>2 DEF TypeInv, SessionInv
<1>2. RowsInv'
  BY DEF TypeInv, RowsInv, serverVars
<1>3. EntryType'
  BY ClearedIs DEF EntryType, NoEntry
<1>4. ReadInv' /\ ClicksInv'
  BY OutKeeps, ReleasedKeeps
<1> QED
  BY <1>1, <1>2, <1>3, <1>4 DEF TypeInv

LEMMA TypeOfMutate ==
  ASSUME TypeInv, NEW k \in Key, NEW call \in Call, NEW items \in SUBSET Items(k),
         Mutate(k, call, items)
  PROVE  TypeInv'
<1> DEFINE before == [entry[k] EXCEPT !.stale = FALSE]
           click == [key |-> k, call |-> call, items |-> items, token |-> token,
                     before |-> before, pc |-> "sent", held |-> TRUE]
<1>1. /\ token # 0
      /\ clicks' = Append(clicks, click)
      /\ entry' = [entry EXCEPT ![k] = Patched(entry[k], call, items)]
      /\ read' = [read EXCEPT ![k] = NoRead]
      /\ UNCHANGED <<rows, logins, token, expired, followsPage>>
  BY DEF Mutate, serverVars, sessionVars, TypeInv, EntryType
<1>2. /\ entry[k] \in EntryRec /\ entry[k].items \in {NoData} \cup SUBSET Items(k)
      /\ token \in Nat /\ token \in DOMAIN logins
  BY <1>1 DEF TypeInv, EntryType, SessionInv
<1>3. before \in EntryRec /\ before.items = entry[k].items
  BY <1>2 DEF EntryRec
<1>4. items \in SUBSET AnyItem
  BY DEF Items, AnyItem
<1>5. /\ click \in ClickRec /\ click.key = k /\ click.items = items
      /\ click.before = before /\ click.token = token
  <2> HIDE DEF before
  <2> QED
    BY <1>2, <1>3, <1>4 DEF ClickRec
<1>6. SessionInv' /\ RowsInv'
  BY <1>1 DEF TypeInv, SessionInv, RowsInv
<1>7. EntryType'
  <2>1. /\ Patched(entry[k], call, items) \in EntryRec
        /\ Patched(entry[k], call, items).items \in {NoData} \cup SUBSET Items(k)
    BY <1>2, PatchedIs
  <2> QED
    BY <1>1, <2>1, OneEntry DEF TypeInv, EntryType
<1>8. ReadInv'
  BY <1>1, AskedIs, OneRead
<1>9. ClicksInv'
  <2> HIDE DEF click, before
  <2>1. /\ clicks' \in Seq(ClickRec \cup {Settled}) /\ Len(clicks') = Len(clicks) + 1
        /\ DOMAIN clicks' = 1 .. Len(clicks) + 1 /\ DOMAIN clicks = 1 .. Len(clicks)
        /\ Len(clicks) \in Nat
    BY <1>1, <1>5 DEF TypeInv, ClicksInv
  <2>2. clicks'[Len(clicks) + 1] = click
    BY <1>1, <1>5 DEF TypeInv, ClicksInv
  <2>3. \A i \in DOMAIN clicks : clicks'[i] = clicks[i]
    BY <1>1, <1>5 DEF TypeInv, ClicksInv
  <2>4. ASSUME NEW i \in DOMAIN clicks', clicks'[i] # Settled
        PROVE  /\ clicks'[i].items \subseteq Items(clicks'[i].key)
               /\ clicks'[i].before.items \in {NoData} \cup SUBSET Items(clicks'[i].key)
               /\ clicks'[i].token \in DOMAIN logins
    <3>1. CASE i \in DOMAIN clicks
      BY <2>3, <2>4, <3>1 DEF TypeInv, ClicksInv
    <3>2. CASE i = Len(clicks) + 1
      BY <1>2, <1>3, <1>5, <2>2, <3>2
    <3> QED
      BY <2>1, <3>1, <3>2
  <2> QED
    BY <1>1, <2>1, <2>4 DEF ClicksInv
<1> QED
  BY <1>6, <1>7, <1>8, <1>9 DEF TypeInv

LEMMA TypeOfHandleClick ==
  ASSUME TypeInv, NEW i \in DOMAIN clicks, HandleClick(i)
  PROVE  TypeInv' /\ (\A k \in Key : Under(k)' = Under(k))
<1> DEFINE c == clicks[i]
           mine == rows[logins[c.token]][c.key]
           new == IF c.call = "follow" THEN mine \cup c.items ELSE mine \ c.items
<1>1. c.pc = "sent" /\ c # Settled /\ c \in ClickRec
  BY SettledIs DEF HandleClick, TypeInv, ClicksInv
<1>2. c.token \in DOMAIN logins /\ c.items \subseteq Items(c.key) /\ c.key \in Key
  BY <1>1 DEF TypeInv, ClicksInv, ClickRec
<1>3. logins[c.token] \in User
  BY <1>2 DEF TypeInv, SessionInv
<1>4. PICK p \in {"refused", "failed", "done"} : clicks' = [clicks EXCEPT ![i].pc = p]
  BY DEF HandleClick
<1>5. UNCHANGED <<logins, token, expired, followsPage, entry, read>>
  BY DEF HandleClick, sessionVars, cacheVars
<1>6. UNCHANGED rows \/ rows' = [rows EXCEPT ![logins[c.token]][c.key] = new]
  BY DEF HandleClick
<1>7. RowsInv'
  <2>1. CASE UNCHANGED rows
    BY <2>1 DEF TypeInv, RowsInv
  <2>2. CASE rows' = [rows EXCEPT ![logins[c.token]][c.key] = new]
    <3>1. mine \subseteq Items(c.key)
      BY <1>2, <1>3 DEF TypeInv, RowsInv
    <3>2. new \subseteq Items(c.key) /\ Items(c.key) \subseteq AnyItem
      BY <1>2, <3>1 DEF Items, AnyItem
    <3> HIDE DEF new, mine
    <3> QED
      BY <1>2, <1>3, <2>2, <3>2 DEF TypeInv, RowsInv
  <2> QED
    BY <1>6, <2>1, <2>2
<1>8. ClicksInv' /\ (\A k \in Key : Under(k)' = Under(k))
  BY <1>1, <1>4, <1>5, ClickGoesOn
<1>9. SessionInv' /\ EntryType' /\ ReadInv'
  BY <1>5 DEF TypeInv, SessionInv, EntryType, ReadInv, Mounted
<1> QED
  BY <1>7, <1>8, <1>9 DEF TypeInv

\* What a mutation leaves when it settles: its entry marked, and read again if it is
\* on the screen.
LEMMA SettleIs ==
  ASSUME TypeInv, NEW i \in DOMAIN clicks, Settle(i)
  PROVE  /\ TypeInv'
         /\ \A k \in Key : Under(k)' = Under(k) \ {i}
         /\ \E k \in Key, e \in EntryRec :
              /\ i \in Under(k) /\ e.stale
              /\ \/ LoggedOut /\ entry' = [Cleared EXCEPT ![k] = e]
                 \/ /\ entry' = [entry EXCEPT ![k] = e]
                    /\ UNCHANGED <<token, followsPage>>
                    /\ \/ UNCHANGED read /\ read[k].pc # "answered"
                       \/ \E r \in ReadRec : /\ read' = [read EXCEPT ![k] = r]
                                             /\ r.pc = "answered" => r.unsure
         /\ UNCHANGED <<rows, logins>>
<1> DEFINE c == clicks[i]
           k == c.key
           out == EndsSession(c.pc)
           there == IF out THEN NoEntry ELSE entry[k]
           kept == IF c.pc = "done" \/ c.before.items = NoData THEN there ELSE c.before
           left == Invalidated(kept)
           base == IF out THEN Cleared ELSE entry
<1>1. c.pc # "settled" /\ c # Settled /\ c \in ClickRec
  BY SettledIs DEF Settle, TypeInv, ClicksInv
<1>2. k \in Key /\ c.before \in EntryRec /\ c.before.items \in {NoData} \cup SUBSET Items(k)
  BY <1>1 DEF TypeInv, ClicksInv, ClickRec
<1>3. i \in Under(k)
  BY DEF Under
<1>4. kept \in EntryRec /\ kept.items \in {NoData} \cup SUBSET Items(k)
  <2>1. there \in EntryRec /\ there.items \in {NoData} \cup SUBSET Items(k)
    BY <1>2, EntriesAre DEF TypeInv, EntryType
  <2> HIDE DEF there
  <2> QED
    BY <1>2, <2>1
<1>5. left \in EntryRec /\ left.stale /\ left.items \in {NoData} \cup SUBSET Items(k)
  <2> HIDE DEF kept
  <2> QED
    BY <1>4, EntriesAre
<1>6. /\ entry' = [base EXCEPT ![k] = left]
      /\ UNCHANGED <<rows, logins, expired>>
      /\ \/ out /\ LoggedOut /\ clicks' = [Released EXCEPT ![i] = Settled]
         \/ /\ ~out /\ clicks' = [clicks EXCEPT ![i] = Settled]
            /\ UNCHANGED <<token, followsPage>>
            /\ read' = IF Mounted(k) /\ left.stale
                       THEN [read EXCEPT ![k] = Reread(k, left)] ELSE read
  BY DEF Settle, serverVars
<1> HIDE DEF left
<1>7. EntryType'
  <2>1. base \in [Key -> EntryRec] /\ \A j \in Key : base[j].items \in {NoData} \cup SUBSET Items(j)
    <3>1. CASE out
      BY <3>1, ClearedIs, EntriesAre DEF TypeInv, EntryType
    <3>2. CASE ~out
      BY <3>2 DEF TypeInv, EntryType
    <3> QED
      BY <3>1, <3>2
  <2> HIDE DEF base, k
  <2> QED
    BY <1>2, <1>5, <1>6, <2>1, OneEntry
<1>8. ClicksInv' /\ (\A j \in Key : Under(j)' = Under(j) \ {i})
  BY <1>6, ClickSettles
<1>9. RowsInv'
  BY <1>6 DEF TypeInv, RowsInv
<1>10. ASSUME out, LoggedOut
       PROVE  SessionInv' /\ ReadInv'
  <2>1. Len(logins) \in Nat
    BY DEF TypeInv, SessionInv
  <2>2. token' = 0 /\ 0 \in 0 .. Len(logins) /\ followsPage' = FALSE
    BY <1>10, <2>1 DEF LoggedOut
  <2> QED
    BY <1>6, <1>10, <2>2, OutKeeps DEF TypeInv, SessionInv
<1>11. ASSUME UNCHANGED <<token, followsPage>>,
              read' = IF Mounted(k) /\ left.stale
                      THEN [read EXCEPT ![k] = Reread(k, left)] ELSE read
       PROVE  /\ SessionInv' /\ ReadInv'
              /\ \/ UNCHANGED read /\ read[k].pc # "answered"
                 \/ \E r \in ReadRec : /\ read' = [read EXCEPT ![k] = r]
                                       /\ r.pc = "answered" => r.unsure
  <2>1. SessionInv'
    BY <1>6, <1>11 DEF TypeInv, SessionInv
  <2>2. CASE ~Mounted(k)
    <3>1. UNCHANGED read /\ read[k].pc # "answered"
      BY <1>2, <1>11, <2>2, AskedIs DEF TypeInv, ReadInv
    <3>2. ReadInv'
      BY <1>11, <3>1 DEF TypeInv, ReadInv, Mounted
    <3> QED
      BY <2>1, <3>1, <3>2
  <2>3. CASE Mounted(k)
    <3> DEFINE r == Reread(k, left)
    <3>1. read' = [read EXCEPT ![k] = r]
      BY <1>5, <1>11, <2>3
    <3>2. token \in Nat
      BY DEF TypeInv, SessionInv
    <3>3. \/ r = Asked(token)
          \/ r = [read[k] EXCEPT !.unsure = (read[k].pc = "answered")] /\ read[k] # NoRead
      BY DEF Reread
    <3>4. /\ r \in ReadRec /\ r.token = token
          /\ r.pc = "answered" => r.items \in SUBSET Items(k) /\ r.unsure
      <4>1. CASE r = Asked(token)
        BY <3>2, <4>1, AskedIs
      <4>2. CASE r = [read[k] EXCEPT !.unsure = (read[k].pc = "answered")] /\ read[k] # NoRead
        <5>1. /\ read[k] \in ReadRec /\ read[k].token = token
              /\ read[k].pc = "answered" => read[k].items \in SUBSET Items(k)
          BY <1>2, <4>2 DEF TypeInv, ReadInv
        <5> QED
          BY <4>2, <5>1 DEF ReadRec
      <4> QED
        BY <3>3, <4>1, <4>2
    <3> HIDE DEF r, k
    <3>5. ReadInv'
      BY <1>2, <1>11, <2>3, <3>1, <3>4, OneRead
    <3> QED
      BY <2>1, <3>1, <3>4, <3>5
  <2> QED
    BY <2>1, <2>2, <2>3
<1>12. TypeInv'
  BY <1>6, <1>7, <1>8, <1>9, <1>10, <1>11 DEF TypeInv
<1>13. \/ LoggedOut /\ entry' = [Cleared EXCEPT ![k] = left]
       \/ /\ entry' = [entry EXCEPT ![k] = left]
          /\ UNCHANGED <<token, followsPage>>
          /\ \/ UNCHANGED read /\ read[k].pc # "answered"
             \/ \E r \in ReadRec : /\ read' = [read EXCEPT ![k] = r]
                                   /\ r.pc = "answered" => r.unsure
  BY <1>6, <1>11
<1> HIDE DEF k
<1> QED
  BY <1>2, <1>3, <1>5, <1>6, <1>8, <1>12, <1>13

\* The notifications, and the number of the next.
LEMMA NotifyIs ==
  ASSUME NotesInv, NEW u \in User, Notify(u)
  PROVE  /\ NotesInv'
         /\ \E n \in Note : rows' = [rows EXCEPT ![u]["unread"] = @ \cup {n}]
         /\ UNCHANGED <<logins, token, expired, followsPage, entry, read, clicks>>
<1>1. /\ Len(notes) < MaxNotes /\ notes' = Append(notes, u)
      /\ rows' = [rows EXCEPT ![u]["unread"] = @ \cup {Len(notes')}]
      /\ UNCHANGED <<logins, token, expired, followsPage, entry, read, clicks>>
  BY DEF Notify, sessionVars, cacheVars
<1>2. Len(notes') = Len(notes) + 1 /\ Len(notes) \in Nat /\ notes' \in Seq(User)
  BY <1>1 DEF NotesInv
<1>3. Len(notes') \in Note
  BY <1>1, <1>2, BrowserAssumption DEF Note
<1>4. Len(notes') <= MaxNotes
  BY <1>3, BrowserAssumption DEF Note
<1> DEFINE With(n) == [rows EXCEPT ![u]["unread"] = @ \cup {n}]
<1>5. rows' = With(Len(notes'))
  BY <1>1
<1> HIDE DEF With
<1>6. \E n \in Note : rows' = With(n)
  BY <1>3, <1>5
<1> QED
  BY <1>1, <1>2, <1>4, <1>6 DEF NotesInv, With

LEMMA NotesInit == Init => NotesInv
BY BrowserAssumption DEF Init, NotesInv

LEMMA NotesStep ==
  ASSUME NotesInv, [Next]_vars
  PROVE  NotesInv'
<1>1. ASSUME NEW u \in User, Notify(u)
      PROVE  NotesInv'
  BY <1>1, NotifyIs
<1>2. CASE ~\E u \in User : Notify(u)
  <2>1. UNCHANGED notes
    BY <1>2 DEF Next, vars, serverVars, Login, Expire, Logout, OpenFollows, CloseFollows,
                Refetch, AnswerRead, Land, ReadRefused, ReadFails, Toggle, MarkRead,
                MarkAllRead, Mutate, HandleClick, ClickFails, Settle
  <2> QED
    BY <2>1 DEF NotesInv
<1> QED
  BY <1>1, <1>2

THEOREM NotesAlways == Spec => []NotesInv
BY NotesInit, NotesStep, PTL DEF Spec

LEMMA TypeStep ==
  ASSUME TypeInv, NotesInv, [Next]_vars
  PROVE  TypeInv'
<1>1. ASSUME NEW u \in User, Login(u)
      PROVE  TypeInv'
  BY <1>1, TypeOfLogin
<1>2. ASSUME NEW u \in User, Notify(u)
      PROVE  TypeInv'
  <2>1. PICK n \in Note : /\ rows' = [rows EXCEPT ![u]["unread"] = @ \cup {n}]
                          /\ UNCHANGED <<logins, token, expired, followsPage, entry, read, clicks>>
    BY <1>2, NotifyIs
  <2>2. RowsInv'
    BY <2>1 DEF TypeInv, RowsInv, Key, Items, AnyItem
  <2> QED
    BY <2>1, <2>2 DEF TypeInv, SessionInv, EntryType, ReadInv, Mounted, ClicksInv
<1>3. ASSUME NEW t \in 1 .. MaxLogins, Expire(t)
      PROVE  TypeInv'
  BY <1>3 DEF Expire, serverVars, sessionVars, cacheVars, TypeInv, SessionInv, RowsInv, EntryType,
              ReadInv, Mounted, ClicksInv
<1>4. ASSUME Logout
      PROVE  TypeInv'
  BY <1>4, TypeOfLogout DEF Logout
<1>5. ASSUME OpenFollows
      PROVE  TypeInv'
  <2>1. /\ token # 0 /\ followsPage' = TRUE
        /\ UNCHANGED <<rows, logins, token, expired, entry, clicks>>
        /\ read' = [read EXCEPT !["follows"] = Asked(token)] \/ UNCHANGED read
    BY <1>5 DEF OpenFollows, serverVars, sessionVars
  <2>2. token \in Nat
    BY DEF TypeInv, SessionInv
  <2>3. ReadInv'
    BY <2>1, <2>2, AskedIs DEF TypeInv, ReadInv, Mounted
  <2> QED
    BY <2>1, <2>3 DEF TypeInv, SessionInv, RowsInv, EntryType, ClicksInv
<1>6. ASSUME CloseFollows
      PROVE  TypeInv'
  <2>1. /\ followsPage' = FALSE /\ read' = [read EXCEPT !["follows"] = NoRead]
        /\ clicks' = Released /\ UNCHANGED <<rows, logins, token, expired, entry>>
    BY <1>6 DEF CloseFollows, Unobserved, serverVars, sessionVars
  <2>2. ReadInv'
    BY <2>1, AskedIs DEF TypeInv, ReadInv, Mounted, Key
  <2>3. ClicksInv'
    BY <2>1, ReleasedKeeps
  <2> QED
    BY <2>1, <2>2, <2>3 DEF TypeInv, SessionInv, RowsInv, EntryType
<1>7. ASSUME NEW k \in Key, Refetch(k)
      PROVE  TypeInv'
  <2>1. /\ Mounted(k) /\ read' = [read EXCEPT ![k] = Asked(token)]
        /\ UNCHANGED <<rows, logins, token, expired, followsPage, entry, clicks>>
    BY <1>7 DEF Refetch, serverVars, sessionVars
  <2>2. token \in Nat
    BY DEF TypeInv, SessionInv
  <2>3. ReadInv'
    BY <2>1, <2>2, AskedIs, OneRead
  <2> QED
    BY <2>1, <2>3 DEF TypeInv, SessionInv, RowsInv, EntryType, ClicksInv
<1>8. ASSUME NEW k \in Key, AnswerRead(k)
      PROVE  TypeInv'
  <2> DEFINE mine == Listed(logins[read[k].token], k)
             good == [read[k] EXCEPT !.pc = "answered", !.items = mine]
             bad == [read[k] EXCEPT !.pc = "refused"]
  <2>1. /\ read[k].pc = "asked"
        /\ read' = [read EXCEPT ![k] = good] \/ read' = [read EXCEPT ![k] = bad]
        /\ UNCHANGED <<rows, logins, token, expired, followsPage, entry, clicks>>
    BY <1>8 DEF AnswerRead, serverVars, sessionVars, TypeInv, ReadInv, ReadRec
  <2>2. read[k] \in ReadRec /\ Mounted(k) /\ read[k].token = token
    BY <2>1, AskedIs DEF TypeInv, ReadInv, NoRead
  <2>3. mine \in SUBSET Items(k) /\ mine \in SUBSET AnyItem
    <3>1. logins[token] \in User
      BY <2>2 DEF Mounted, TypeInv, SessionInv
    <3> QED
      BY <2>2, <3>1, ListedIs DEF TypeInv, RowsInv
  <2>4. /\ good \in ReadRec /\ good.token = token /\ good.items = mine
        /\ bad \in ReadRec /\ bad.token = token /\ bad.pc = "refused"
    <3> HIDE DEF mine
    <3> QED
      BY <2>2, <2>3 DEF ReadRec
  <2> HIDE DEF good, bad
  <2>5. ReadInv'
    BY <2>1, <2>2, <2>3, <2>4, OneRead
  <2> QED
    BY <2>1, <2>5 DEF TypeInv, SessionInv, RowsInv, EntryType, ClicksInv
<1>9. ASSUME NEW k \in Key, Land(k)
      PROVE  TypeInv'
  <2> DEFINE e == [items |-> read[k].items, of |-> read[k].token, stale |-> FALSE,
                   unsure |-> read[k].unsure]
  <2>1. /\ read[k].pc = "answered" /\ entry' = [entry EXCEPT ![k] = e]
        /\ read' = [read EXCEPT ![k] = NoRead]
        /\ UNCHANGED <<rows, logins, token, expired, followsPage, clicks>>
    BY <1>9 DEF Land, serverVars, sessionVars
  <2>2. read[k] \in ReadRec /\ read[k].items \in SUBSET Items(k)
    BY <2>1 DEF TypeInv, ReadInv
  <2>3. e \in EntryRec /\ e.items \in SUBSET Items(k)
    BY <2>2 DEF ReadRec, EntryRec
  <2> HIDE DEF e
  <2>4. EntryType'
    BY <2>1, <2>3, OneEntry DEF TypeInv, EntryType
  <2>5. ReadInv'
    BY <2>1, AskedIs, OneRead
  <2> QED
    BY <2>1, <2>4, <2>5 DEF TypeInv, SessionInv, RowsInv, ClicksInv
<1>10. ASSUME NEW k \in Key, ReadRefused(k)
       PROVE  TypeInv'
  BY <1>10, TypeOfLogout DEF ReadRefused, EndsSession
<1>11. ASSUME NEW k \in Key, ReadFails(k)
       PROVE  TypeInv'
  <2>1. /\ read[k].pc # "none"
        /\ UNCHANGED <<rows, logins, token, expired, followsPage, entry, clicks>>
    BY <1>11 DEF ReadFails, serverVars, sessionVars
  <2>2. PICK r \in {NoRead, Asked(token)} : read' = [read EXCEPT ![k] = r]
    BY <1>11 DEF ReadFails
  <2>3. Mounted(k) /\ token \in Nat
    BY <2>1, AskedIs DEF TypeInv, ReadInv, SessionInv
  <2>4. r \in ReadRec /\ r.pc # "answered" /\ (r # NoRead => r.token = token)
    BY <2>3, AskedIs
  <2>5. ReadInv'
    BY <2>1, <2>2, <2>3, <2>4, OneRead
  <2> QED
    BY <2>1, <2>5 DEF TypeInv, SessionInv, RowsInv, EntryType, ClicksInv
<1>12. ASSUME NEW t \in Team, Toggle(t)
       PROVE  TypeInv'
  <2>1. PICK call \in Call : Mutate("follows", call, {t})
    BY <1>12 DEF Toggle, Call
  <2>2. {t} \in SUBSET Items("follows") /\ "follows" \in Key
    BY DEF Items, Key
  <2> QED
    BY <2>1, <2>2, TypeOfMutate
<1>13. ASSUME NEW n \in DOMAIN notes, MarkRead(n)
       PROVE  TypeInv'
  <2>1. Mutate("unread", "read", {n}) /\ "unread" \in Key /\ "read" \in Call
    BY <1>13 DEF MarkRead, Key, Call
  <2>2. {n} \in SUBSET Items("unread")
    BY BrowserAssumption DEF NotesInv, Items, Note
  <2> QED
    BY <2>1, <2>2, TypeOfMutate
<1>14. ASSUME MarkAllRead
       PROVE  TypeInv'
  <2>1. /\ Mutate("unread", "readAll", Note) /\ Note \in SUBSET Items("unread")
        /\ "unread" \in Key /\ "readAll" \in Call
    BY <1>14 DEF MarkAllRead, Items, Key, Call
  <2> QED
    BY <2>1, TypeOfMutate
<1>15. ASSUME NEW i \in DOMAIN clicks, HandleClick(i)
       PROVE  TypeInv'
  BY <1>15, TypeOfHandleClick
<1>16. ASSUME NEW i \in DOMAIN clicks, ClickFails(i)
       PROVE  TypeInv'
  <2>1. /\ clicks[i].pc # "settled" /\ clicks' = [clicks EXCEPT ![i].pc = "failed"]
        /\ UNCHANGED <<rows, logins, token, expired, followsPage, entry, read>>
    BY <1>16 DEF ClickFails, serverVars, sessionVars, cacheVars
  <2>2. ClicksInv'
    BY <2>1, ClickGoesOn
  <2> QED
    BY <2>1, <2>2 DEF TypeInv, SessionInv, RowsInv, EntryType, ReadInv, Mounted
<1>17. ASSUME NEW i \in DOMAIN clicks, Settle(i)
       PROVE  TypeInv'
  BY <1>17, SettleIs
<1>18. CASE UNCHANGED vars
  <2>1. UNCHANGED <<rows, logins, token, expired, followsPage, entry, read, clicks>>
    BY <1>18 DEF vars, serverVars, sessionVars, cacheVars
  <2> QED
    BY <2>1 DEF TypeInv, SessionInv, RowsInv, EntryType, ReadInv, Mounted, ClicksInv
<1>19. CASE Next
  BY <1>1, <1>2, <1>3, <1>4, <1>5, <1>6, <1>7, <1>8, <1>9, <1>10, <1>11, <1>12, <1>13, <1>14,
     <1>15, <1>16, <1>17, <1>19, ZenonT(60) DEF Next
<1> QED
  BY <1>18, <1>19

\* All variables of the tab and of the rows behind it keep their types.
THEOREM TypesAll == Spec => []TypeInv
BY TypeInit, TypeStep, NotesAlways, PTL DEF Spec

\* The type invariant of the tab: a request of a query belongs to the session and to a
\* query on the screen, whatever logins, logouts, pages and clicks come in between
\* (AuthProvider.jsx, useFollows.js, useNotifications.js).
THEOREM TabTypes == Spec => []TypeOK
<1>1. TypeInv => TypeOK
  <2> SUFFICES ASSUME TypeInv PROVE TypeOK
    OBVIOUS
  <2>1. \A i \in DOMAIN clicks : clicks[i] \in ClickRec \cup {Settled}
    BY DEF TypeInv, ClicksInv
  <2>2. \A i \in DOMAIN clicks :
          clicks[i].pc \in {"sent", "done", "failed", "refused", "settled"}
    BY <2>1, SettledIs DEF ClickRec
  <2> QED
    BY <2>2 DEF TypeInv, SessionInv, RowsInv, EntryType, ReadInv, TypeOK
<1> QED
  BY <1>1, TypesAll, PTL

-----------------------------------------------------------------------------
(* What the cache may show *)

\* What fits an entry and an answer depends on the rows of the session's user, and on
\* which of its mutations are under way.
LEMMA FitStays ==
  ASSUME TypeInv, NEW k \in Key, AnswerFits(k), EntryFits(k),
         entry'[k] = entry[k], UNCHANGED <<token, logins>>,
         Under(k)' = {} => Under(k) = {} /\ \A u \in User : rows'[u][k] = rows[u][k]
  PROVE  /\ EntryFits(k)'
         /\ read'[k] = read[k] => AnswerFits(k)'
<1>1. token # 0 => logins[token] \in User
  BY DEF TypeInv, SessionInv
<1> QED
  BY <1>1 DEF AnswerFits, EntryFits, InSync

\* Nothing has been answered, and nothing but a marked entry is there.
LEMMA FitNew ==
  ASSUME NEW k \in Key, read'[k].pc # "answered" \/ read'[k].unsure,
         entry'[k].items = NoData \/ entry'[k].stale
  PROVE  AnswerFits(k)' /\ EntryFits(k)'
BY DEF AnswerFits, EntryFits

LEMMA FitInit == Init => FitInv
BY FitNew DEF Init, FitInv, LeftStale, AnswerFits, EntryFits, NoEntry

\* A logout leaves nothing.
LEMMA FitOut ==
  ASSUME LoggedOut, \A k \in Key : entry'[k].items = NoData \/ entry'[k].stale
  PROVE  FitInv'
BY DEF LoggedOut, FitInv, LeftStale, AnswerFits, EntryFits

\* A mutation starts: what it patched is its own matter until it settles.
LEMMA FitMutate ==
  ASSUME TypeInv, FitInv, NEW k \in Key, NEW call, NEW items, Mutate(k, call, items)
  PROVE  FitInv'
<1> DEFINE click == [key |-> k, call |-> call, items |-> items, token |-> token,
                     before |-> [entry[k] EXCEPT !.stale = FALSE], pc |-> "sent", held |-> TRUE]
           new == Patched(entry[k], call, items)
<1>1. /\ token # 0 /\ clicks' = Append(clicks, click)
      /\ entry' = [entry EXCEPT ![k] = new]
      /\ read' = [read EXCEPT ![k] = NoRead]
      /\ UNCHANGED <<rows, logins, token>>
  BY DEF Mutate, serverVars, sessionVars, TypeInv, EntryType
<1>2. click.key = k
  OBVIOUS
<1> HIDE DEF click, new
<1>3. /\ DOMAIN clicks' = 1 .. Len(clicks) + 1 /\ DOMAIN clicks = 1 .. Len(clicks)
      /\ Len(clicks) \in Nat /\ clicks'[Len(clicks) + 1] = click
      /\ \A i \in DOMAIN clicks : clicks'[i] = clicks[i]
  BY <1>1 DEF TypeInv, ClicksInv
<1>4. Len(clicks) + 1 \in Under(k)'
  BY <1>2, <1>3 DEF Under
<1>5. AnswerFits(k)' /\ EntryFits(k)'
  BY <1>4 DEF AnswerFits, EntryFits
<1>6. ASSUME NEW j \in Key, j # k
      PROVE  AnswerFits(j)' /\ EntryFits(j)'
  <2>1. Under(j) \subseteq Under(j)'
    BY <1>3 DEF Under
  <2>2. read'[j] = read[j] /\ entry'[j] = entry[j]
    BY <1>1, <1>6 DEF TypeInv, ReadInv, EntryType
  <2> QED
    BY <1>1, <2>1, <2>2, FitStays DEF FitInv
<1> QED
  BY <1>1, <1>5, <1>6 DEF FitInv, LeftStale

LEMMA FitHandleClick ==
  ASSUME TypeInv, FitInv, NEW i \in DOMAIN clicks, HandleClick(i)
  PROVE  FitInv'
<1> DEFINE c == clicks[i]
           mine == rows[logins[c.token]][c.key]
           new == IF c.call = "follow" THEN mine \cup c.items ELSE mine \ c.items
<1>1. /\ UNCHANGED <<logins, token, entry, read>>
      /\ UNCHANGED rows \/ rows' = [rows EXCEPT ![logins[c.token]][c.key] = new]
  BY DEF HandleClick, sessionVars, cacheVars
<1>2. \A k \in Key : Under(k)' = Under(k)
  BY TypeOfHandleClick
<1>3. ASSUME NEW k \in Key
      PROVE  AnswerFits(k)' /\ EntryFits(k)'
  <2>1. Under(k)' = {} => c.key # k
    BY <1>2 DEF Under
  <2>2. c.key # k => \A u \in User : rows'[u][k] = rows[u][k]
    <3> HIDE DEF new
    <3> QED
      BY <1>1 DEF TypeInv, RowsInv
  <2> QED
    BY <1>1, <1>2, <2>1, <2>2, FitStays DEF FitInv
<1> QED
  BY <1>1, <1>3 DEF FitInv, LeftStale

LEMMA FitSettle ==
  ASSUME TypeInv, FitInv, NEW i \in DOMAIN clicks, Settle(i)
  PROVE  FitInv'
<1>1. PICK k \in Key, e \in EntryRec :
        /\ i \in Under(k) /\ e.stale
        /\ \/ LoggedOut /\ entry' = [Cleared EXCEPT ![k] = e]
           \/ /\ entry' = [entry EXCEPT ![k] = e]
              /\ UNCHANGED <<token, followsPage>>
              /\ \/ UNCHANGED read /\ read[k].pc # "answered"
                 \/ \E r \in ReadRec : /\ read' = [read EXCEPT ![k] = r]
                                       /\ r.pc = "answered" => r.unsure
  BY SettleIs
<1>2. \A j \in Key : Under(j)' = Under(j) \ {i}
  BY SettleIs
<1>3. UNCHANGED <<rows, logins>>
  BY SettleIs
<1>4. CASE LoggedOut /\ entry' = [Cleared EXCEPT ![k] = e]
  BY <1>1, <1>4, FitOut, ClearedIs, EntriesAre
<1>5. CASE /\ entry' = [entry EXCEPT ![k] = e]
           /\ UNCHANGED <<token, followsPage>>
           /\ \/ UNCHANGED read /\ read[k].pc # "answered"
              \/ \E r \in ReadRec : /\ read' = [read EXCEPT ![k] = r]
                                    /\ r.pc = "answered" => r.unsure
  <2>1. \A j \in Key \ {k} : i \notin Under(j)
    BY <1>1 DEF Under
  <2>2. ASSUME NEW j \in Key, j # k
        PROVE  AnswerFits(j)' /\ EntryFits(j)'
    <3>1. read'[j] = read[j] /\ entry'[j] = entry[j]
      BY <1>5, <2>2 DEF TypeInv, ReadInv, EntryType
    <3>2. Under(j)' = Under(j)
      BY <1>2, <2>1, <2>2
    <3> QED
      BY <1>3, <1>5, <2>2, <3>1, <3>2, FitStays DEF FitInv
  <2>3. entry'[k].stale
    BY <1>1, <1>5 DEF TypeInv, EntryType
  <2>4. EntryFits(k)'
    BY <2>3 DEF EntryFits
  <2>5. read'[k].pc = "answered" => read'[k].unsure
    BY <1>5 DEF TypeInv, ReadInv
  <2>6. AnswerFits(k)'
    BY <2>5 DEF AnswerFits
  <2>7. LeftStale'
    BY <1>5, <2>3 DEF FitInv, LeftStale, TypeInv, EntryType
  <2> QED
    BY <2>2, <2>4, <2>6, <2>7 DEF FitInv
<1> QED
  BY <1>1, <1>4, <1>5

LEMMA FitStep ==
  ASSUME TypeInv, FitInv, [Next]_vars
  PROVE  FitInv'
<1>1. ASSUME NEW u \in User, Login(u)
      PROVE  FitInv'
  <2>1. /\ token = 0 /\ token' = Len(logins') /\ logins' = Append(logins, u)
        /\ read' = [read EXCEPT !["unread"] = Asked(token')] /\ UNCHANGED entry
    BY <1>1 DEF Login, IssueToken
  <2>2. \A k \in Key : read[k] = NoRead
    BY <2>1 DEF TypeInv, ReadInv, Mounted
  <2>3. token' \in Nat /\ token' # 0
    BY <2>1 DEF TypeInv, SessionInv
  <2>4. \A k \in Key : read'[k].pc # "answered"
    BY <2>1, <2>2, <2>3, AskedIs DEF TypeInv, ReadInv
  <2>5. \A k \in Key : entry'[k].items = NoData \/ entry'[k].stale
    BY <2>1 DEF FitInv, LeftStale
  <2> QED
    BY <2>4, <2>5, FitNew DEF FitInv, LeftStale
<1>2. ASSUME NEW u \in User, Notify(u)
      PROVE  FitInv'
  <2>1. PICK n : /\ rows' = [rows EXCEPT ![u]["unread"] = @ \cup {n}]
                 /\ UNCHANGED <<logins, token, entry, read, clicks>>
    BY <1>2 DEF Notify, sessionVars, cacheVars
  <2>2. \A v \in User : /\ rows[v]["unread"] \subseteq rows'[v]["unread"]
                        /\ rows'[v]["follows"] = rows[v]["follows"]
    BY <2>1 DEF TypeInv, RowsInv, Key
  <2>3. token # 0 => logins[token] \in User
    BY DEF TypeInv, SessionInv
  <2>4. ASSUME NEW k \in Key
        PROVE  AnswerFits(k)' /\ EntryFits(k)'
    <3>1. \A items : token # 0 /\ InSync(items, k) =>
            /\ items \subseteq rows'[logins[token]][k]
            /\ k = "follows" => items = rows'[logins[token]][k]
      BY <2>2, <2>3 DEF InSync, Key
    <3>2. Under(k)' = Under(k)
      BY <2>1 DEF Under
    <3>3. AnswerFits(k)'
      BY <2>1, <3>1, <3>2 DEF AnswerFits, FitInv, InSync
    <3>4. EntryFits(k)'
      BY <2>1, <3>1, <3>2 DEF EntryFits, FitInv, InSync
    <3> QED
      BY <3>3, <3>4
  <2> QED
    BY <2>1, <2>4 DEF FitInv, LeftStale
<1>3. ASSUME UNCHANGED <<rows, logins, token, entry, read, clicks>>
      PROVE  FitInv'
  BY <1>3 DEF FitInv, LeftStale, AnswerFits, EntryFits, InSync, Under
<1>4. ASSUME LoggedOut, entry' = Cleared
      PROVE  FitInv'
  BY <1>4, FitOut, ClearedIs, EntriesAre
<1>5. ASSUME NEW k \in Key, NEW r \in ReadRec, read' = [read EXCEPT ![k] = r],
             UNCHANGED <<rows, logins, token, entry, clicks>>,
             r.pc = "answered" => InSync(r.items, k)
      PROVE  FitInv'
  <2>1. \A j \in Key : Under(j)' = Under(j)
    BY <1>5 DEF Under
  <2>2. \A j \in Key : EntryFits(j)' /\ (j # k => AnswerFits(j)')
    BY <1>5, <2>1, FitStays DEF FitInv, TypeInv, ReadInv
  <2>3. AnswerFits(k)'
    BY <1>5 DEF AnswerFits, InSync, TypeInv, ReadInv
  <2> QED
    BY <1>5, <2>2, <2>3 DEF FitInv, LeftStale
<1>6. ASSUME OpenFollows
      PROVE  FitInv'
  <2>1. /\ UNCHANGED <<rows, logins, token, entry, clicks>>
        /\ \/ read' = [read EXCEPT !["follows"] = Asked(token)]
           \/ UNCHANGED read
    BY <1>6 DEF OpenFollows, serverVars, sessionVars
  <2>2. token \in Nat /\ "follows" \in Key
    BY DEF TypeInv, SessionInv, Key
  <2>3. Asked(token) \in ReadRec /\ Asked(token).pc # "answered"
    BY <2>2, AskedIs
  <2> QED
    BY <1>3, <1>5, <2>1, <2>2, <2>3
<1>7. ASSUME CloseFollows
      PROVE  FitInv'
  <2>1. /\ read' = [read EXCEPT !["follows"] = NoRead] /\ clicks' = Released
        /\ UNCHANGED <<rows, logins, token, entry>>
    BY <1>7 DEF CloseFollows, Unobserved, serverVars, sessionVars
  <2>2. \A j \in Key : Under(j)' = Under(j)
    BY <2>1, ReleasedIs DEF Under, TypeInv
  <2>3. \A j \in Key : read'[j] = read[j] \/ read'[j].pc # "answered"
    BY <2>1, AskedIs DEF TypeInv, ReadInv
  <2>4. \A j \in Key : EntryFits(j)' /\ (read'[j] = read[j] => AnswerFits(j)')
    BY <2>1, <2>2, FitStays DEF FitInv
  <2>5. \A j \in Key : AnswerFits(j)'
    BY <2>3, <2>4 DEF AnswerFits
  <2> QED
    BY <2>1, <2>4, <2>5 DEF FitInv, LeftStale
<1>8. ASSUME NEW k \in Key, Refetch(k)
      PROVE  FitInv'
  <2>1. token \in Nat
    BY DEF TypeInv, SessionInv
  <2> QED
    BY <1>5, <1>8, <2>1, AskedIs DEF Refetch, serverVars, sessionVars
<1>9. ASSUME NEW k \in Key, AnswerRead(k)
      PROVE  FitInv'
  <2> DEFINE mine == Listed(logins[read[k].token], k)
             good == [read[k] EXCEPT !.pc = "answered", !.items = mine]
             bad == [read[k] EXCEPT !.pc = "refused"]
  <2>1. /\ read[k].pc = "asked"
        /\ read' = [read EXCEPT ![k] = good] \/ read' = [read EXCEPT ![k] = bad]
        /\ UNCHANGED <<rows, logins, token, entry, clicks>>
    BY <1>9 DEF AnswerRead, serverVars, sessionVars, TypeInv, ReadInv, ReadRec
  <2>2. read[k] \in ReadRec /\ Mounted(k) /\ read[k].token = token
    BY <2>1, AskedIs DEF TypeInv, ReadInv, NoRead
  <2>3. mine \in SUBSET AnyItem
    <3>1. logins[token] \in User
      BY <2>2 DEF Mounted, TypeInv, SessionInv
    <3> QED
      BY <2>2, <3>1, ListedIs DEF TypeInv, RowsInv
  <2>4. InSync(mine, k)
    BY <2>2, ListedIs DEF InSync
  <2>5. good \in ReadRec /\ good.items = mine /\ bad \in ReadRec /\ bad.pc = "refused"
    <3> HIDE DEF mine
    <3> QED
      BY <2>2, <2>3 DEF ReadRec
  <2> HIDE DEF good, bad, mine
  <2> QED
    BY <1>5, <2>1, <2>4, <2>5
<1>10. ASSUME NEW k \in Key, Land(k)
       PROVE  FitInv'
  <2> DEFINE e == [items |-> read[k].items, of |-> read[k].token, stale |-> FALSE,
                   unsure |-> read[k].unsure]
  <2>1. /\ read[k].pc = "answered" /\ entry' = [entry EXCEPT ![k] = e]
        /\ read' = [read EXCEPT ![k] = NoRead] /\ UNCHANGED <<rows, logins, token, clicks>>
    BY <1>10 DEF Land, serverVars, sessionVars
  <2>2. e.items = read[k].items /\ e.of = read[k].token /\ e.unsure = read[k].unsure
    OBVIOUS
  <2> HIDE DEF e
  <2>3. read[k].token = token /\ token # 0
    BY <2>1, AskedIs DEF TypeInv, ReadInv, NoRead, Mounted
  <2>4. \A j \in Key : Under(j)' = Under(j)
    BY <2>1 DEF Under
  <2>5. ASSUME NEW j \in Key, j # k
        PROVE  AnswerFits(j)' /\ EntryFits(j)'
    <3>1. read'[j] = read[j] /\ entry'[j] = entry[j]
      BY <2>1, <2>5 DEF TypeInv, ReadInv, EntryType
    <3> QED
      BY <2>1, <2>4, <3>1, FitStays DEF FitInv
  <2>6. AnswerFits(k)'
    BY <2>1, AskedIs DEF AnswerFits, TypeInv, ReadInv
  <2>7. EntryFits(k)'
    <3>1. entry'[k] = e
      BY <2>1 DEF TypeInv, EntryType
    <3>2. Under(k)' = {} /\ ~e.unsure => InSync(e.items, k)
      BY <2>1, <2>2, <2>3, <2>4 DEF FitInv, AnswerFits
    <3> QED
      BY <2>1, <2>2, <2>3, <3>1, <3>2 DEF EntryFits, InSync
  <2> QED
    BY <2>1, <2>3, <2>5, <2>6, <2>7 DEF FitInv, LeftStale
<1>11. ASSUME NEW k \in Key, ReadRefused(k)
       PROVE  FitInv'
  BY <1>4, <1>11 DEF ReadRefused, EndsSession
<1>12. ASSUME NEW k \in Key, ReadFails(k)
       PROVE  FitInv'
  <2>1. PICK r \in {NoRead, Asked(token)} : read' = [read EXCEPT ![k] = r]
    BY <1>12 DEF ReadFails
  <2>2. token \in Nat
    BY DEF TypeInv, SessionInv
  <2> QED
    BY <1>5, <1>12, <2>1, <2>2, AskedIs DEF ReadFails, serverVars, sessionVars
<1>13. ASSUME NEW t \in Team, Toggle(t)
       PROVE  FitInv'
  BY <1>13, FitMutate DEF Toggle, Key
<1>14. ASSUME NEW n \in DOMAIN notes, MarkRead(n)
       PROVE  FitInv'
  BY <1>14, FitMutate DEF MarkRead, Key
<1>15. ASSUME MarkAllRead
       PROVE  FitInv'
  BY <1>15, FitMutate DEF MarkAllRead, Key
<1>16. ASSUME NEW i \in DOMAIN clicks, HandleClick(i)
       PROVE  FitInv'
  BY <1>16, FitHandleClick
<1>17. ASSUME NEW i \in DOMAIN clicks, ClickFails(i)
       PROVE  FitInv'
  <2>1. /\ clicks[i].pc # "settled" /\ clicks' = [clicks EXCEPT ![i].pc = "failed"]
        /\ UNCHANGED <<rows, logins, token, entry, read>>
    BY <1>17 DEF ClickFails, serverVars, sessionVars, cacheVars
  <2>2. \A k \in Key : Under(k)' = Under(k)
    BY <2>1, ClickGoesOn
  <2> QED
    BY <2>1, <2>2, FitStays DEF FitInv, LeftStale
<1>18. ASSUME NEW i \in DOMAIN clicks, Settle(i)
       PROVE  FitInv'
  BY <1>18, FitSettle
<1>19. ASSUME NEW t \in 1 .. MaxLogins, Expire(t)
       PROVE  FitInv'
  BY <1>3, <1>19 DEF Expire, serverVars, sessionVars, cacheVars
<1>20. ASSUME Logout
       PROVE  FitInv'
  BY <1>4, <1>20 DEF Logout
<1>21. CASE UNCHANGED vars
  BY <1>3, <1>21 DEF vars, serverVars, sessionVars, cacheVars
<1>22. CASE Next
  BY <1>1, <1>2, <1>6, <1>7, <1>8, <1>9, <1>10, <1>11, <1>12, <1>13, <1>14, <1>15, <1>16, <1>17,
     <1>18, <1>19, <1>20, <1>22, ZenonT(60) DEF Next
<1> QED
  BY <1>21, <1>22

THEOREM FitsAlways == Spec => []FitInv
BY TypesAll, FitInit, FitStep, PTL DEF Spec

\* For any users, teams, notifications, logins, clicks and failures: an entry that is not
\* marked and that no mutation or read is about shows what the server has for the user
\* (onMutate, onError and onSettled of useFollows.js and useNotifications.js).
THEOREM QuietInSync == Spec => []QuietMeansInSync
<1>1. FitInv => QuietMeansInSync
  BY DEF FitInv, EntryFits, InSync, QuietMeansInSync
<1> QED
  BY <1>1, FitsAlways, PTL

\* For any of them: another user's list is not kept as fresh in the next session
\* (AuthProvider.jsx clears the cache, and a late rollback is invalidated).
THEOREM ForeignListMarked == Spec => []NoForeignList
<1>1. FitInv => NoForeignList
  BY DEF FitInv, EntryFits, NoForeignList
<1> QED
  BY <1>1, FitsAlways, PTL

=============================================================================
