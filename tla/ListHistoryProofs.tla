-------------------------- MODULE ListHistoryProofs --------------------------
(***************************************************************************)
(* Proofs about ListHistory: what the comparison of polls means to a       *)
(* subscriber, and what normalisation does to an answer, for any answers   *)
(* and fixtures of the shapes the assumptions name.                        *)
(***************************************************************************)
EXTENDS ListHistory, MatchDiffProofs, SequenceTheorems

(* Applying the changes of a comparison to the table of the first list gives the
   table of the second: DiffMatches leaves nothing out, for any two lists. *)
THEOREM ChangesRebuild == Spec => []ChangesRebuildList
<1> DEFINE was == MatchesById(second)
           is == MatchesById(third)
           changes == DiffMatches(second, third)
           gone == {c.id : c \in {d \in changes : d.type = "removed"}}
           new == {c \in changes : c.type # "removed"}
           patched == Patched(was, changes)
<1>1. gone = DOMAIN was \ DOMAIN is
  <2>1. \A c : c \in changes /\ c.type = "removed" <=>
               \E id \in DOMAIN was \ DOMAIN is : c = Change(id, "removed", was[id], Null, {})
    BY RemovedIffGone
  <2> HIDE DEF changes, was, is
  <2>2. \A c \in changes : c.type = "removed" => c.id \in DOMAIN was \ DOMAIN is
    BY <2>1 DEF Change
  <2>3. \A id \in DOMAIN was \ DOMAIN is :
          Change(id, "removed", was[id], Null, {}) \in {d \in changes : d.type = "removed"}
    BY <2>1 DEF Change
  <2>4. \A id : Change(id, "removed", was[id], Null, {}).id = id
    BY DEF Change
  <2>5. gone \subseteq DOMAIN was \ DOMAIN is
    BY <2>2
  <2>6. DOMAIN was \ DOMAIN is \subseteq gone
    BY <2>3, <2>4
  <2> QED
    BY <2>5, <2>6
<1>2. \A c \in new : c.id \in DOMAIN is /\ c.after = is[c.id]
  <2>1. \A c \in new : c.type \in {"added", "changed"}
    BY ChangeTypes
  <2>2. \A c \in changes : c.type = "added" => c.id \in DOMAIN is /\ c.after = is[c.id]
    BY AddedIffNew DEF Change
  <2>3. \A c \in changes : c.type = "changed" => c.id \in DOMAIN is /\ c.after = is[c.id]
    BY ChangedIffDiffers DEF ChangeOf, Change, Both
  <2> QED
    BY <2>1, <2>2, <2>3
<1>3. \A id \in DOMAIN is \ DOMAIN was : \E c \in new : c.id = id
  <2>1. TAKE id \in DOMAIN is \ DOMAIN was
  <2>2. Change(id, "added", Null, is[id], {}) \in changes
    BY AddedIffNew
  <2> QED
    BY <2>2 DEF Change
<1>4. \A id \in DOMAIN is \cap DOMAIN was :
        (\E c \in new : c.id = id) \/ ChangedFields(was[id], is[id]) = {}
  <2>1. TAKE id \in DOMAIN is \cap DOMAIN was
  <2>2. CASE ChangedFields(was[id], is[id]) # {}
    <3>1. ChangeOf(second, third, id) \in changes
      BY <2>1, <2>2, ChangedIffDiffers DEF Both
    <3> QED
      BY <3>1 DEF ChangeOf, Change
  <2> QED
    BY <2>2
<1>5. \A x : ChangedFields(x, x) = {}
  BY DEF ChangedFields
<1>6. \A c \in changes : c.type = "changed" =>
        \E f \in {"status", "overs", "score"} : c.before[f] # c.after[f]
  <2>1. TAKE c \in changes
  <2>2. SUFFICES ASSUME c.type = "changed"
                 PROVE  \E f \in {"status", "overs", "score"} : c.before[f] # c.after[f]
    OBVIOUS
  <2>3. PICK id \in Both(second, third) :
          ChangedFields(was[id], is[id]) # {} /\ c = ChangeOf(second, third, id)
    BY <2>2, ChangedIffDiffers
  <2>4. c.before = was[id] /\ c.after = is[id]
    BY <2>3 DEF ChangeOf, Change
  <2>5. PICK f \in ComparedFields : FieldValue(was[id], f) # FieldValue(is[id], f)
    BY <2>3 DEF ChangedFields
  <2>6. CASE f = "wickets"
    BY <2>4, <2>5, <2>6, FiguresOfScore DEF FieldValue
  <2>7. CASE f # "wickets"
    BY <2>4, <2>5, <2>7 DEF FieldValue, ComparedFields
  <2> QED
    BY <2>6, <2>7
<1>7. /\ DOMAIN patched = (DOMAIN was \cup {c.id : c \in new}) \ gone
      /\ \A id \in DOMAIN patched :
           patched[id] = IF \E c \in new : c.id = id
                         THEN (CHOOSE c \in new : c.id = id).after ELSE was[id]
  BY DEF Patched
<1> HIDE DEF patched, gone, new, was, is
<1>8. DOMAIN patched = DOMAIN is
  BY <1>1, <1>2, <1>3, <1>7
<1>9. \A id \in DOMAIN is : ChangedFields(patched[id], is[id]) = {}
  <2>1. TAKE id \in DOMAIN is
  <2>2. CASE \E c \in new : c.id = id
    BY <1>2, <1>5, <1>7, <1>8, <2>2
  <2>3. CASE ~\E c \in new : c.id = id
    BY <1>3, <1>4, <1>7, <1>8, <2>3
  <2> QED
    BY <2>2, <2>3
<1>10. ChangesRebuildList
  BY <1>6, <1>8, <1>9 DEF ChangesRebuildList, patched, was, is
<1> QED
  BY <1>10, PTL

-----------------------------------------------------------------------------
(* What a poll gets of an answer. *)

(* The last of some positions is one of them, and none is after it. *)
LEMMA MaxOfPositions ==
  ASSUME NEW n \in Nat, NEW S \in SUBSET (1 .. n), S # {}
  PROVE  Max(S) \in S /\ \A x \in S : x <= Max(S)
<1>1. \E m \in S : \A x \in S : m >= x
  BY LastExists
<1>2. Max(S) \in S /\ \A x \in S : Max(S) >= x
  BY <1>1 DEF Max
<1> QED
  BY <1>2

(* A function on 1 .. n is a sequence of length n. *)
LEMMA LengthOf ==
  ASSUME NEW n \in Nat, NEW s, s = [i \in 1 .. n |-> s[i]]
  PROVE  Len(s) = n
<1> DEFINE S == {s[i] : i \in 1 .. n}
<1>1. s \in [1 .. n -> S]
  OBVIOUS
<1>2. s \in Seq(S)
  BY <1>1, SeqDef
<1> QED
  BY <1>1, <1>2, LenProperties

(* A normalised score has figures that are numbers, team by team. *)
LEMMA NormalizedFigures ==
  ASSUME NEW raw, IsRaw(raw)
  PROVE  Figured(NormalizeMatch(raw))
<1> DEFINE n == Len(raw.score)
           teams == NormalizeTeams(raw)
           owner == [i \in DOMAIN raw.score |-> TeamOfInnings(raw, teams, i)]
           at(t) == Max({i \in DOMAIN owner : owner[i] = t})
<1>1. NormalizeMatch(raw).score = NormalizeScore(raw, teams)
  BY DEF NormalizeMatch
<1>2. CASE raw.score = <<>>
  BY <1>1, <1>2 DEF NormalizeScore, Figured
<1>3. CASE raw.score # <<>>
  <2>1. NormalizeScore(raw, teams)
          = [t \in Range(owner) |-> [runs |-> OrZero(raw.score[at(t)].r),
                                    wkts |-> OrZero(raw.score[at(t)].w)]]
    BY <1>3 DEF NormalizeScore
  <2>2. \A t \in Range(owner) : at(t) \in DOMAIN raw.score
    <3>1. TAKE t \in Range(owner)
    <3>2. n \in Nat /\ DOMAIN owner = 1 .. n
      BY DEF IsRaw
    <3>3. {i \in DOMAIN owner : owner[i] = t} \in SUBSET (1 .. n)
      BY <3>2
    <3>4. {i \in DOMAIN owner : owner[i] = t} # {}
      BY <3>1 DEF Range
    <3> HIDE DEF owner, n
    <3>5. at(t) \in {i \in DOMAIN owner : owner[i] = t}
      BY <3>2, <3>3, <3>4, MaxOfPositions
    <3> QED
      BY <3>5 DEF owner
  <2>3. \A t \in Range(owner) : /\ OrZero(raw.score[at(t)].r) \in Nat
                               /\ OrZero(raw.score[at(t)].w) \in Nat
    BY <2>2 DEF IsRaw
  <2> HIDE DEF at, owner
  <2> QED
    BY <1>1, <2>1, <2>3 DEF Figured
<1> QED
  BY <1>2, <1>3

Listed(list) ==
  /\ FiguredList(list)
  /\ \A i \in DOMAIN list : \E raw : list[i] = NormalizeMatch(raw)

(* What a poll gets is a list of normalised matches. *)
LEMMA PolledList ==
  ASSUME NEW answer, IsAnswer(answer)
  PROVE  Listed(MatchesOf(answer))
<1> DEFINE raws == ExtractMatchList(answer)
<1>1. /\ MatchesOf(answer) = [i \in DOMAIN raws |-> NormalizeMatch(raws[i])]
      /\ Len(raws) \in Nat /\ DOMAIN raws = 1 .. Len(raws)
      /\ \A i \in DOMAIN raws : IsRaw(raws[i])
  BY DEF MatchesOf, IsAnswer
<1> HIDE DEF raws
<1> QED
  BY <1>1, NormalizedFigures DEF Listed, FiguredList

-----------------------------------------------------------------------------
(* The mock. *)

MockOf(list) ==
  /\ \E n \in Nat : DOMAIN list = 1 .. n
  /\ list = [i \in DOMAIN list |-> list[i]]
  /\ \A i \in DOMAIN list : IsFixture(list[i])

(* Gains are added to figures, which stay figures. *)
LEMMA GrownType ==
  ASSUME NEW figures \in [runs : Nat, wkts : Nat], NEW gain \in [runs : Nat, wkts : Nat]
  PROVE  Grown(figures, gain) \in [runs : Nat, wkts : Nat]
  BY DEF Grown, AtMostTen

(* A match that goes on is still like a fixture. *)
LEMMA GrownFixture ==
  ASSUME NEW m, IsFixture(m), m.score # Null, NEW overs \in Nat,
         NEW score \in [DOMAIN m.score -> [runs : Nat, wkts : Nat]]
  PROVE  IsFixture([m EXCEPT !.overs = overs, !.score = score])
<1> DEFINE r == [m EXCEPT !.overs = overs, !.score = score]
<1>1. m \in [id : {m.id}, teams : {m.teams}, status : {m.status}, overs : {m.overs},
             score : {m.score}]
  <2> DEFINE same == [id |-> m.id, teams |-> m.teams, status |-> m.status,
                      overs |-> m.overs, score |-> m.score]
  <2>1. same \in [id : {m.id}, teams : {m.teams}, status : {m.status}, overs : {m.overs},
                  score : {m.score}]
    OBVIOUS
  <2>2. m = same
    BY DEF IsFixture
  <2> QED
    BY <2>1, <2>2, Zenon
<1>2. r \in [id : {m.id}, teams : {m.teams}, status : {m.status}, overs : {overs},
             score : {score}]
  BY <1>1
<1>3. r = [id |-> m.id, teams |-> m.teams, status |-> m.status, overs |-> overs,
           score |-> score]
  <2> HIDE DEF r
  <2> QED
    BY <1>2
<1>4. DOMAIN m.score = {m.teams[1], m.teams[2]}
  BY DEF IsFixture
<1> HIDE DEF r
<1>5. r.id = m.id /\ r.teams = m.teams /\ r.status = m.status /\ r.overs = overs /\ r.score = score
  BY <1>3
<1>6. IsFixture(r)
  BY <1>3, <1>4, <1>5 DEF IsFixture
<1> QED
  BY <1>6 DEF r

(* Where a match bats, it is live and every team with a score does. *)
LEMMA BattingMatches ==
  ASSUME NEW list, NEW i, NEW t
  PROVE  <<i, t>> \in Batting(list)
         <=> /\ i \in DOMAIN list /\ list[i].status = "live" /\ list[i].score # Null
             /\ t \in DOMAIN list[i].score
  BY DEF Batting

(* evolve keeps the mock's matches what they are. *)
LEMMA EvolvedFixtures ==
  ASSUME NEW list, MockOf(list), NEW ticks \in 0 .. MaxTicks, NEW next \in Evolved(list, ticks)
  PROVE  MockOf(next) /\ DOMAIN next = DOMAIN list
<1>1. PICK gain \in [Batting(list) -> Gains(ticks)] :
        next = [i \in DOMAIN list |->
                  IF \E t \in Range(list[i].teams) : <<i, t>> \in Batting(list)
                  THEN [list[i] EXCEPT !.overs = @ + 3 * ticks,
                                       !.score = [t \in DOMAIN @ |-> Grown(@[t], gain[<<i, t>>])]]
                  ELSE list[i]]
  BY DEF Evolved
<1>2. ASSUME NEW i \in DOMAIN list PROVE IsFixture(next[i])
  <2>1. IsFixture(list[i])
    BY DEF MockOf
  <2>2. CASE ~\E t \in Range(list[i].teams) : <<i, t>> \in Batting(list)
    BY <1>1, <2>1, <2>2
  <2>3. CASE \E t \in Range(list[i].teams) : <<i, t>> \in Batting(list)
    <3> DEFINE overs == list[i].overs + 3 * ticks
               score == [t \in DOMAIN list[i].score |->
                           Grown(list[i].score[t], gain[<<i, t>>])]
    <3>1. list[i].score # Null /\ \A t \in DOMAIN list[i].score : <<i, t>> \in Batting(list)
      BY <2>3, BattingMatches
    <3>2. list[i].overs \in Nat /\ \A t \in DOMAIN list[i].score : list[i].score[t] \in [runs : Nat, wkts : Nat]
      BY <2>1, <3>1 DEF IsFixture
    <3>3. \A t \in DOMAIN list[i].score : gain[<<i, t>>] \in [runs : Nat, wkts : Nat]
      BY <3>1, GainsAssumption
    <3>4. score \in [DOMAIN list[i].score -> [runs : Nat, wkts : Nat]]
      BY <3>2, <3>3, GrownType
    <3>5. overs \in Nat
      BY <3>2, GainsAssumption
    <3>6. next[i] = [list[i] EXCEPT !.overs = overs, !.score = score]
      BY <1>1, <2>3
    <3> HIDE DEF overs, score
    <3>7. IsFixture([list[i] EXCEPT !.overs = overs, !.score = score])
      BY <2>1, <3>1, <3>4, <3>5, GrownFixture
    <3> QED
      BY <3>6, <3>7, Zenon
  <2> QED
    BY <2>2, <2>3
<1>3. DOMAIN next = DOMAIN list /\ next = [i \in DOMAIN next |-> next[i]]
  BY <1>1
<1> QED
  BY <1>2, <1>3 DEF MockOf

(* A name with one more word is a name. *)
LEMMA LongerName ==
  ASSUME NEW name, IsName(name), NEW word
  PROVE  IsName(Append(name, word))
<1> DEFINE S == Range(name) \cup {word}
           longer == Append(name, word)
<1>1. name \in Seq(S)
  BY SeqMonotonic DEF IsName
<1>2. longer \in Seq(S)
  BY <1>1, AppendProperties
<1> HIDE DEF longer
<1>3. longer \in [1 .. Len(longer) -> S] /\ Len(longer) \in Nat
  BY <1>2, LenProperties
<1>4. longer \in [1 .. Len(longer) -> Range(longer)]
  BY <1>3 DEF Range
<1>5. longer \in Seq(Range(longer))
  BY <1>3, <1>4, SeqDef
<1> QED
  BY <1>5 DEF IsName, longer

InningsOf(label, figures, overs) ==
  [inning |-> label, r |-> figures.runs, w |-> figures.wkts, o |-> overs]

LEMMA InningsFields ==
  ASSUME NEW inn, NEW label, NEW figures, NEW overs, inn = InningsOf(label, figures, overs)
  PROVE  inn.inning = label /\ inn.r = figures.runs /\ inn.w = figures.wkts /\ inn.o = overs
  BY DEF InningsOf

(* What toExternal makes of a fixture: one innings per team, or none. *)
LEMMA ExternalFixture ==
  ASSUME NEW m, IsFixture(m)
  PROVE  LET raw == ToExternal(m) IN
         /\ m.score = Null => raw.score = <<>>
         /\ m.score # Null =>
              /\ Len(raw.score) \in Nat /\ DOMAIN raw.score = 1 .. Len(raw.score)
              /\ Len(raw.score) = 2
              /\ \A k \in 1 .. 2 :
                   raw.score[k]
                     = InningsOf(Append(m.teams[k], "Inning 1"), m.score[m.teams[k]], m.overs)
<1> DEFINE innings == IF m.score = Null THEN <<>> ELSE m.teams
           listed == [i \in DOMAIN innings |->
                        InningsOf(Append(innings[i], "Inning 1"), m.score[innings[i]], m.overs)]
<1>1. ToExternal(m).score = listed
  BY DEF ToExternal, InningsOf
<1>2. CASE m.score = Null
  BY <1>1, <1>2
<1>3. CASE m.score # Null
  <2>1. m.teams = <<m.teams[1], m.teams[2]>>
    BY DEF IsFixture
  <2>2. DOMAIN m.teams = 1 .. 2
    BY <2>1
  <2>3. listed = [i \in 1 .. 2 |-> listed[i]]
    BY <1>3, <2>2
  <2>4. \A k \in 1 .. 2 :
          listed[k] = InningsOf(Append(m.teams[k], "Inning 1"), m.score[m.teams[k]], m.overs)
    BY <1>3, <2>2
  <2> HIDE DEF listed
  <2>5. Len(listed) = 2
    BY <2>3, LengthOf
  <2>6. DOMAIN listed = 1 .. 2
    BY <2>3
  <2>7. /\ Len(listed) \in Nat /\ DOMAIN listed = 1 .. Len(listed)
        /\ Len(listed) = 2
        /\ \A k \in 1 .. 2 :
             listed[k] = InningsOf(Append(m.teams[k], "Inning 1"), m.score[m.teams[k]], m.overs)
    <3>1. 2 \in Nat
      OBVIOUS
    <3> QED
      BY <2>4, <2>5, <2>6, <3>1, Zenon
  <2> QED
    BY <1>1, <1>3, <2>7, Zenon
<1> QED
  BY <1>2, <1>3

(* An innings of toExternal, field by field. *)
LEMMA ExternalInnings ==
  ASSUME NEW m, IsFixture(m), m.score # Null, NEW raw, raw = ToExternal(m), NEW k \in 1 .. 2
  PROVE  /\ raw.score[k].inning = Append(m.teams[k], "Inning 1")
         /\ raw.score[k].r = m.score[m.teams[k]].runs
         /\ raw.score[k].w = m.score[m.teams[k]].wkts
         /\ raw.score[k].o = m.overs
<1>1. PICK label : label = Append(m.teams[k], "Inning 1")
  OBVIOUS
<1>2. raw.score[k] = InningsOf(Append(m.teams[k], "Inning 1"), m.score[m.teams[k]], m.overs)
  BY ExternalFixture
<1>3. raw.score[k] = InningsOf(label, m.score[m.teams[k]], m.overs)
  BY <1>1, <1>2, Zenon
<1>4. /\ raw.score[k].inning = label
      /\ raw.score[k].r = m.score[m.teams[k]].runs
      /\ raw.score[k].w = m.score[m.teams[k]].wkts
      /\ raw.score[k].o = m.overs
  BY <1>3, InningsFields
<1> QED
  BY <1>1, <1>4, Zenon

(* A fixture with a score has figures for both its teams. *)
LEMMA FixtureFigures ==
  ASSUME NEW m, IsFixture(m), m.score # Null, NEW k \in 1 .. 2
  PROVE  m.score[m.teams[k]] \in [runs : Nat, wkts : Nat]
<1>1. m.score \in [{m.teams[1], m.teams[2]} -> [runs : Nat, wkts : Nat]]
  BY DEF IsFixture
<1>2. k = 1 \/ k = 2
  OBVIOUS
<1>3. m.teams[k] \in {m.teams[1], m.teams[2]}
  BY <1>2
<1> QED
  BY <1>1, <1>3

(* What a fixture is made into is well formed. *)
LEMMA FixtureIsRaw ==
  ASSUME NEW m, IsFixture(m)
  PROVE  IsRaw(ToExternal(m))
<1> DEFINE raw == ToExternal(m)
<1>1. CASE m.score = Null
  <2>1. raw.score = <<>>
    BY <1>1, ExternalFixture
  <2> HIDE DEF raw
  <2>2. Len(raw.score) \in Nat /\ DOMAIN raw.score = 1 .. Len(raw.score) /\ DOMAIN raw.score = {}
    BY <2>1
  <2>3. IsRaw(raw)
    BY <2>2 DEF IsRaw
  <2> QED
    BY <2>3 DEF raw
<1>2. CASE m.score # Null
  <2>1. /\ Len(raw.score) \in Nat /\ DOMAIN raw.score = 1 .. Len(raw.score)
        /\ Len(raw.score) = 2
        /\ \A k \in 1 .. 2 :
             raw.score[k]
               = InningsOf(Append(m.teams[k], "Inning 1"), m.score[m.teams[k]], m.overs)
    BY <1>2, ExternalFixture
  <2>2. \A k \in 1 .. 2 : IsName(Append(m.teams[k], "Inning 1"))
    BY LongerName DEF IsFixture
  <2>3. \A k \in 1 .. 2 : m.score[m.teams[k]].runs \in Nat /\ m.score[m.teams[k]].wkts \in Nat
    BY <1>2, FixtureFigures
  <2> HIDE DEF raw
  <2>4. \A k \in DOMAIN raw.score : k \in 1 .. 2
    BY <2>1
  <2>5. \A k \in DOMAIN raw.score :
          /\ IsName(raw.score[k].inning)
          /\ raw.score[k].r \in Nat /\ raw.score[k].w \in Nat
    <3>1. TAKE k \in DOMAIN raw.score
    <3>2. k \in 1 .. 2
      BY <2>4
    <3>3. /\ raw.score[k].inning = Append(m.teams[k], "Inning 1")
          /\ raw.score[k].r = m.score[m.teams[k]].runs
          /\ raw.score[k].w = m.score[m.teams[k]].wkts
      BY <1>2, <3>2, ExternalInnings DEF raw
    <3>4. /\ IsName(Append(m.teams[k], "Inning 1"))
          /\ m.score[m.teams[k]].runs \in Nat /\ m.score[m.teams[k]].wkts \in Nat
      BY <2>2, <2>3, <2>4
    <3> QED
      BY <3>3, <3>4, Zenon
  <2>6. IsRaw(raw)
    BY <2>1, <2>5 DEF IsRaw, OrZero
  <2> QED
    BY <2>6 DEF raw
<1> QED
  BY <1>1, <1>2

(* The mock answers in the external shape. *)
LEMMA MockAnswers ==
  ASSUME NEW list, MockOf(list)
  PROVE  IsAnswer(CurrentMatchesBody(list))
<1> DEFINE data == [i \in DOMAIN list |-> ToExternal(list[i])]
<1>1. CurrentMatchesBody(list).data = data /\ CurrentMatchesBody(list).matches = Null
  BY DEF CurrentMatchesBody
<1>2. ExtractMatchList(CurrentMatchesBody(list)) \in {data, <<>>}
  BY <1>1 DEF ExtractMatchList
<1>3. PICK n \in Nat : DOMAIN list = 1 .. n
  BY DEF MockOf
<1>4. Len(data) = n
  BY <1>3, LengthOf
<1>5. \A i \in DOMAIN data : IsRaw(data[i])
  BY FixtureIsRaw DEF MockOf
<1>6. CASE ExtractMatchList(CurrentMatchesBody(list)) = data
  <2>1. \A i \in DOMAIN data : IsRaw(data[i])
    BY <1>5 DEF MockOf
  <2>2. DOMAIN data = 1 .. n
    BY <1>3
  <2> HIDE DEF data
  <2> QED
    BY <1>3, <1>4, <2>1, <2>2, <1>6 DEF IsAnswer
<1>7. CASE ExtractMatchList(CurrentMatchesBody(list)) = <<>>
  BY <1>7 DEF IsAnswer
<1> QED
  BY <1>2, <1>6, <1>7

-----------------------------------------------------------------------------
(* What every state keeps. *)

(* The three lists are lists of normalised matches, the last of them that of the
   last answer; the mock holds fixtures, and with the mock the last answer is its. *)
ListsInv ==
  /\ IsAnswer(body) /\ third = MatchesOf(body)
  /\ Listed(first) /\ Listed(second)
  /\ anchor \in 0 .. MaxTicks
  /\ MockOf(mock)

(* The last answer has the external shape, and the last list is what normalisation
   makes of it, whichever provider answers and however long the mock has gone on. *)
THEOREM ListsWellFormed == Spec => []ListsInv
<1>1. ASSUME Init PROVE ListsInv
  <2>1. MockOf(Matches)
    <3>1. Matches \in Seq(Range(Matches))
      BY FixtureAssumption
    <3>2. Len(Matches) \in Nat /\ Matches \in [1 .. Len(Matches) -> Range(Matches)]
      BY <3>1, LenProperties
    <3> QED
      BY <3>2, FixtureAssumption DEF MockOf
  <2>2. IsAnswer(body)
    BY <1>1, <2>1, MockAnswers, BodiesAssumption DEF Init
  <2> QED
    BY <1>1, <2>1, <2>2, PolledList, GainsAssumption DEF Init, ListsInv
<1>2. ASSUME ListsInv, [Next]_vars PROVE ListsInv'
  <2>1. CASE HttpPoll
    <3>1. PICK answer \in Bodies : Polled(answer)
      BY <2>1 DEF HttpPoll
    <3>2. IsAnswer(answer)
      BY BodiesAssumption
    <3> QED
      BY <1>2, <2>1, <3>1, <3>2, PolledList DEF ListsInv, HttpPoll, Polled, mockVars
  <2>2. ASSUME MockServes PROVE anchor' \in 0 .. MaxTicks /\ MockOf(mock')
    <3>1. anchor' \in 0 .. MaxTicks /\ anchor' - anchor \in 0 .. MaxTicks
      <4>1. anchor \in 0 .. MaxTicks /\ anchor' \in anchor .. MaxTicks
        BY <1>2, <2>2 DEF ListsInv, MockServes
      <4>2. MaxTicks \in Nat
        BY GainsAssumption
      <4>3. ASSUME NEW x \in 0 .. MaxTicks, NEW y \in x .. MaxTicks
            PROVE  y \in 0 .. MaxTicks /\ y - x \in 0 .. MaxTicks
        BY <4>2
      <4> QED
        BY <4>1, <4>3
    <3> QED
      BY <1>2, <2>2, <3>1, EvolvedFixtures DEF ListsInv, MockServes
  <2>3. CASE GetCurrentMatches
    <3>1. MockOf(mock') /\ anchor' \in 0 .. MaxTicks
      BY <2>2, <2>3 DEF GetCurrentMatches
    <3>2. IsAnswer(body') /\ third' = MatchesOf(body')
      BY <2>3, <3>1, MockAnswers DEF GetCurrentMatches, Polled
    <3> QED
      BY <1>2, <2>3, <3>1, <3>2, PolledList DEF ListsInv, GetCurrentMatches, Polled
  <2>4. CASE GetMatchInfo
    BY <1>2, <2>2, <2>4 DEF ListsInv, GetMatchInfo, lists
  <2>5. CASE MockFails
    BY <1>2, <2>5 DEF ListsInv, MockFails, lists
  <2>6. CASE UNCHANGED vars
    BY <1>2, <2>6 DEF ListsInv, vars, lists, mockVars
  <2> QED
    BY <1>2, <2>1, <2>3, <2>4, <2>5, <2>6 DEF Next
<1> QED
  BY <1>1, <1>2, PTL DEF Spec

-----------------------------------------------------------------------------
(* What the events of two polls say. *)

(* An absent value is not a function, and so neither a record nor a list. *)
NullIsNoFunction == \A f : f = [x \in DOMAIN f |-> f[x]] => f # Null

(* The events of one name are those of the one part of deriveMatchEvents. *)
LEMMA NamedEvents ==
  ASSUME NEW before, NEW after
  PROVE  LET changes == DiffMatches(before, after) IN
         /\ Named(EventsOf(before, after), "matchStarted") = MatchStarted(changes)
         /\ Named(EventsOf(before, after), "wicketFallen") = WicketFallen(changes)
         /\ Named(EventsOf(before, after), "milestoneReached") = MilestoneReached(changes)
<1> DEFINE changes == DiffMatches(before, after)
<1>1. \A e \in MatchStarted(changes) : e.name = "matchStarted"
  BY DEF MatchStarted
<1>2. \A e \in WicketFallen(changes) : e.name = "wicketFallen"
  BY DEF WicketFallen
<1>3. \A e \in MilestoneReached(changes) : e.name = "milestoneReached"
  BY DEF MilestoneReached
<1>4. EventsOf(before, after)
        = MatchStarted(changes) \cup WicketFallen(changes) \cup MilestoneReached(changes)
  BY DEF EventsOf, DeriveMatchEvents
<1> HIDE DEF changes
<1> QED
  BY <1>1, <1>2, <1>3, <1>4 DEF Named, changes

(* matchStarted is announced of the matches that went live, of all and of no others. *)
THEOREM StartedEvents == ASSUME NullIsNoFunction PROVE Spec => []StartedMeansWentLive
<1>1. ASSUME NEW raw PROVE NormalizeMatch(raw) # Null
  <2> DEFINE f == NormalizeMatch(raw)
  <2>1. f = [x \in DOMAIN f |-> f[x]]
    BY DEF NormalizeMatch
  <2> HIDE DEF f
  <2>2. f # Null
    BY <2>1 DEF NullIsNoFunction
  <2> QED
    BY <2>2 DEF f
<1>2. ASSUME ListsInv PROVE StartedMeansWentLive
  <2>1. Listed(third)
    BY <1>2, PolledList DEF ListsInv
  <2>2. \A id \in DOMAIN MatchesById(third) : MatchesById(third)[id] # Null
    BY <1>1, <2>1, EntryOfTable DEF Listed, FiguredList
  <2> DEFINE started == MatchStarted(DiffMatches(second, third))
             was == MatchesById(second)
             is == MatchesById(third)
  <2>3. Named(EventsOf(second, third), "matchStarted") = started
    BY NamedEvents
  <2>4. \A id : (\E e \in started : e.matchId = id)
               <=> /\ id \in DOMAIN is /\ is[id].status = "live"
                   /\ id \in DOMAIN was => was[id].status # "live"
    BY <2>2, StartedIff
  <2> DEFINE went(id) == /\ is[id].status = "live"
                         /\ id \in DOMAIN was => was[id].status # "live"
             names == {e.matchId : e \in started}
             live == {id \in DOMAIN is : went(id)}
  <2>5. \A id : (\E e \in started : e.matchId = id) <=> id \in DOMAIN is /\ went(id)
    BY <2>4
  <2> HIDE DEF started, went, was, is
  <2>6. \A id : id \in names <=> \E e \in started : e.matchId = id
    OBVIOUS
  <2>7. \A id : id \in live <=> id \in DOMAIN is /\ went(id)
    OBVIOUS
  <2>8. names = live
    <3> HIDE DEF names, live
    <3> QED
      BY <2>5, <2>6, <2>7
  <2> QED
    BY <2>3, <2>8, Zenon DEF StartedMeansWentLive, went, was, is
<1> QED
  BY <1>2, ListsWellFormed, PTL

(* A subscriber hears of as many wickets as a team has more of. *)
LEMMA DeltaIs ==
  ASSUME NEW before, NEW after, FiguredList(before), FiguredList(after),
         NEW id \in Both(before, after), NEW t
  PROVE  Delta(before, after, id, t)
         = IF t \in TeamsOf(after, id) /\ WicketsIs(after, id, t) > WicketsWas(before, id, t)
           THEN WicketsIs(after, id, t) - WicketsWas(before, id, t) ELSE 0
<1> DEFINE event(i, u) == [name |-> "wicketFallen", matchId |-> i, teamName |-> u,
                           wickets |-> WicketsIs(after, i, u),
                           delta |-> WicketsIs(after, i, u) - WicketsWas(before, i, u)]
           fallen == WicketFallen(DiffMatches(before, after))
           found == {e \in fallen : e.matchId = id /\ e.teamName = t}
<1>1. Delta(before, after, id, t) = IF found = {} THEN 0 ELSE (CHOOSE e \in found : TRUE).delta
  <2> DEFINE named == {e \in Named(EventsOf(before, after), "wicketFallen") :
                         e.matchId = id /\ e.teamName = t}
  <2>1. Delta(before, after, id, t) = IF named = {} THEN 0 ELSE (CHOOSE e \in named : TRUE).delta
    BY Zenon DEF Delta
  <2>2. named = found
    <3>1. Named(EventsOf(before, after), "wicketFallen") = fallen
      BY NamedEvents
    <3> HIDE DEF fallen
    <3> QED
      BY <3>1, Zenon
  <2> HIDE DEF named, found
  <2> QED
    BY <2>1, <2>2, Zenon
<1>2. \A e : e \in fallen <=> \E i \in Both(before, after) : \E u \in TeamsOf(after, i) :
                             /\ WicketsIs(after, i, u) > WicketsWas(before, i, u)
                             /\ e = event(i, u)
  BY WicketFallenIff
<1>3. \A i, u : event(i, u).matchId = i /\ event(i, u).teamName = u
              /\ event(i, u).delta = WicketsIs(after, i, u) - WicketsWas(before, i, u)
  OBVIOUS
<1> HIDE DEF event, fallen
<1>4. CASE t \in TeamsOf(after, id) /\ WicketsIs(after, id, t) > WicketsWas(before, id, t)
  <2>1. event(id, t) \in found
    BY <1>2, <1>3, <1>4
  <2>2. \A e \in found : e = event(id, t)
    BY <1>2, <1>3
  <2>3. (CHOOSE e \in found : TRUE) = event(id, t)
    BY <2>1, <2>2
  <2> QED
    BY <1>1, <1>3, <1>4, <2>1, <2>3
<1>5. CASE ~(t \in TeamsOf(after, id) /\ WicketsIs(after, id, t) > WicketsWas(before, id, t))
  <2>1. found = {}
    BY <1>2, <1>3, <1>5
  <2> QED
    BY <1>1, <1>5, <2>1
<1> QED
  BY <1>4, <1>5

(* A growing match is in all three lists, with teams and figures that only grow. *)
LEMMA GrowingFigures ==
  ASSUME ListsInv, NEW id, Growing(id), NEW t
  PROVE  /\ FiguredList(first) /\ FiguredList(second) /\ FiguredList(third)
         /\ id \in Both(first, second) /\ id \in Both(second, third) /\ id \in Both(first, third)
         /\ \A list \in {first, second, third} :
              /\ RunsWas(list, id, t) \in Nat /\ WicketsWas(list, id, t) \in Nat
              /\ t \in TeamsOf(list, id) => /\ RunsIs(list, id, t) = RunsWas(list, id, t)
                                            /\ WicketsIs(list, id, t) = WicketsWas(list, id, t)
              /\ t \notin TeamsOf(list, id) => RunsWas(list, id, t) = 0 /\ WicketsWas(list, id, t) = 0
         /\ RunsWas(first, id, t) <= RunsWas(second, id, t)
         /\ WicketsWas(first, id, t) <= WicketsWas(second, id, t)
         /\ t \in TeamsOf(first, id) => t \in TeamsOf(second, id)
         /\ t \in TeamsOf(second, id) => t \in TeamsOf(third, id)
         /\ RunsWas(second, id, t) <= RunsWas(third, id, t)
         /\ WicketsWas(second, id, t) <= WicketsWas(third, id, t)
<1>1. FiguredList(first) /\ FiguredList(second) /\ FiguredList(third)
  BY PolledList DEF ListsInv, Listed
<1>2. id \in Both(first, second) /\ id \in Both(second, third) /\ id \in Both(first, third)
  BY DEF Growing, Both
<1>3. ASSUME NEW list \in {first, second, third}
      PROVE  /\ RunsWas(list, id, t) \in Nat /\ WicketsWas(list, id, t) \in Nat
             /\ t \in TeamsOf(list, id) => /\ RunsIs(list, id, t) = RunsWas(list, id, t)
                                           /\ WicketsIs(list, id, t) = WicketsWas(list, id, t)
             /\ t \notin TeamsOf(list, id) => RunsWas(list, id, t) = 0 /\ WicketsWas(list, id, t) = 0
  <2>1. FiguredList(list) /\ id \in DOMAIN MatchesById(list)
    BY <1>1, <1>2, <1>3 DEF Both
  <2>2. Figured(MatchesById(list)[id])
    BY <2>1, FiguredTable
  <2> DEFINE x == MatchesById(list)[id]
  <2> HIDE DEF x
  <2>3. /\ DOMAIN WicketsOf(x) = DOMAIN RunsOf(x)
        /\ Known(RunsOf(x), t) \in Nat /\ Known(WicketsOf(x), t) \in Nat
    BY <2>2, FiguresType DEF x
  <2> QED
    BY <2>3 DEF x, RunsWas, WicketsWas, RunsIs, WicketsIs, TeamsOf, Known
<1>4. ASSUME NEW x, NEW y, Figured(x), Figured(y),
             \A u \in DOMAIN RunsOf(x) : /\ u \in DOMAIN RunsOf(y)
                                         /\ RunsOf(x)[u] <= RunsOf(y)[u]
                                         /\ WicketsOf(x)[u] <= WicketsOf(y)[u]
      PROVE  /\ t \in DOMAIN RunsOf(x) => t \in DOMAIN RunsOf(y)
             /\ Known(RunsOf(x), t) <= Known(RunsOf(y), t)
             /\ Known(WicketsOf(x), t) <= Known(WicketsOf(y), t)
  <2>1. /\ DOMAIN WicketsOf(x) = DOMAIN RunsOf(x) /\ DOMAIN WicketsOf(y) = DOMAIN RunsOf(y)
        /\ Known(RunsOf(y), t) \in Nat /\ Known(WicketsOf(y), t) \in Nat
    BY <1>4, FiguresType
  <2> QED
    BY <1>4, <2>1 DEF Known
<1>5. /\ Figured(MatchesById(first)[id]) /\ Figured(MatchesById(second)[id])
      /\ Figured(MatchesById(third)[id])
  BY <1>1, <1>2, FiguredTable DEF Both
<1>6. /\ t \in TeamsOf(first, id) => t \in TeamsOf(second, id)
      /\ RunsWas(first, id, t) <= RunsWas(second, id, t)
      /\ WicketsWas(first, id, t) <= WicketsWas(second, id, t)
  BY <1>4, <1>5 DEF Growing, RunsWas, WicketsWas, TeamsOf
<1>7. /\ t \in TeamsOf(second, id) => t \in TeamsOf(third, id)
      /\ RunsWas(second, id, t) <= RunsWas(third, id, t)
      /\ WicketsWas(second, id, t) <= WicketsWas(third, id, t)
  BY <1>4, <1>5 DEF Growing, RunsWas, WicketsWas, TeamsOf
<1> QED
  BY <1>1, <1>2, <1>3, <1>6, <1>7

(* Of a growing match, the two deltas of a team add up to that of the two polls taken
   as one: a poll that is skipped loses no wicket. *)
THEOREM DeltasSum == Spec => []DeltasAddUp
<1>1. ASSUME ListsInv PROVE DeltasAddUp
  <2>1. SUFFICES ASSUME NEW id \in DOMAIN MatchesById(third), Growing(id), NEW t \in Teams(id)
                 PROVE  Delta(first, third, id, t)
                          = Delta(first, second, id, t) + Delta(second, third, id, t)
    BY DEF DeltasAddUp
  <2> DEFINE a == WicketsWas(first, id, t)
             b == WicketsWas(second, id, t)
             c == WicketsWas(third, id, t)
  <2>2. t \in TeamsOf(third, id)
    BY <2>1 DEF Teams, TeamsOf
  <2>3. a \in Nat /\ b \in Nat /\ c \in Nat /\ a <= b /\ b <= c
    BY <1>1, <2>1, GrowingFigures
  <2>4. WicketsIs(third, id, t) = c
    BY <1>1, <2>1, <2>2, GrowingFigures
  <2>5. t \in TeamsOf(second, id) => WicketsIs(second, id, t) = b
    BY <1>1, <2>1, GrowingFigures
  <2>6. t \notin TeamsOf(second, id) => b = 0
    BY <1>1, <2>1, GrowingFigures
  <2>7. Delta(first, third, id, t) = IF c > a THEN c - a ELSE 0
    BY <1>1, <2>1, <2>2, <2>4, GrowingFigures, DeltaIs
  <2>8. Delta(second, third, id, t) = IF c > b THEN c - b ELSE 0
    BY <1>1, <2>1, <2>2, <2>4, GrowingFigures, DeltaIs
  <2>9. Delta(first, second, id, t)
          = IF t \in TeamsOf(second, id) /\ WicketsIs(second, id, t) > a
            THEN WicketsIs(second, id, t) - a ELSE 0
    BY <1>1, <2>1, GrowingFigures, DeltaIs
  <2> HIDE DEF a, b, c
  <2>10. Delta(first, second, id, t) = IF b > a THEN b - a ELSE 0
    BY <2>3, <2>5, <2>6, <2>9
  <2> QED
    BY <2>3, <2>7, <2>8, <2>10
<1> QED
  BY <1>1, ListsWellFormed, PTL

(* The milestones a comparison reports are those passed. *)
LEMMA MilestonesAre ==
  ASSUME NEW before, NEW after, FiguredList(before), FiguredList(after),
         NEW id \in Both(before, after), NEW x
  PROVE  x \in Milestones(before, after, id)
         <=> \E t \in TeamsOf(after, id) :
               Passes(before, after, id, t) /\ x = <<t, MilestoneOf(RunsIs(after, id, t))>>
<1> DEFINE event(i, t) == [name |-> "milestoneReached", matchId |-> i, teamName |-> t,
                           runs |-> RunsIs(after, i, t),
                           milestone |-> MilestoneOf(RunsIs(after, i, t))]
           reached == MilestoneReached(DiffMatches(before, after))
<1>1. x \in Milestones(before, after, id)
      <=> \E e \in reached : e.matchId = id /\ x = <<e.teamName, e.milestone>>
  BY NamedEvents DEF Milestones
<1>2. \A e : e \in reached <=> \E i \in Both(before, after) : \E t \in TeamsOf(after, i) :
                              Passes(before, after, i, t) /\ e = event(i, t)
  BY MilestoneReachedIff
<1>3. \A i, t : event(i, t).matchId = i /\ event(i, t).teamName = t
              /\ event(i, t).milestone = MilestoneOf(RunsIs(after, i, t))
  OBVIOUS
<1> HIDE DEF event, reached
<1> QED
  BY <1>1, <1>2, <1>3

(* A growing match passes a milestone once, and one that the two polls taken as one
   report is reported by one of them. *)
THEOREM MilestonesReportedOnce == Spec => []MilestonesOnce
<1>1. ASSUME ListsInv PROVE MilestonesOnce
  <2>1. SUFFICES ASSUME NEW id \in DOMAIN MatchesById(third), Growing(id)
                 PROVE  /\ Milestones(first, second, id) \cap Milestones(second, third, id) = {}
                        /\ Milestones(first, third, id)
                             \subseteq Milestones(first, second, id) \cup Milestones(second, third, id)
    BY DEF MilestonesOnce
  <2>2. ASSUME NEW x \in Milestones(first, second, id), x \in Milestones(second, third, id)
        PROVE  FALSE
    <3>1. PICK t \in TeamsOf(second, id) : x = <<t, MilestoneOf(RunsIs(second, id, t))>>
      BY <1>1, <2>1, <2>2, GrowingFigures, MilestonesAre
    <3>2. PICK u \in TeamsOf(third, id) :
            Passes(second, third, id, u) /\ x = <<u, MilestoneOf(RunsIs(third, id, u))>>
      BY <1>1, <2>1, <2>2, GrowingFigures, MilestonesAre
    <3>3. t = u /\ MilestoneOf(RunsIs(second, id, t)) = MilestoneOf(RunsIs(third, id, t))
      BY <3>1, <3>2
    <3>4. /\ RunsIs(second, id, t) = RunsWas(second, id, t) /\ RunsIs(second, id, t) \in Nat
          /\ RunsIs(third, id, t) \in Nat
      BY <1>1, <2>1, <3>1, <3>2, <3>3, GrowingFigures
    <3>5. RunsIs(second, id, t) \div MilestoneStep = RunsIs(third, id, t) \div MilestoneStep
      BY <3>3, <3>4, MilestoneOrder
    <3>6. /\ RunsIs(second, id, t) \div MilestoneStep < RunsIs(third, id, t) \div MilestoneStep
          /\ RunsIs(third, id, t) \div MilestoneStep \in Nat
      BY <3>2, <3>3, <3>4, MilestoneOrder DEF Passes
    <3> QED
      BY <3>5, <3>6
  <2>3. ASSUME NEW x \in Milestones(first, third, id)
        PROVE  x \in Milestones(first, second, id) \/ x \in Milestones(second, third, id)
    <3>1. PICK t \in TeamsOf(third, id) :
            Passes(first, third, id, t) /\ x = <<t, MilestoneOf(RunsIs(third, id, t))>>
      BY <1>1, <2>1, <2>3, GrowingFigures, MilestonesAre
    <3> DEFINE a == RunsWas(first, id, t)
               b == RunsWas(second, id, t)
               c == RunsIs(third, id, t)
    <3>2. a \in Nat /\ b \in Nat /\ c \in Nat /\ a <= b /\ b <= c
      BY <1>1, <2>1, <3>1, GrowingFigures
    <3>3. t \notin TeamsOf(second, id) => b = 0
      BY <1>1, <2>1, GrowingFigures
    <3>4. t \in TeamsOf(second, id) => RunsIs(second, id, t) = b
      BY <1>1, <2>1, GrowingFigures
    <3>5. MilestoneOf(c) >= MilestoneStep /\ a \div MilestoneStep < c \div MilestoneStep
      BY <3>1 DEF Passes
    <3> HIDE DEF a, b, c
    <3>6. /\ a \div MilestoneStep \in Nat /\ b \div MilestoneStep \in Nat
          /\ c \div MilestoneStep \in Nat
          /\ a \div MilestoneStep <= b \div MilestoneStep
          /\ b \div MilestoneStep <= c \div MilestoneStep
      BY <3>2, MilestoneOrder
    <3>7. CASE b \div MilestoneStep < c \div MilestoneStep
      <4>1. Passes(second, third, id, t)
        BY <3>5, <3>7 DEF Passes, b, c
      <4> QED
        BY <1>1, <2>1, <3>1, <4>1, GrowingFigures, MilestonesAre
    <3>8. CASE ~(b \div MilestoneStep < c \div MilestoneStep)
      <4>1. b \div MilestoneStep = c \div MilestoneStep
        BY <3>6, <3>8
      <4>2. MilestoneOf(b) = MilestoneOf(c)
        BY <3>2, <4>1, MilestoneOrder
      <4>3. t \in TeamsOf(second, id)
        <5>1. b # 0
          BY <3>2, <3>5, <3>6, <4>1
        <5> QED
          BY <3>3, <5>1
      <4>4. RunsIs(second, id, t) = b
        BY <3>4, <4>3
      <4>5. Passes(first, second, id, t)
        BY <3>5, <4>1, <4>2, <4>4 DEF Passes, a
      <4>6. x = <<t, MilestoneOf(RunsIs(second, id, t))>>
        BY <3>1, <4>2, <4>4 DEF c
      <4> QED
        BY <1>1, <2>1, <4>3, <4>5, <4>6, GrowingFigures, MilestonesAre
    <3> QED
      BY <3>7, <3>8
  <2> QED
    BY <2>2, <2>3
<1> QED
  BY <1>1, ListsWellFormed, PTL

-----------------------------------------------------------------------------
(* Whose an innings is. *)

(* A name is the beginning of the labels made of it, and of no shorter one. *)
LEMMA LabelPrefix ==
  ASSUME NEW name, IsName(name), NEW word
  PROVE  IsPrefix(name, Append(name, word))
<1> DEFINE S == Range(name) \cup {word}
           longer == Append(name, word)
           n == Len(name)
<1>1. name \in Seq(S)
  BY SeqMonotonic DEF IsName
<1>2. /\ longer \in Seq(S) /\ Len(longer) = n + 1 /\ n \in Nat
      /\ \A i \in 1 .. n : longer[i] = name[i]
  BY <1>1, AppendProperties, LenProperties
<1>3. SubSeq(name, 1, n) = name
  BY <1>1, SubSeqFull
<1> HIDE DEF longer, n
<1>4. \A i \in 1 .. n : longer[i] \in S
  BY <1>1, <1>2, ElementOfSeq DEF n
<1>5. /\ SubSeq(longer, 1, n) \in Seq(S) /\ Len(SubSeq(longer, 1, n)) = n
      /\ \A i \in 1 .. n : SubSeq(longer, 1, n)[i] = longer[i]
  <2>1. /\ SubSeq(longer, 1, n) \in Seq(S)
        /\ Len(SubSeq(longer, 1, n)) = IF 1 <= n THEN n - 1 + 1 ELSE 0
        /\ \A i \in 1 .. n - 1 + 1 : SubSeq(longer, 1, n)[i] = longer[1 + i - 1]
    BY <1>2, <1>4, SubSeqProperties
  <2> QED
    BY <1>2, <2>1
<1>6. SubSeq(longer, 1, n) = name
  BY <1>1, <1>2, <1>5, SeqEqual DEF n
<1>7. n <= Len(longer)
  BY <1>2
<1> QED
  BY <1>3, <1>6, <1>7 DEF IsPrefix, n, longer

(* What a label says but for its last word is how it begins. *)
LEMMA FrontPrefix ==
  ASSUME NEW label, IsName(label), label # <<>>
  PROVE  IsPrefix(Front(label), label)
<1> DEFINE S == Range(label)
           n == Len(label) - 1
<1>1. label \in Seq(S) /\ Len(label) \in Nat /\ n \in Nat
  BY EmptySeq, LenProperties DEF IsName
<1>2. \A i \in 1 .. n : label[i] \in S
  BY <1>1, ElementOfSeq
<1>3. SubSeq(label, 1, n) \in Seq(S) /\ Len(SubSeq(label, 1, n)) = n
  <2> HIDE DEF n
  <2>1. /\ SubSeq(label, 1, n) \in Seq(S)
        /\ Len(SubSeq(label, 1, n)) = IF 1 <= n THEN n - 1 + 1 ELSE 0
    BY <1>1, <1>2, SubSeqProperties
  <2> QED
    BY <1>1, <2>1
<1>4. SubSeq(SubSeq(label, 1, n), 1, n) = SubSeq(label, 1, n)
  BY <1>3, SubSeqFull
<1>5. n <= Len(label)
  BY <1>1
<1> QED
  BY <1>3, <1>4, <1>5 DEF Front, IsPrefix

(* There are two teams, or two absent names. *)
LEMMA TwoTeams ==
  ASSUME NEW raw
  PROVE  DOMAIN NormalizeTeams(raw) = 1 .. 2
<1>1. ASSUME NEW s PROVE DOMAIN SubSeq(s, 1, 2) = 1 .. 2
  <2> DEFINE S == {s[1], s[2]}
  <2>1. \A i \in 1 .. 2 : s[i] \in S
    <3>1. s[1] \in S /\ s[2] \in S
      OBVIOUS
    <3>2. \A i \in 1 .. 2 : i = 1 \/ i = 2
      OBVIOUS
    <3> HIDE DEF S
    <3> QED
      BY <3>1, <3>2
  <2> HIDE DEF S
  <2>2. /\ SubSeq(s, 1, 2) \in Seq(S)
        /\ Len(SubSeq(s, 1, 2)) = IF 1 <= 2 THEN 2 - 1 + 1 ELSE 0
    BY <2>1, SubSeqProperties
  <2>3. Len(SubSeq(s, 1, 2)) = 2
    BY <2>2
  <2>4. DOMAIN SubSeq(s, 1, 2) = 1 .. Len(SubSeq(s, 1, 2))
    BY <2>2, LenProperties
  <2> QED
    BY <2>3, <2>4, Zenon
<1>2. DOMAIN <<Null, Null>> = 1 .. 2
  OBVIOUS
<1> QED
  BY <1>1, <1>2 DEF NormalizeTeams

FirstNamed(label, teams, name) ==
  /\ DOMAIN teams = 1 .. 2 /\ name \notin {Null, <<>>} /\ IsPrefix(name, label)
  /\ \E k \in 1 .. 2 : name = teams[k] /\ (k = 2 => ~IsPrefix(teams[1], label))

(* An innings is the team's that its label begins with, the first such team's. *)
LEMMA OwnerOfLabel ==
  ASSUME NEW raw, NEW teams, NEW i, NEW name, FirstNamed(raw.score[i].inning, teams, name)
  PROVE  TeamOfInnings(raw, teams, i) = name
<1>0. PICK k \in 1 .. 2 : /\ name = teams[k]
                          /\ k = 2 => ~IsPrefix(teams[1], raw.score[i].inning)
  BY DEF FirstNamed
<1> DEFINE S == TeamsByName(raw, teams, i)
<1>1. k \in S /\ k \in 1 .. 2
  BY <1>0 DEF FirstNamed, TeamsByName
<1>2. \A l \in S : l \in 1 .. 2 /\ IsPrefix(teams[l], raw.score[i].inning)
  BY DEF FirstNamed, TeamsByName
<1> HIDE DEF S
<1>3. \A l \in S : l \in 1 .. 2 /\ k <= l
  BY <1>0, <1>2
<1>4. Min(S) = k
  <2>1. \E x \in S : \A y \in S : x <= y
    BY <1>1, <1>3
  <2>2. Min(S) \in S /\ \A y \in S : Min(S) <= y
    BY <2>1 DEF Min
  <2>3. Min(S) \in 1 .. 2 /\ Min(S) <= k /\ k <= Min(S)
    BY <1>1, <1>3, <2>2
  <2> QED
    BY <1>1, <2>3
<1> QED
  BY <1>0, <1>1, <1>4 DEF TeamOfInnings, S

Owners(raw) == [j \in DOMAIN raw.score |-> TeamOfInnings(raw, NormalizeTeams(raw), j)]

CreditsLast(raw, owner, score) ==
  /\ DOMAIN score = {owner[j] : j \in DOMAIN raw.score}
  /\ score = [t \in DOMAIN score |-> score[t]]
  /\ \A j \in DOMAIN raw.score :
       (\A k \in DOMAIN raw.score : k > j => owner[k] # owner[j]) =>
         score[owner[j]]
           = [runs |-> OrZero(raw.score[j].r), wkts |-> OrZero(raw.score[j].w)]

(* A score is of the teams that own an innings, each with the figures of its last one. *)
LEMMA ScoreOfOwners ==
  ASSUME NEW raw, IsRaw(raw), raw.score # <<>>,
         NEW owner, owner = Owners(raw), NEW score, score = NormalizeMatch(raw).score
  PROVE  CreditsLast(raw, owner, score)
<1> DEFINE at(t) == Max({j \in DOMAIN owner : owner[j] = t})
           figures(j) == [runs |-> OrZero(raw.score[j].r), wkts |-> OrZero(raw.score[j].w)]
<1>1. score = [t \in Range(owner) |-> figures(at(t))]
  BY DEF NormalizeMatch, NormalizeScore, Owners
<1>2. DOMAIN owner = DOMAIN raw.score
  BY DEF Owners
<1>3. PICK n \in Nat : DOMAIN raw.score = 1 .. n
  BY DEF IsRaw
<1>4. ASSUME NEW j \in DOMAIN raw.score, \A k \in DOMAIN raw.score : k > j => owner[k] # owner[j]
      PROVE  at(owner[j]) = j
  <2> DEFINE S == {k \in DOMAIN owner : owner[k] = owner[j]}
  <2>1. j \in S /\ S \in SUBSET (1 .. n)
    BY <1>2, <1>3, <1>4
  <2>2. Max(S) \in S /\ \A x \in S : x <= Max(S)
    BY <1>3, <2>1, MaxOfPositions
  <2>3. Max(S) \in DOMAIN raw.score /\ owner[Max(S)] = owner[j]
    BY <1>2, <2>2
  <2>4. ~(Max(S) > j)
    BY <1>4, <2>3
  <2>5. j <= Max(S) /\ j \in Nat /\ Max(S) \in Nat
    BY <1>3, <1>4, <2>1, <2>2, <2>3
  <2> HIDE DEF S
  <2>6. Max(S) = j
    BY <2>4, <2>5
  <2> QED
    BY <2>6 DEF S
<1>5. DOMAIN score = {owner[j] : j \in DOMAIN raw.score}
  BY <1>1, <1>2 DEF Range
<1>6. \A t \in Range(owner) : score[t] = figures(at(t))
  BY <1>1
<1>7. \A j \in DOMAIN raw.score : owner[j] \in Range(owner)
  BY <1>2 DEF Range
<1>8. score = [t \in DOMAIN score |-> score[t]]
  BY <1>1
<1>9. \A j \in DOMAIN raw.score :
        (\A k \in DOMAIN raw.score : k > j => owner[k] # owner[j]) => score[owner[j]] = figures(j)
  <2> HIDE DEF at, figures
  <2> QED
    BY <1>4, <1>6, <1>7
<1> QED
  BY <1>5, <1>8, <1>9 DEF CreditsLast

(* Innings whose labels name the match's teams are credited to the teams they name. *)
LEMMA NormalizedKeepTeams ==
  ASSUME NEW raw, IsRaw(raw)
  PROVE  TeamsKept(raw, NormalizeMatch(raw))
<1> DEFINE teams == NormalizeTeams(raw)
           names == [j \in DOMAIN raw.score |->
                       IF raw.score[j].inning = <<>> THEN <<>> ELSE Front(raw.score[j].inning)]
           score == NormalizeMatch(raw).score
           owner == Owners(raw)
<1>1. NormalizeMatch(raw).teams = teams
  BY DEF NormalizeMatch
<1>2. SUFFICES ASSUME Range(names) \subseteq Range(teams),
                      {Null, <<>>} \cap Range(teams) = {},
                      \A j \in DOMAIN names :
                        names[j] # teams[1] => ~IsPrefix(teams[1], raw.score[j].inning),
                      raw.score # <<>>
               PROVE  /\ DOMAIN score = Range(names)
                      /\ \A j \in DOMAIN names :
                           (\A k \in DOMAIN names : k > j => names[k] # names[j]) =>
                             score[names[j]]
                               = [runs |-> OrZero(raw.score[j].r), wkts |-> OrZero(raw.score[j].w)]
  BY <1>1, Zenon DEF TeamsKept
<1>3. DOMAIN teams = 1 .. 2
  BY TwoTeams
<1>4. ASSUME NEW j \in DOMAIN raw.score PROVE owner[j] = names[j]
  <2> DEFINE label == raw.score[j].inning
  <2>1. names[j] \in Range(teams) /\ names[j] \notin {Null, <<>>}
    BY <1>2, <1>4 DEF Range
  <2>2. label # <<>> /\ names[j] = Front(label)
    BY <1>2, <1>4, <2>1
  <2>3. IsPrefix(names[j], label)
    BY <1>4, <2>2, FrontPrefix DEF IsRaw
  <2>4. PICK k \in 1 .. 2 : names[j] = teams[k]
    BY <1>3, <2>1 DEF Range
  <2>5. owner[j] = TeamOfInnings(raw, teams, j)
    BY <1>4 DEF Owners
  <2>6. names[j] # teams[1] => ~IsPrefix(teams[1], label) /\ k = 2
    BY <1>2, <1>4, <2>4
  <2> HIDE DEF label, names, teams
  <2>7. CASE names[j] = teams[1]
    <3>1. FirstNamed(label, teams, names[j])
      BY <1>3, <2>1, <2>3, <2>7 DEF FirstNamed
    <3>2. TeamOfInnings(raw, teams, j) = names[j]
      BY <3>1, OwnerOfLabel DEF label
    <3> QED
      BY <2>5, <2>7, <3>2
  <2>8. CASE names[j] # teams[1]
    <3>1. teams[k] \notin {Null, <<>>} /\ IsPrefix(teams[k], label)
      BY <2>1, <2>3, <2>4
    <3>2. ~IsPrefix(teams[1], label)
      BY <2>6, <2>8
    <3>3. FirstNamed(label, teams, names[j])
      BY <2>1, <2>3, <2>4, <1>3, <3>1, <3>2 DEF FirstNamed
    <3>4. TeamOfInnings(raw, teams, j) = names[j]
      BY <3>3, OwnerOfLabel DEF label
    <3> QED
      BY <2>4, <2>5, <3>4
  <2> QED
    BY <2>7, <2>8
<1>5. DOMAIN names = DOMAIN raw.score /\ owner = names
  BY <1>4 DEF Owners
<1>6. CreditsLast(raw, owner, score)
  <2>1. raw.score # <<>>
    BY <1>2
  <2>2. owner = Owners(raw) /\ score = NormalizeMatch(raw).score
    OBVIOUS
  <2> HIDE DEF owner, score, names
  <2> QED
    BY <2>1, <2>2, ScoreOfOwners
<1>7. Range(names) = {names[j] : j \in DOMAIN names}
  BY DEF Range
<1> HIDE DEF owner, names, score
<1> QED
  BY <1>5, <1>6, <1>7 DEF CreditsLast

(* Every match of a poll has its innings credited to the teams their labels name. *)
THEOREM TeamsKeepInnings == Spec => []InningsKeepTheirTeam
<1>1. ASSUME ListsInv PROVE InningsKeepTheirTeam
  <2>1. /\ third = [i \in DOMAIN ExtractMatchList(body) |->
                      NormalizeMatch(ExtractMatchList(body)[i])]
        /\ \A i \in DOMAIN ExtractMatchList(body) : IsRaw(ExtractMatchList(body)[i])
    BY <1>1 DEF ListsInv, MatchesOf, IsAnswer
  <2> QED
    BY <2>1, NormalizedKeepTeams DEF InningsKeepTheirTeam
<1> QED
  BY <1>1, ListsWellFormed, PTL

-----------------------------------------------------------------------------
(* Out through toExternal and in through normalizeMatch. *)

(* The teams of a fixture have names of their own. *)
LEMMA FixtureTeams ==
  ASSUME NEW m, IsFixture(m)
  PROVE  /\ m.teams[1] # m.teams[2]
         /\ \A k \in 1 .. 2 :
              /\ m.teams[k] \notin {Null, <<>>}
              /\ IsPrefix(m.teams[k], Append(m.teams[k], "Inning 1"))
         /\ ~IsPrefix(m.teams[1], Append(m.teams[2], "Inning 1"))
<1>1. \A k \in 1 .. 2 : IsPrefix(m.teams[k], Append(m.teams[k], "Inning 1"))
  BY LabelPrefix DEF IsFixture
<1>2. ~IsPrefix(m.teams[1], Append(m.teams[2], "Inning 1"))
  BY DEF IsFixture
<1>3. 2 \in 1 .. 2
  OBVIOUS
<1>4. m.teams[1] # m.teams[2]
  <2>1. IsPrefix(m.teams[2], Append(m.teams[2], "Inning 1"))
    BY <1>1, <1>3, Zenon
  <2> QED
    BY <1>2, <2>1, Zenon
<1> QED
  BY <1>1, <1>2, <1>4 DEF IsFixture

(* Its teams, its status and its overs survive the way out and in. *)
LEMMA RoundTripFields ==
  ASSUME NullIsNoFunction, NEW m, IsFixture(m), NEW n, n = NormalizeMatch(ToExternal(m))
  PROVE  n.id = m.id /\ n.teams = m.teams /\ n.status = m.status /\ n.overs = m.overs
<1> DEFINE raw == ToExternal(m)
<1>1. raw.id = m.id /\ raw.teams = m.teams
  BY DEF ToExternal
<1>2. n.id = m.id
  BY <1>1 DEF NormalizeMatch
<1>3. n.teams = m.teams
  <2>1. PICK a, b : m.teams = <<a, b>>
    BY DEF IsFixture
  <2>2. Len(raw.teams) >= 2 /\ SubSeq(raw.teams, 1, 2) = <<a, b>>
    <3>1. Len(<<a, b>>) >= 2
      OBVIOUS
    <3>2. SubSeq(<<a, b>>, 1, Len(<<a, b>>)) = <<a, b>>
      <4>1. <<a, b>> \in Seq({a, b})
        OBVIOUS
      <4> QED
        BY <4>1, SubSeqFull
    <3>3. Len(<<a, b>>) = 2
      OBVIOUS
    <3>4. SubSeq(<<a, b>>, 1, 2) = <<a, b>>
      BY <3>2, <3>3, Zenon
    <3> QED
      BY <1>1, <2>1, <3>1, <3>4, Zenon
  <2>3. n.teams = NormalizeTeams(raw)
    BY DEF NormalizeMatch
  <2> QED
    BY <2>1, <2>2, <2>3, Zenon DEF NormalizeTeams
<1>4. n.status = m.status
  <2>1. n.status = NormalizeStatus(raw)
    BY DEF NormalizeMatch
  <2>2. m.status \in {"live", "completed", "upcoming"}
    BY DEF IsFixture
  <2>3. /\ raw.matchEnded = (m.status = "completed")
        /\ raw.matchStarted = (m.status = "completed" \/ m.status = "live")
        /\ m.status = "upcoming" => raw.status = {"upcoming"}
    BY DEF ToExternal
  <2> HIDE DEF raw
  <2> QED
    BY <2>1, <2>2, <2>3 DEF NormalizeStatus
<1>5. n.overs = m.overs
  <2> DEFINE figures == {inn.o : inn \in Range(raw.score)} \ {Null}
  <2>1. n.overs = IF figures = {} THEN Null ELSE Max(figures)
    BY DEF NormalizeMatch, NormalizeOvers
  <2>2. CASE m.score = Null
    <3>1. raw.score = <<>>
      BY <2>2, ExternalFixture
    <3>2. Range(raw.score) = {}
      BY <3>1 DEF Range
    <3>3. figures = {}
      BY <3>2, Zenon
    <3>4. \A S, T : m.score \notin [S -> T]
      <4>1. \A S, T, f : f \in [S -> T] => f = [x \in DOMAIN f |-> f[x]]
        OBVIOUS
      <4> QED
        BY <2>2, <4>1, Zenon DEF NullIsNoFunction
    <3>5. m.overs = Null
      BY <3>4 DEF IsFixture
    <3> HIDE DEF figures
    <3> QED
      BY <2>1, <3>3, <3>5
  <2>3. CASE m.score # Null
    <3>1. m.overs \in Nat /\ m.overs # Null
      BY <2>3, FixtureAssumption DEF IsFixture
    <3>2. /\ DOMAIN raw.score = 1 .. 2
          /\ \A k \in 1 .. 2 :
               raw.score[k]
                 = InningsOf(Append(m.teams[k], "Inning 1"), m.score[m.teams[k]], m.overs)
      BY <2>3, ExternalFixture
    <3> HIDE DEF raw
    <3>3. \A k \in 1 .. 2 : raw.score[k].o = m.overs
      BY <2>3, ExternalInnings DEF raw
    <3>4. Range(raw.score) = {raw.score[k] : k \in 1 .. 2}
      BY <3>2 DEF Range
    <3>5. figures = {m.overs}
      BY <3>1, <3>3, <3>4
    <3> HIDE DEF figures
    <3>6. Max({m.overs}) = m.overs
      BY <3>1 DEF Max
    <3> QED
      BY <2>1, <3>5, <3>6
  <2> QED
    BY <2>2, <2>3
<1> QED
  BY <1>2, <1>3, <1>4, <1>5

(* So does its score. *)
LEMMA RoundTripScore ==
  ASSUME NullIsNoFunction, NEW m, IsFixture(m)
  PROVE  NormalizeMatch(ToExternal(m)).score = m.score
<1> DEFINE raw == ToExternal(m)
           owner == Owners(raw)
           score == NormalizeMatch(raw).score
<1>1. CASE m.score = Null
  <2>1. raw.score = <<>>
    BY <1>1, ExternalFixture
  <2> QED
    BY <1>1, <2>1 DEF NormalizeMatch, NormalizeScore
<1>2. CASE m.score # Null
  <2>1. /\ Len(raw.score) = 2 /\ DOMAIN raw.score = 1 .. 2
        /\ \A k \in 1 .. 2 :
             raw.score[k]
               = InningsOf(Append(m.teams[k], "Inning 1"), m.score[m.teams[k]], m.overs)
    BY <1>2, ExternalFixture
  <2>2. IsRaw(raw)
    BY FixtureIsRaw
  <2>3. NormalizeTeams(raw) = m.teams
    BY RoundTripFields DEF NormalizeMatch
  <2>4. raw.score # <<>>
    <3>1. DOMAIN <<>> = {}
      OBVIOUS
    <3>2. 1 \in 1 .. 2
      OBVIOUS
    <3>3. 1 \in DOMAIN raw.score
      BY <2>1, <3>2, Zenon
    <3> QED
      BY <3>1, <3>3
  <2>5. CreditsLast(raw, owner, score)
    <3>1. owner = Owners(raw) /\ score = NormalizeMatch(raw).score
      OBVIOUS
    <3> HIDE DEF owner, score, raw
    <3> QED
      BY <2>2, <2>4, <3>1, ScoreOfOwners
  <2>6. DOMAIN m.teams = 1 .. 2
    BY <2>3, TwoTeams
  <2> HIDE DEF raw, score
  <2>7. \A k \in 1 .. 2 : /\ raw.score[k].inning = Append(m.teams[k], "Inning 1")
                          /\ raw.score[k].r = m.score[m.teams[k]].runs
                          /\ raw.score[k].w = m.score[m.teams[k]].wkts
    BY <1>2, ExternalInnings DEF raw
  <2>8. \A k \in 1 .. 2 : owner[k] = m.teams[k]
    <3>1. TAKE k \in 1 .. 2
    <3>2. IsPrefix(m.teams[k], raw.score[k].inning) /\ m.teams[k] \notin {Null, <<>>}
      BY <2>7, FixtureTeams, Zenon
    <3>3. k = 2 => ~IsPrefix(m.teams[1], raw.score[k].inning)
      <4>1. raw.score[k].inning = Append(m.teams[k], "Inning 1")
        BY <2>7
      <4> QED
        BY <4>1, FixtureTeams, Zenon
    <3>4. TeamOfInnings(raw, m.teams, k) = m.teams[k]
      <4>1. FirstNamed(raw.score[k].inning, m.teams, m.teams[k])
        BY <2>6, <3>1, <3>2, <3>3, Zenon DEF FirstNamed
      <4> QED
        BY <4>1, OwnerOfLabel
    <3> QED
      BY <2>1, <2>3, <3>4 DEF Owners
  <2>9. DOMAIN score = {m.teams[1], m.teams[2]}
    <3>1. DOMAIN score = {owner[j] : j \in 1 .. 2}
      BY <2>1, <2>5, Zenon DEF CreditsLast
    <3>2. 1 \in 1 .. 2 /\ 2 \in 1 .. 2
      OBVIOUS
    <3>3. owner[1] = m.teams[1] /\ owner[2] = m.teams[2]
      BY <2>8, <3>2, Zenon
    <3> HIDE DEF owner
    <3>4. {owner[j] : j \in 1 .. 2} = {owner[1], owner[2]}
      <4>1. \A j \in 1 .. 2 : j = 1 \/ j = 2
        OBVIOUS
      <4> QED
        BY <3>2, <4>1, Zenon
    <3> QED
      BY <3>1, <3>3, <3>4, Zenon
  <2>10. \A k \in 1 .. 2 : score[m.teams[k]] = m.score[m.teams[k]]
    <3>1. TAKE k \in 1 .. 2
    <3>2. \A j \in DOMAIN raw.score : j > k => owner[j] # owner[k]
      <4>1. SUFFICES ASSUME NEW j \in 1 .. 2, j > k PROVE owner[j] # owner[k]
        BY <2>1
      <4>2. j = 2 /\ k = 1
        BY <3>1, <4>1
      <4>3. owner[j] = m.teams[j] /\ owner[k] = m.teams[k]
        BY <2>8
      <4> QED
        BY <4>2, <4>3, FixtureTeams, Zenon
    <3>3. score[owner[k]] = [runs |-> OrZero(raw.score[k].r), wkts |-> OrZero(raw.score[k].w)]
      BY <2>1, <2>5, <3>2 DEF CreditsLast
    <3> DEFINE figures == m.score[m.teams[k]]
    <3>4. figures \in [runs : Nat, wkts : Nat]
      BY <1>2, FixtureFigures
    <3>5. raw.score[k].r = figures.runs /\ raw.score[k].w = figures.wkts
      BY <2>7
    <3> HIDE DEF figures
    <3>6. figures.runs # Null /\ figures.wkts # Null
      BY <3>4, FixtureAssumption
    <3>7. score[owner[k]] = [runs |-> figures.runs, wkts |-> figures.wkts]
      BY <3>3, <3>5, <3>6 DEF OrZero
    <3>8. figures = [runs |-> figures.runs, wkts |-> figures.wkts]
      BY <3>4
    <3> QED
      BY <2>8, <3>7, <3>8 DEF figures
  <2>11. DOMAIN m.score = {m.teams[1], m.teams[2]} /\ m.score = [t \in DOMAIN m.score |-> m.score[t]]
    BY <1>2 DEF IsFixture
  <2>12. score = [t \in DOMAIN score |-> score[t]]
    BY <2>5 DEF CreditsLast
  <2>13. \A t \in DOMAIN score : score[t] = m.score[t]
    <3>1. 1 \in 1 .. 2 /\ 2 \in 1 .. 2
      OBVIOUS
    <3>2. score[m.teams[1]] = m.score[m.teams[1]] /\ score[m.teams[2]] = m.score[m.teams[2]]
      BY <2>10, <3>1, Zenon
    <3> QED
      BY <2>9, <3>2
  <2>14. score = m.score
    BY <2>9, <2>11, <2>12, <2>13
  <2> QED
    BY <2>14 DEF score, raw
<1> QED
  BY <1>1, <1>2

(* Nothing is lost or renamed between the mock's matches and those the app sees of them,
   whatever the status and however long the matches have gone on. *)
THEOREM MockSurvives == ASSUME NullIsNoFunction PROVE Spec => []MockRoundTrip
<1>1. ASSUME NEW m, IsFixture(m) PROVE NormalizeMatch(ToExternal(m)) = m
  <2> DEFINE n == NormalizeMatch(ToExternal(m))
  <2>1. n.id = m.id /\ n.teams = m.teams /\ n.status = m.status /\ n.overs = m.overs
    BY <1>1, RoundTripFields
  <2>2. n.score = m.score
    BY <1>1, RoundTripScore
  <2>3. n = [id |-> n.id, teams |-> n.teams, status |-> n.status, overs |-> n.overs,
             score |-> n.score]
    BY DEF NormalizeMatch
  <2>4. m = [id |-> m.id, teams |-> m.teams, status |-> m.status, overs |-> m.overs,
             score |-> m.score]
    BY <1>1 DEF IsFixture
  <2> HIDE DEF n
  <2>5. n = m
    BY <2>1, <2>2, <2>3, <2>4, Zenon
  <2> QED
    BY <2>5 DEF n
<1>2. ASSUME ListsInv PROVE MockRoundTrip
  <2> DEFINE data == [i \in DOMAIN mock |-> ToExternal(mock[i])]
  <2>1. CurrentMatchesBody(mock).data = data
    BY DEF CurrentMatchesBody
  <2>2. data # Null
    <3>1. data = [i \in DOMAIN data |-> data[i]]
      OBVIOUS
    <3> HIDE DEF data
    <3> QED
      BY <3>1 DEF NullIsNoFunction
  <2>3. ExtractMatchList(CurrentMatchesBody(mock)) = data
    BY <2>1, <2>2, Zenon DEF ExtractMatchList
  <2>4. MatchesOf(CurrentMatchesBody(mock)) = [i \in DOMAIN data |-> NormalizeMatch(data[i])]
    BY <2>3, Zenon DEF MatchesOf
  <2>5. /\ mock = [i \in DOMAIN mock |-> mock[i]]
        /\ \A i \in DOMAIN mock : NormalizeMatch(data[i]) = mock[i]
    BY <1>1, <1>2 DEF ListsInv, MockOf
  <2>6. DOMAIN data = DOMAIN mock
    OBVIOUS
  <2> HIDE DEF data
  <2>7. MatchesOf(CurrentMatchesBody(mock)) = mock
    BY <2>4, <2>5, <2>6
  <2> QED
    BY <2>7 DEF MockRoundTrip
<1> QED
  BY <1>2, ListsWellFormed, PTL
=============================================================================
