--------------------------- MODULE MatchDiffProofs ---------------------------
(***************************************************************************)
(* What DiffMatches and DeriveMatchEvents compute, for any two lists: the  *)
(* facts about one comparison that the proofs about polls rest on.         *)
(***************************************************************************)
EXTENDS MatchDiff, TLAPS, WellFoundedInduction

(* A set of naturals has a least element. *)
LEMMA LeastExists ==
  ASSUME NEW T \in SUBSET Nat, T # {}
  PROVE  \E m \in T : \A x \in T : m <= x
<1> DEFINE R == OpToRel(<, Nat)
<1>1. IsWellFoundedOn(R, Nat)
  BY NatLessThanWellFounded
<1>2. \A x, y \in Nat : x < y => <<x, y>> \in R
  BY DEF OpToRel
<1> HIDE DEF R
<1>3. PICK m \in T : \A y \in T : ~(<<y, m>> \in R)
  BY <1>1, WFMin
<1>4. \A y \in T : ~(y < m)
  BY <1>2, <1>3
<1>5. \A y \in T : m <= y
  BY <1>4
<1> QED
  BY <1>5

(* A set of positions of a list has a last one. *)
LEMMA LastExists ==
  ASSUME NEW n \in Nat, NEW S \in SUBSET (1 .. n), S # {}
  PROVE  \E m \in S : \A x \in S : x <= m
<1> DEFINE T == {n - x : x \in S}
<1>1. \A x \in S : x \in Nat /\ n - x \in Nat
  OBVIOUS
<1>2. T \in SUBSET Nat
  BY <1>1
<1>3. T # {}
  OBVIOUS
<1>4. PICK m \in T : \A x \in T : m <= x
  <2> HIDE DEF T
  <2> QED
    BY <1>2, <1>3, LeastExists
<1>5. PICK s \in S : m = n - s
  BY <1>4
<1>6. \A x \in S : n - s <= n - x
  BY <1>4, <1>5
<1>7. \A x \in S : x <= s
  BY <1>1, <1>6
<1> QED
  BY <1>5, <1>7

(* The table of a list has the entries of the list, and has each under its id. *)
LEMMA EntryOfTable ==
  ASSUME NEW list, NEW n \in Nat, DOMAIN list = 1 .. n,
         NEW id \in DOMAIN MatchesById(list)
  PROVE  \E i \in DOMAIN list : list[i].id = id /\ MatchesById(list)[id] = list[i]
<1> DEFINE at(i) == list[i].id = id /\ \A j \in DOMAIN list : list[j].id = id => j <= i
           S == {i \in DOMAIN list : list[i].id = id}
<1>1. id \in {list[i].id : i \in DOMAIN list} \ {Null}
  BY DEF MatchesById
<1>2. MatchesById(list)[id] = list[CHOOSE i \in DOMAIN list : at(i)]
  BY <1>1 DEF MatchesById
<1>3. S \in SUBSET (1 .. n) /\ S # {}
  BY <1>1
<1>4. PICK last \in S : \A x \in S : x <= last
  BY <1>3, LastExists
<1>5. last \in DOMAIN list /\ at(last)
  BY <1>4
<1>6. (CHOOSE i \in DOMAIN list : at(i)) \in DOMAIN list /\ at(CHOOSE i \in DOMAIN list : at(i))
  BY <1>5
<1> QED
  BY <1>2, <1>6

-----------------------------------------------------------------------------
(* Matches whose figures are numbers. *)

Figured(match) ==
  match.score # Null =>
    \A t \in DOMAIN match.score : match.score[t].runs \in Nat /\ match.score[t].wkts \in Nat

FiguredList(list) ==
  /\ \E n \in Nat : DOMAIN list = 1 .. n
  /\ \A i \in DOMAIN list : Figured(list[i])

(* So are the matches in the table of such a list. *)
LEMMA FiguredTable ==
  ASSUME NEW list, FiguredList(list)
  PROVE  \A id \in DOMAIN MatchesById(list) : Figured(MatchesById(list)[id])
  BY EntryOfTable DEF FiguredList

(* Runs and wickets of a match are of the same teams, and natural numbers. *)
LEMMA FiguresType ==
  ASSUME NEW x, Figured(x)
  PROVE  /\ DOMAIN WicketsOf(x) = DOMAIN RunsOf(x)
         /\ \A t \in DOMAIN RunsOf(x) : RunsOf(x)[t] \in Nat /\ WicketsOf(x)[t] \in Nat
         /\ \A t : Known(RunsOf(x), t) \in Nat /\ Known(WicketsOf(x), t) \in Nat
<1>1. /\ DOMAIN WicketsOf(x) = DOMAIN RunsOf(x)
      /\ \A t \in DOMAIN RunsOf(x) : RunsOf(x)[t] \in Nat /\ WicketsOf(x)[t] \in Nat
  BY DEF Figured, WicketsOf, RunsOf, NoTeams
<1> QED
  BY <1>1 DEF Known

(* Equal scores mean equal runs and equal wickets. *)
LEMMA FiguresOfScore ==
  \A x, y : x.score = y.score => RunsOf(x) = RunsOf(y) /\ WicketsOf(x) = WicketsOf(y)
  BY DEF RunsOf, WicketsOf

-----------------------------------------------------------------------------
(* The three kinds of changes. *)

Both(before, after) == DOMAIN MatchesById(before) \cap DOMAIN MatchesById(after)

ChangeOf(before, after, id) ==
  LET was == MatchesById(before)[id]
      is == MatchesById(after)[id]
  IN  Change(id, "changed", was, is, ChangedFields(was, is))

(* A change of type "changed" is that of a match in both lists that differs. *)
LEMMA ChangedIffDiffers ==
  ASSUME NEW before, NEW after, NEW c
  PROVE  c \in DiffMatches(before, after) /\ c.type = "changed"
         <=> \E id \in Both(before, after) :
               /\ ChangedFields(MatchesById(before)[id], MatchesById(after)[id]) # {}
               /\ c = ChangeOf(before, after, id)
  BY DEF DiffMatches, AddedIn, ChangedIn, RemovedIn, Change, ChangeOf, Both

(* One of type "added" is that of a match of the second list only. *)
LEMMA AddedIffNew ==
  ASSUME NEW before, NEW after, NEW c
  PROVE  c \in DiffMatches(before, after) /\ c.type = "added"
         <=> \E id \in DOMAIN MatchesById(after) \ DOMAIN MatchesById(before) :
               c = Change(id, "added", Null, MatchesById(after)[id], {})
  BY DEF DiffMatches, AddedIn, ChangedIn, RemovedIn, Change

(* One of type "removed" is that of a match of the first list only. *)
LEMMA RemovedIffGone ==
  ASSUME NEW before, NEW after, NEW c
  PROVE  c \in DiffMatches(before, after) /\ c.type = "removed"
         <=> \E id \in DOMAIN MatchesById(before) \ DOMAIN MatchesById(after) :
               c = Change(id, "removed", MatchesById(before)[id], Null, {})
  BY DEF DiffMatches, AddedIn, ChangedIn, RemovedIn, Change

(* There are no other types. *)
LEMMA ChangeTypes ==
  ASSUME NEW before, NEW after, NEW c \in DiffMatches(before, after)
  PROVE  c.type \in {"added", "changed", "removed"}
  BY DEF DiffMatches, AddedIn, ChangedIn, RemovedIn, Change

-----------------------------------------------------------------------------
(* The three kinds of events. *)

(* A match starts when it is live in the second list and was not in the first. *)
LEMMA StartedIff ==
  ASSUME NEW before, NEW after, \A x \in DOMAIN MatchesById(after) : MatchesById(after)[x] # Null,
         NEW id
  PROVE  (\E e \in MatchStarted(DiffMatches(before, after)) : e.matchId = id)
         <=> /\ id \in DOMAIN MatchesById(after)
             /\ MatchesById(after)[id].status = "live"
             /\ id \in DOMAIN MatchesById(before) => MatchesById(before)[id].status # "live"
<1> DEFINE was == MatchesById(before)
           is == MatchesById(after)
<1>1. \A x \in DOMAIN is : is[x] # Null
  OBVIOUS
<1>2. (\E e \in MatchStarted(DiffMatches(before, after)) : e.matchId = id)
      <=> \E c \in DiffMatches(before, after) : WentLive(c) /\ c.id = id
  <2>1. \A e : e \in MatchStarted(DiffMatches(before, after))
                <=> \E c \in DiffMatches(before, after) :
                      WentLive(c) /\ e = [name |-> "matchStarted", matchId |-> c.id,
                                         teams |-> c.after.teams]
    BY DEF MatchStarted
  <2>2. ASSUME NEW c \in DiffMatches(before, after), WentLive(c), c.id = id
        PROVE  \E e \in MatchStarted(DiffMatches(before, after)) : e.matchId = id
    <3> DEFINE e == [name |-> "matchStarted", matchId |-> c.id, teams |-> c.after.teams]
    <3>1. e \in MatchStarted(DiffMatches(before, after)) /\ e.matchId = id
      BY <2>1, <2>2
    <3> QED
      BY <3>1
  <2>3. ASSUME NEW e \in MatchStarted(DiffMatches(before, after)), e.matchId = id
        PROVE  \E c \in DiffMatches(before, after) : WentLive(c) /\ c.id = id
    BY <2>1, <2>3
  <2> QED
    BY <2>2, <2>3
<1>3. \A x, y : "status" \in ChangedFields(x, y) <=> x.status # y.status
  BY DEF ChangedFields, ComparedFields, FieldValue
<1>4. ASSUME NEW c \in DiffMatches(before, after), WentLive(c), c.id = id
      PROVE  /\ id \in DOMAIN is /\ is[id].status = "live"
             /\ id \in DOMAIN was => was[id].status # "live"
  <2>1. CASE c.type = "changed"
    <3>1. PICK x \in Both(before, after) : c = ChangeOf(before, after, x)
      BY <1>4, <2>1, ChangedIffDiffers
    <3>2. x = id /\ c.after = is[id] /\ c.fields = ChangedFields(was[id], is[id])
      BY <1>4, <3>1 DEF ChangeOf, Change
    <3> QED
      BY <1>3, <1>4, <2>1, <3>1, <3>2 DEF WentLive, Both
  <2>2. CASE c.type = "added"
    <3>1. PICK x \in DOMAIN is \ DOMAIN was : c = Change(x, "added", Null, is[x], {})
      BY <1>4, <2>2, AddedIffNew
    <3> QED
      BY <1>4, <3>1 DEF WentLive, Change
  <2> QED
    BY <1>4, <2>1, <2>2 DEF WentLive
<1>5. ASSUME id \in DOMAIN is, is[id].status = "live",
             id \in DOMAIN was => was[id].status # "live"
      PROVE  \E c \in DiffMatches(before, after) : WentLive(c) /\ c.id = id
  <2>1. CASE id \in DOMAIN was
    <3> DEFINE c == ChangeOf(before, after, id)
    <3>1. "status" \in ChangedFields(was[id], is[id])
      BY <1>3, <1>5, <2>1
    <3>2. c \in DiffMatches(before, after)
      BY <1>5, <2>1, <3>1, ChangedIffDiffers DEF Both
    <3>3. c.id = id /\ WentLive(c)
      BY <1>1, <1>5, <3>1 DEF WentLive, ChangeOf, Change
    <3> QED
      BY <3>2, <3>3
  <2>2. CASE id \notin DOMAIN was
    <3> DEFINE c == Change(id, "added", Null, is[id], {})
    <3>1. c \in DiffMatches(before, after)
      BY <1>5, <2>2, AddedIffNew
    <3>2. c.id = id /\ WentLive(c)
      BY <1>1, <1>5 DEF WentLive, Change
    <3> QED
      BY <3>1, <3>2
  <2> QED
    BY <2>1, <2>2
<1> QED
  BY <1>2, <1>4, <1>5

(* The wickets of a team in the two lists, and its runs. *)
WicketsWas(before, id, t) == Known(WicketsOf(MatchesById(before)[id]), t)
WicketsIs(after, id, t) == WicketsOf(MatchesById(after)[id])[t]
RunsWas(before, id, t) == Known(RunsOf(MatchesById(before)[id]), t)
RunsIs(after, id, t) == RunsOf(MatchesById(after)[id])[t]
TeamsOf(list, id) == DOMAIN RunsOf(MatchesById(list)[id])

(* Wickets fall where a match of both lists has more of them for a team than before. *)
LEMMA WicketFallenIff ==
  ASSUME NEW before, NEW after, FiguredList(before), FiguredList(after), NEW e
  PROVE  e \in WicketFallen(DiffMatches(before, after))
         <=> \E id \in Both(before, after) : \E t \in TeamsOf(after, id) :
               /\ WicketsIs(after, id, t) > WicketsWas(before, id, t)
               /\ e = [name |-> "wicketFallen", matchId |-> id, teamName |-> t,
                       wickets |-> WicketsIs(after, id, t),
                       delta |-> WicketsIs(after, id, t) - WicketsWas(before, id, t)]
<1> DEFINE was == MatchesById(before)
           is == MatchesById(after)
           event(id, t) == [name |-> "wicketFallen", matchId |-> id, teamName |-> t,
                            wickets |-> WicketsIs(after, id, t),
                            delta |-> WicketsIs(after, id, t) - WicketsWas(before, id, t)]
<1>1. \A id \in Both(before, after) : Figured(was[id]) /\ Figured(is[id])
  BY FiguredTable DEF Both
<1>2. e \in WicketFallen(DiffMatches(before, after))
      <=> \E c \in DiffMatches(before, after) :
            /\ c.type = "changed" /\ "wickets" \in c.fields
            /\ \E t \in DOMAIN WicketsOf(c.after) :
                 /\ WicketDelta(c, t) > 0
                 /\ e = [name |-> "wicketFallen", matchId |-> c.id, teamName |-> t,
                         wickets |-> WicketsOf(c.after)[t], delta |-> WicketDelta(c, t)]
  BY DEF WicketFallen
<1>3. ASSUME NEW id \in Both(before, after)
      PROVE  LET c == ChangeOf(before, after, id) IN
             /\ c.id = id /\ c.type = "changed"
             /\ c.fields = ChangedFields(was[id], is[id])
             /\ DOMAIN WicketsOf(c.after) = TeamsOf(after, id)
             /\ \A t : WicketsOf(c.after)[t] = WicketsIs(after, id, t)
             /\ \A t : WicketDelta(c, t) = WicketsIs(after, id, t) - WicketsWas(before, id, t)
             /\ \A t \in TeamsOf(after, id) :
                  WicketsIs(after, id, t) \in Nat /\ WicketsWas(before, id, t) \in Nat
  BY <1>1, FiguresType DEF ChangeOf, Change, TeamsOf, WicketsIs, WicketsWas, WicketDelta
<1>4. ASSUME NEW id \in Both(before, after), NEW t \in TeamsOf(after, id),
             WicketsIs(after, id, t) > WicketsWas(before, id, t)
      PROVE  "wickets" \in ChangedFields(was[id], is[id])
  <2>1. WicketsIs(after, id, t) # WicketsWas(before, id, t)
    BY <1>3, <1>4
  <2>2. t \in DOMAIN WicketsOf(is[id])
    BY <1>1, FiguresType DEF TeamsOf
  <2>3. WicketsOf(was[id]) # WicketsOf(is[id])
    BY <2>1, <2>2 DEF WicketsIs, WicketsWas, Known
  <2> QED
    BY <2>3 DEF ChangedFields, ComparedFields, FieldValue
<1>5. ASSUME e \in WicketFallen(DiffMatches(before, after))
      PROVE  \E id \in Both(before, after) : \E t \in TeamsOf(after, id) :
               WicketsIs(after, id, t) > WicketsWas(before, id, t) /\ e = event(id, t)
  <2>1. PICK c \in DiffMatches(before, after) :
          /\ c.type = "changed" /\ "wickets" \in c.fields
          /\ \E t \in DOMAIN WicketsOf(c.after) :
               /\ WicketDelta(c, t) > 0
               /\ e = [name |-> "wicketFallen", matchId |-> c.id, teamName |-> t,
                       wickets |-> WicketsOf(c.after)[t], delta |-> WicketDelta(c, t)]
    BY <1>2, <1>5
  <2>2. PICK id \in Both(before, after) : c = ChangeOf(before, after, id)
    BY <2>1, ChangedIffDiffers
  <2>3. PICK t \in TeamsOf(after, id) :
               /\ WicketDelta(c, t) > 0
               /\ e = [name |-> "wicketFallen", matchId |-> id, teamName |-> t,
                       wickets |-> WicketsIs(after, id, t), delta |-> WicketDelta(c, t)]
    BY <1>3, <2>1, <2>2
  <2>4. WicketsIs(after, id, t) > WicketsWas(before, id, t)
    BY <1>3, <2>2, <2>3
  <2>5. e = event(id, t)
    BY <1>3, <2>2, <2>3
  <2> QED
    BY <2>4, <2>5
<1>6. ASSUME NEW id \in Both(before, after), NEW t \in TeamsOf(after, id),
             WicketsIs(after, id, t) > WicketsWas(before, id, t), e = event(id, t)
      PROVE  e \in WicketFallen(DiffMatches(before, after))
  <2> DEFINE c == ChangeOf(before, after, id)
  <2>1. "wickets" \in ChangedFields(was[id], is[id])
    BY <1>4, <1>6
  <2>2. c \in DiffMatches(before, after)
    BY <2>1, ChangedIffDiffers
  <2>3. WicketDelta(c, t) > 0
    BY <1>3, <1>6
  <2> HIDE DEF c
  <2>4. /\ c.id = id /\ c.type = "changed" /\ "wickets" \in c.fields
        /\ t \in DOMAIN WicketsOf(c.after)
        /\ e = [name |-> "wicketFallen", matchId |-> c.id, teamName |-> t,
                wickets |-> WicketsOf(c.after)[t], delta |-> WicketDelta(c, t)]
    BY <1>3, <1>6, <2>1 DEF c
  <2> QED
    BY <1>2, <2>2, <2>3, <2>4
<1> QED
  BY <1>5, <1>6

(* A higher total has a higher milestone below it, or the same. *)
LEMMA MilestoneOrder ==
  \A m, n \in Nat :
    /\ m \div MilestoneStep \in Nat /\ MilestoneOf(m) \in Nat
    /\ m <= n => m \div MilestoneStep <= n \div MilestoneStep
    /\ MilestoneOf(m) = MilestoneOf(n) => m \div MilestoneStep = n \div MilestoneStep
    /\ MilestoneOf(m) >= MilestoneStep => m \div MilestoneStep > 0
    /\ m \div MilestoneStep = n \div MilestoneStep => MilestoneOf(m) = MilestoneOf(n)
  BY DEF MilestoneOf, MilestoneStep

(* The team has as many runs as a milestone asks for, and had not before. *)
Passes(before, after, id, t) ==
  /\ MilestoneOf(RunsIs(after, id, t)) >= MilestoneStep
  /\ RunsWas(before, id, t) \div MilestoneStep < RunsIs(after, id, t) \div MilestoneStep

(* A milestone is reached where a match of both lists passes it. *)
LEMMA MilestoneReachedIff ==
  ASSUME NEW before, NEW after, FiguredList(before), FiguredList(after), NEW e
  PROVE  e \in MilestoneReached(DiffMatches(before, after))
         <=> \E id \in Both(before, after) : \E t \in TeamsOf(after, id) :
               /\ Passes(before, after, id, t)
               /\ e = [name |-> "milestoneReached", matchId |-> id, teamName |-> t,
                       runs |-> RunsIs(after, id, t),
                       milestone |-> MilestoneOf(RunsIs(after, id, t))]
<1> DEFINE was == MatchesById(before)
           is == MatchesById(after)
           event(id, t) == [name |-> "milestoneReached", matchId |-> id, teamName |-> t,
                            runs |-> RunsIs(after, id, t),
                            milestone |-> MilestoneOf(RunsIs(after, id, t))]
<1>1. \A id \in Both(before, after) : Figured(was[id]) /\ Figured(is[id])
  BY FiguredTable DEF Both
<1>2. e \in MilestoneReached(DiffMatches(before, after))
      <=> \E c \in DiffMatches(before, after) :
            /\ c.type = "changed" /\ "score" \in c.fields
            /\ \E t \in DOMAIN RunsOf(c.after) :
                 /\ CrossedMilestone(c, t)
                 /\ e = [name |-> "milestoneReached", matchId |-> c.id, teamName |-> t,
                         runs |-> RunsOf(c.after)[t],
                         milestone |-> MilestoneOf(RunsOf(c.after)[t])]
  BY DEF MilestoneReached
<1>3. ASSUME NEW id \in Both(before, after)
      PROVE  LET c == ChangeOf(before, after, id) IN
             /\ c.id = id /\ c.type = "changed"
             /\ c.fields = ChangedFields(was[id], is[id])
             /\ DOMAIN RunsOf(c.after) = TeamsOf(after, id)
             /\ \A t : RunsOf(c.after)[t] = RunsIs(after, id, t)
             /\ \A t : CrossedMilestone(c, t) <=> Passes(before, after, id, t)
  BY DEF ChangeOf, Change, TeamsOf, RunsIs, RunsWas, CrossedMilestone, Passes
<1>4. ASSUME NEW id \in Both(before, after), NEW t \in TeamsOf(after, id),
             Passes(before, after, id, t)
      PROVE  "score" \in ChangedFields(was[id], is[id])
  <2>1. RunsIs(after, id, t) \in Nat /\ RunsWas(before, id, t) \in Nat
    BY <1>1, FiguresType DEF RunsIs, RunsWas, TeamsOf
  <2>2. RunsIs(after, id, t) # RunsWas(before, id, t)
    BY <1>4, <2>1, MilestoneOrder DEF Passes
  <2>3. RunsOf(was[id]) # RunsOf(is[id])
    BY <2>2 DEF RunsIs, RunsWas, Known, TeamsOf
  <2>4. was[id].score # is[id].score
    BY <2>3, FiguresOfScore
  <2> QED
    BY <2>4 DEF ChangedFields, ComparedFields, FieldValue
<1>5. ASSUME e \in MilestoneReached(DiffMatches(before, after))
      PROVE  \E id \in Both(before, after) : \E t \in TeamsOf(after, id) :
               Passes(before, after, id, t) /\ e = event(id, t)
  <2>1. PICK c \in DiffMatches(before, after) :
          /\ c.type = "changed" /\ "score" \in c.fields
          /\ \E t \in DOMAIN RunsOf(c.after) :
               /\ CrossedMilestone(c, t)
               /\ e = [name |-> "milestoneReached", matchId |-> c.id, teamName |-> t,
                       runs |-> RunsOf(c.after)[t],
                       milestone |-> MilestoneOf(RunsOf(c.after)[t])]
    BY <1>2, <1>5
  <2>2. PICK id \in Both(before, after) : c = ChangeOf(before, after, id)
    BY <2>1, ChangedIffDiffers
  <2> QED
    BY <1>3, <2>1, <2>2
<1>6. ASSUME NEW id \in Both(before, after), NEW t \in TeamsOf(after, id),
             Passes(before, after, id, t), e = event(id, t)
      PROVE  e \in MilestoneReached(DiffMatches(before, after))
  <2> DEFINE c == ChangeOf(before, after, id)
  <2>1. "score" \in ChangedFields(was[id], is[id])
    BY <1>4, <1>6
  <2>2. c \in DiffMatches(before, after)
    BY <2>1, ChangedIffDiffers
  <2> HIDE DEF c
  <2>3. /\ c.id = id /\ c.type = "changed" /\ "score" \in c.fields
        /\ t \in DOMAIN RunsOf(c.after) /\ CrossedMilestone(c, t)
        /\ e = [name |-> "milestoneReached", matchId |-> c.id, teamName |-> t,
                runs |-> RunsOf(c.after)[t], milestone |-> MilestoneOf(RunsOf(c.after)[t])]
    BY <1>3, <1>6, <2>1 DEF c
  <2> QED
    BY <1>2, <2>2, <2>3
<1> QED
  BY <1>5, <1>6
=============================================================================
