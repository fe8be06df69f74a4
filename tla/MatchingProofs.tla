----------------------------- MODULE MatchingProofs -----------------------------
(***************************************************************************)
(* The order of compareCandidates is the documented one and a strict weak  *)
(* order, and so the walk over the listing that keeps one walking          *)
(* candidate per session ends with an offer that nothing it has met beats: *)
(* for any listings, answers of the provider, limits and walking distances.*)
(***************************************************************************)
EXTENDS Matching, TLAPS

(* The order *)

LEMMA PrecedesIsTransitive ==
  ASSUME NEW a \in Candidate, NEW b \in Candidate, NEW c \in Candidate, Precedes(a, b), Precedes(b, c)
  PROVE  Precedes(a, c)
  BY DEF Precedes, Candidate

\* What is neither before nor after a third is neither before nor after each other.
LEMMA PrecedesIsWeak ==
  ASSUME NEW a \in Candidate, NEW b \in Candidate, NEW c \in Candidate, Precedes(a, b)
  PROVE  Precedes(a, c) \/ Precedes(c, b)
  BY DEF Precedes, Candidate

\* compareCandidates is the lexicographic order the documentation lists.
THEOREM OrderIsDocumented ==
  ASSUME NEW a \in Candidate, NEW b \in Candidate
  PROVE  RanksBefore(a, b) <=> Precedes(a, b)
<1>1. /\ Rank(a)[1] = a.detour /\ Rank(a)[2] = a.eta /\ Rank(a)[3] = a.walk
      /\ Rank(a)[4] = a.apart /\ Rank(a)[5] = 0 - a.seats
      /\ Rank(b)[1] = b.detour /\ Rank(b)[2] = b.eta /\ Rank(b)[3] = b.walk
      /\ Rank(b)[4] = b.apart /\ Rank(b)[5] = 0 - b.seats
  BY DEF Rank
<1>2. 0 - a.seats < 0 - b.seats <=> a.seats > b.seats
  BY DEF Candidate
<1>3. 0 - a.seats = 0 - b.seats <=> a.seats = b.seats
  BY DEF Candidate
<1>4. ASSUME Precedes(a, b) PROVE RanksBefore(a, b)
  <2>1. CASE Rank(a)[1] < Rank(b)[1]
    <3>1. 1 \in 1..5 /\ 1..(1 - 1) = {}
      OBVIOUS
    <3> QED
      BY <2>1, <3>1 DEF RanksBefore
  <2>2. CASE Rank(a)[1] = Rank(b)[1] /\ Rank(a)[2] < Rank(b)[2]
    <3>1. 2 \in 1..5 /\ 1..(2 - 1) = {1}
      OBVIOUS
    <3> QED
      BY <2>2, <3>1 DEF RanksBefore
  <2>3. CASE Rank(a)[1] = Rank(b)[1] /\ Rank(a)[2] = Rank(b)[2] /\ Rank(a)[3] < Rank(b)[3]
    <3>1. 3 \in 1..5 /\ 1..(3 - 1) = {1, 2}
      OBVIOUS
    <3> QED
      BY <2>3, <3>1 DEF RanksBefore
  <2>4. CASE Rank(a)[1] = Rank(b)[1] /\ Rank(a)[2] = Rank(b)[2] /\ Rank(a)[3] = Rank(b)[3] /\ Rank(a)[4] < Rank(b)[4]
    <3>1. 4 \in 1..5 /\ 1..(4 - 1) = {1, 2, 3}
      OBVIOUS
    <3> QED
      BY <2>4, <3>1 DEF RanksBefore
  <2>5. CASE /\ Rank(a)[1] = Rank(b)[1] /\ Rank(a)[2] = Rank(b)[2] /\ Rank(a)[3] = Rank(b)[3]
             /\ Rank(a)[4] = Rank(b)[4] /\ Rank(a)[5] < Rank(b)[5]
    <3>1. 5 \in 1..5 /\ 1..(5 - 1) = {1, 2, 3, 4}
      OBVIOUS
    <3> QED
      BY <2>5, <3>1 DEF RanksBefore
  <2> QED
    BY <1>1, <1>2, <1>4, <2>1, <2>2, <2>3, <2>4, <2>5 DEF Precedes
<1>5. ASSUME RanksBefore(a, b) PROVE Precedes(a, b)
  <2>1. PICK i \in 1..5 : Rank(a)[i] < Rank(b)[i] /\ \A j \in 1..(i - 1) : Rank(a)[j] = Rank(b)[j]
    BY <1>5 DEF RanksBefore
  <2>2. i = 1 \/ i = 2 \/ i = 3 \/ i = 4 \/ i = 5
    OBVIOUS
  <2>3. i > 1 => Rank(a)[1] = Rank(b)[1]
    BY <2>1
  <2>4. i > 2 => Rank(a)[2] = Rank(b)[2]
    BY <2>1
  <2>5. i > 3 => Rank(a)[3] = Rank(b)[3]
    BY <2>1
  <2>6. i > 4 => Rank(a)[4] = Rank(b)[4]
    BY <2>1
  <2> QED
    BY <1>1, <1>2, <1>3, <2>1, <2>2, <2>3, <2>4, <2>5, <2>6 DEF Precedes
<1> QED
  BY <1>4, <1>5

-----------------------------------------------------------------------------
(* The invariant *)

\* The session at i is one that may be asked about.
RowFits(i) == CanServe(listed[i]) /\ (MaxStaleness > 0 => listed[i].age <= MaxStaleness)

\* A candidate of a listed session, made from an answer within the limits.
Made(c, phase) == \E i \in 1..Len(listed), a \in Answers :
  RowFits(i) /\ Accepts(listed[i], a) /\ c = CandidateOf(i, a, phase)

RunTypes ==
  /\ demand \in Demands /\ (listed = <<>> \/ listed \in Listings)
  /\ at \in {"list", "next", "exact", "walk", "offered", "none", "failed"}
  /\ next \in 1..Len(listed) + 1 /\ pair \in Nat /\ clock \in Nat

NothingYet == at = "list" => listed = <<>> /\ one = {} /\ two = {} /\ best = None /\ rival = None

AtSession == at \in {"exact", "walk"} => next <= Len(listed) /\ RowFits(next)

AllMade ==
  /\ \A c \in one : Made(c, 1)
  /\ \A c \in two : Made(c, 2)
  /\ best = None \/ Made(best, 2)
  /\ rival = None \/ Made(rival, 1) \/ Made(rival, 2)

OnePerSession ==
  /\ \A c \in one \cup two : c.session < next
  /\ \A c, d \in one \cup two : c.session = d.session => c = d
  /\ at = "walk" /\ best # None => best.session = next

\* Something that will be ranked is at least as good as the rival.
Upheld ==
  \/ \E m \in two : ~Precedes(rival, m)
  \/ at = "walk" /\ best # None /\ ~Precedes(rival, best)

RivalIsKept == at # "failed" /\ rival # None =>
  IF rival.phase = 1 THEN rival \in one ELSE Upheld

ChosenIsRanked ==
  /\ at = "offered" => chosen \in Ranked
  /\ chosen = None \/ chosen \in one \cup two

MatchInv == RunTypes /\ NothingYet /\ AtSession /\ AllMade /\ OnePerSession /\ RivalIsKept /\ ChosenIsRanked

\* Among the candidates of a phase there is one that nothing precedes.
SomebodyIsFirst == (one # {} => First(one) # {}) /\ (two # {} => First(two) # {})

-----------------------------------------------------------------------------
(* What candidates are *)

LEMMA Rows ==
  ASSUME RunTypes
  PROVE  /\ listed \in Seq(Row) /\ Len(listed) \in Nat /\ next \in Nat /\ demand \in DemandInput
         /\ \A i \in 1..Len(listed) : listed[i] \in Row
         /\ \A a \in Answers : a \in Answer
<1>1. listed \in Seq(Row)
  <2>1. CASE listed = <<>>
    BY <2>1
  <2>2. CASE listed \in Listings
    BY <2>2, MatchingAssumption
  <2> QED
    BY <2>1, <2>2 DEF RunTypes
<1> QED
  BY <1>1, MatchingAssumption DEF RunTypes

LEMMA CandidatesAre ==
  ASSUME RunTypes, NEW i \in 1..Len(listed), NEW a \in Answers, NEW phase \in {1, 2}
  PROVE  /\ CandidateOf(i, a, phase) \in Candidate /\ CandidateOf(i, a, phase) # None
         /\ CandidateOf(i, a, phase).session = i /\ CandidateOf(i, a, phase).phase = phase
<1>1. listed[i] \in Row /\ a \in Answer /\ i \in Nat
  BY Rows
<1>2. CandidateOf(i, a, phase) \in Candidate
  BY <1>1 DEF CandidateOf, Candidate, Row, Answer
<1>3. CandidateOf(i, a, phase).session = i /\ CandidateOf(i, a, phase).phase = phase
  BY DEF CandidateOf
<1>4. None.phase = 0
  BY DEF None
<1> QED
  BY <1>2, <1>3, <1>4

LEMMA MadeAre ==
  ASSUME RunTypes, NEW phase \in {1, 2}, NEW c, Made(c, phase)
  PROVE  c \in Candidate /\ c # None /\ c.phase = phase /\ c.session \in 1..Len(listed)
  BY CandidatesAre DEF Made

\* Listing, demand and answers do not change once candidates are made.
LEMMA MadeStays ==
  ASSUME NEW c, NEW phase, Made(c, phase), UNCHANGED <<listed, demand>>
  PROVE  Made(c, phase)'
  BY DEF Made, RowFits, CanServe, Accepts, CandidateOf

-----------------------------------------------------------------------------
(* The steps *)

LEMMA ListSessionsKeeps == ASSUME MatchInv, ListSessions PROVE MatchInv'
<1>1. RunTypes /\ ChosenIsRanked /\ one = {} /\ two = {} /\ best = None /\ rival = None
  BY DEF MatchInv, NothingYet, ListSessions
<1>2. /\ listed' \in Listings /\ at' = "next"
      /\ UNCHANGED <<demand, next, pair, best, one, two, chosen, clock, rival>>
  BY DEF ListSessions
<1>3. RunTypes'
  <2>1. listed = <<>>
    BY DEF MatchInv, NothingYet, ListSessions
  <2>2. listed' \in Seq(Row)
    BY <1>2, MatchingAssumption
  <2>3. next = 1 /\ next' = 1 /\ Len(listed') \in Nat
    BY <1>1, <1>2, <2>1, <2>2 DEF RunTypes
  <2> QED
    BY <1>1, <1>2, <2>3 DEF RunTypes
<1> QED
  BY <1>1, <1>2, <1>3
  DEF MatchInv, NothingYet, AtSession, AllMade, OnePerSession, RivalIsKept, ChosenIsRanked

\* The parts that only depend on what was made, when nothing is made.
LEMMA NothingMade ==
  ASSUME MatchInv, UNCHANGED <<listed, demand, one, two, chosen, rival>>, best' \in {best, None}
  PROVE  AllMade' /\ (chosen' = None \/ chosen' \in one' \cup two')
<1>1. AllMade /\ ChosenIsRanked
  BY DEF MatchInv
<1>2. (\A c \in one' : Made(c, 1)') /\ (\A c \in two' : Made(c, 2)')
  BY <1>1 DEF AllMade, Made, RowFits, CanServe, Accepts, CandidateOf
<1>3. best' = None \/ Made(best, 2)'
  BY <1>1 DEF AllMade, Made, RowFits, CanServe, Accepts, CandidateOf
<1>4. rival' = None \/ Made(rival, 1)' \/ Made(rival, 2)'
  BY <1>1 DEF AllMade, Made, RowFits, CanServe, Accepts, CandidateOf
<1> QED
  BY <1>1, <1>2, <1>3, <1>4 DEF AllMade, ChosenIsRanked

LEMMA SkipSessionKeeps == ASSUME MatchInv, SkipSession PROVE MatchInv'
<1>1. RunTypes /\ OnePerSession /\ RivalIsKept
  BY DEF MatchInv
<1>2. /\ at = "next" /\ next <= Len(listed) /\ next' = next + 1
      /\ UNCHANGED <<demand, listed, at, pair, best, one, two, chosen, clock, rival>>
  BY DEF SkipSession
<1>3. AllMade' /\ ChosenIsRanked'
  BY <1>2, NothingMade DEF ChosenIsRanked
<1>4. RunTypes'
  BY <1>1, <1>2, Rows DEF RunTypes
<1>5. OnePerSession'
  <2>1. \A c \in one \cup two : c.session \in Int
    BY <1>1, MadeAre, Rows DEF MatchInv, AllMade
  <2> QED
    BY <1>1, <1>2, <2>1, Rows DEF OnePerSession
<1>6. RivalIsKept' /\ NothingYet' /\ AtSession'
  BY <1>1, <1>2 DEF RivalIsKept, Upheld, NothingYet, AtSession
<1> QED
  BY <1>3, <1>4, <1>5, <1>6 DEF MatchInv

LEMMA TakeSessionKeeps == ASSUME MatchInv, TakeSession PROVE MatchInv'
<1>1. RunTypes /\ OnePerSession /\ RivalIsKept
  BY DEF MatchInv
<1>2. /\ at = "next" /\ next <= Len(listed) /\ at' = "exact" /\ ~IsStale(listed[next]) /\ CanServe(listed[next])
      /\ UNCHANGED <<demand, listed, next, pair, best, one, two, chosen, clock, rival>>
  BY DEF TakeSession
<1>3. AllMade' /\ ChosenIsRanked'
  BY <1>2, NothingMade DEF ChosenIsRanked
<1>4. RunTypes' /\ OnePerSession' /\ RivalIsKept' /\ NothingYet'
  BY <1>1, <1>2 DEF RunTypes, OnePerSession, RivalIsKept, Upheld, NothingYet
<1>5. AtSession'
  <2>1. listed[next] \in Row /\ clock \in Nat
    BY <1>1, <1>2, Rows DEF RunTypes
  <2>2. MaxStaleness > 0 => listed[next].age <= MaxStaleness
    BY <1>2, <2>1, MatchingAssumption DEF IsStale, Row
  <2> QED
    BY <1>2, <2>2 DEF AtSession, RowFits, CanServe
<1> QED
  BY <1>3, <1>4, <1>5 DEF MatchInv

\* The candidate of the session the run is at.
LEMMA NextIsMade ==
  ASSUME MatchInv, at \in {"exact", "walk"}, NEW a \in Answers, Accepts(listed[next], a), NEW phase \in {1, 2}
  PROVE  /\ Made(CandidateOf(next, a, phase), phase)
         /\ CandidateOf(next, a, phase) \in Candidate /\ CandidateOf(next, a, phase) # None
         /\ CandidateOf(next, a, phase).session = next /\ CandidateOf(next, a, phase).phase = phase
<1>1. next \in 1..Len(listed) /\ RowFits(next)
  BY Rows DEF MatchInv, AtSession, RunTypes
<1> QED
  BY <1>1, CandidatesAre DEF Made, MatchInv

LEMMA ExactFitsKeeps == ASSUME MatchInv, NEW a \in Answers, ExactFits(a) PROVE MatchInv'
<1>1. RunTypes /\ OnePerSession /\ RivalIsKept /\ AllMade /\ ChosenIsRanked
  BY DEF MatchInv
<1>2. PICK c : c = CandidateOf(next, a, 1)
  OBVIOUS
<1>3. /\ at = "exact" /\ at' = "next" /\ next' = next + 1 /\ one' = one \cup {c} /\ rival' \in {rival, c}
      /\ UNCHANGED <<demand, listed, pair, best, two, chosen, clock>>
  BY <1>2 DEF ExactFits, Remember
<1>4. Made(c, 1) /\ c \in Candidate /\ c # None /\ c.session = next /\ c.phase = 1
  BY <1>2, <1>3, NextIsMade DEF ExactFits
<1>5. next <= Len(listed)
  BY <1>3 DEF MatchInv, AtSession
<1>6. RunTypes' /\ AtSession' /\ NothingYet'
  BY <1>1, <1>3, <1>5, Rows DEF RunTypes, AtSession, NothingYet
<1>7. AllMade'
  <2>1. \A d \in one' : Made(d, 1)'
    BY <1>1, <1>3, <1>4, MadeStays DEF AllMade
  <2>2. \A d \in two' : Made(d, 2)'
    BY <1>1, <1>3, MadeStays DEF AllMade
  <2>3. best' = None \/ Made(best, 2)'
    BY <1>1, <1>3 DEF AllMade, Made, RowFits, CanServe, Accepts, CandidateOf
  <2>4. PICK r : r = rival'
    OBVIOUS
  <2>5. r = None \/ Made(r, 1) \/ Made(r, 2)
    BY <1>1, <1>3, <1>4, <2>4 DEF AllMade
  <2>6. r = None \/ Made(r, 1)' \/ Made(r, 2)'
    BY <1>3, <2>5, MadeStays
  <2>7. rival' = None \/ Made(rival, 1)' \/ Made(rival, 2)'
    BY <2>4, <2>6 DEF Made
  <2> QED
    BY <2>1, <2>2, <2>3, <2>7 DEF AllMade
<1>8. OnePerSession'
  <2>1. \A d \in one \cup two : d.session \in Int /\ d.session < next
    BY <1>1, MadeAre, Rows DEF OnePerSession, AllMade
  <2>2. next \in Nat
    BY <1>1, Rows
  <2>3. \A d \in one' \cup two' : d.session < next'
    BY <1>3, <1>4, <2>1, <2>2
  <2>4. \A d \in one \cup two : d.session # c.session
    BY <1>4, <2>1, <2>2
  <2>5. \A d, e \in one' \cup two' : d.session = e.session => d = e
    BY <1>1, <1>3, <2>4 DEF OnePerSession
  <2> QED
    BY <1>3, <2>3, <2>5 DEF OnePerSession
<1>9. RivalIsKept' /\ ChosenIsRanked'
  BY <1>1, <1>3, <1>4 DEF RivalIsKept, Upheld, ChosenIsRanked
<1> QED
  BY <1>6, <1>7, <1>8, <1>9 DEF MatchInv

LEMMA ExactDoesNotFitKeeps == ASSUME MatchInv, NEW a \in Answers, ExactDoesNotFit(a) PROVE MatchInv'
<1>1. RunTypes /\ OnePerSession /\ RivalIsKept /\ AtSession
  BY DEF MatchInv
<1>2. /\ at = "exact" /\ at' = "walk" /\ pair' = 1 /\ best' = None
      /\ UNCHANGED <<demand, listed, next, one, two, chosen, clock, rival>>
  BY DEF ExactDoesNotFit
<1>3. AllMade' /\ ChosenIsRanked'
  BY <1>2, NothingMade DEF ChosenIsRanked
<1>4. RunTypes' /\ OnePerSession' /\ NothingYet'
  BY <1>1, <1>2 DEF RunTypes, OnePerSession, NothingYet
<1>5. RivalIsKept'
  BY <1>1, <1>2 DEF RivalIsKept, Upheld
<1>6. AtSession'
  BY <1>1, <1>2 DEF AtSession, RowFits, CanServe
<1> QED
  BY <1>3, <1>4, <1>5, <1>6 DEF MatchInv

LEMMA WalkFitsKeeps == ASSUME MatchInv, NEW a \in Answers, WalkFits(a) PROVE MatchInv'
<1>1. RunTypes /\ OnePerSession /\ RivalIsKept /\ AllMade /\ ChosenIsRanked /\ AtSession
  BY DEF MatchInv
<1>2. PICK c : c = CandidateOf(next, a, 2)
  OBVIOUS
<1>3. /\ at = "walk" /\ best' = IF best = None \/ Precedes(c, best) THEN c ELSE best
      /\ rival' \in {rival, c} /\ pair' = pair + 1
      /\ UNCHANGED <<demand, listed, at, next, one, two, chosen, clock>>
  BY <1>2 DEF WalkFits, Remember
<1>4. Made(c, 2) /\ c \in Candidate /\ c # None /\ c.session = next /\ c.phase = 2
  BY <1>2, <1>3, NextIsMade DEF WalkFits
<1>5. RunTypes' /\ NothingYet' /\ ChosenIsRanked'
  BY <1>1, <1>3 DEF RunTypes, NothingYet, ChosenIsRanked, Ranked, First
<1>6. AtSession'
  BY <1>1, <1>3 DEF AtSession, RowFits, CanServe
<1>7. AllMade'
  <2>1. (\A d \in one' : Made(d, 1)') /\ (\A d \in two' : Made(d, 2)')
    BY <1>1, <1>3, MadeStays DEF AllMade
  <2>2. PICK b : b = best'
    OBVIOUS
  <2>3. b = None \/ Made(b, 2)'
    BY <1>1, <1>3, <1>4, <2>2, MadeStays DEF AllMade
  <2>4. best' = None \/ Made(best, 2)'
    BY <2>2, <2>3 DEF Made
  <2>5. PICK r : r = rival'
    OBVIOUS
  <2>6. r = None \/ Made(r, 1) \/ Made(r, 2)
    BY <1>1, <1>3, <1>4, <2>5 DEF AllMade
  <2>7. r = None \/ Made(r, 1)' \/ Made(r, 2)'
    BY <1>3, <2>6, MadeStays
  <2>8. rival' = None \/ Made(rival, 1)' \/ Made(rival, 2)'
    BY <2>5, <2>7 DEF Made
  <2> QED
    BY <2>1, <2>4, <2>8 DEF AllMade
<1>8. OnePerSession'
  BY <1>1, <1>3, <1>4 DEF OnePerSession
<1>9. RivalIsKept'
  <2>1. best = None \/ best \in Candidate
    BY <1>1, MadeAre DEF AllMade
  <2>2. best' # None /\ best' \in Candidate
    BY <1>3, <1>4, <2>1
  <2>3. CASE rival' = c
    <3>1. ~Precedes(c, best')
      <4>1. ~Precedes(c, c)
        BY <1>4 DEF Precedes, Candidate
      <4> QED
        BY <1>3, <4>1
    <3> QED
      BY <1>3, <1>4, <2>2, <2>3, <3>1 DEF RivalIsKept, Upheld, Precedes
  <2>4. CASE rival' = rival
    <3>1. SUFFICES ASSUME rival # None, rival.phase # 1 PROVE Upheld'
      BY <1>1, <1>3, <2>4 DEF RivalIsKept
    <3>2. rival \in Candidate
      BY <1>1, <3>1, MadeAre DEF AllMade
    <3>3. CASE \E m \in two : ~Precedes(rival, m)
      BY <1>3, <2>4, <3>3 DEF Upheld, Precedes
    <3>4. CASE best # None /\ ~Precedes(rival, best)
      <4>1. ~Precedes(rival, best')
        <5>1. ASSUME Precedes(c, best), Precedes(rival, c) PROVE FALSE
          BY <1>4, <2>1, <3>2, <3>4, <5>1, PrecedesIsTransitive
        <5> QED
          BY <1>3, <3>4, <5>1
      <4> QED
        BY <1>3, <2>2, <2>4, <4>1 DEF Upheld, Precedes
    <3> QED
      BY <1>1, <1>3, <3>1, <3>3, <3>4 DEF RivalIsKept, Upheld
  <2> QED
    BY <1>3, <2>3, <2>4
<1> QED
  BY <1>5, <1>6, <1>7, <1>8, <1>9 DEF MatchInv

LEMMA WalkDoesNotFitKeeps == ASSUME MatchInv, NEW a \in Answers, WalkDoesNotFit(a) PROVE MatchInv'
<1>1. RunTypes /\ OnePerSession /\ RivalIsKept /\ AtSession
  BY DEF MatchInv
<1>2. /\ at = "walk" /\ pair' = pair + 1
      /\ UNCHANGED <<demand, listed, at, next, best, one, two, chosen, clock, rival>>
  BY DEF WalkDoesNotFit
<1>3. AllMade' /\ ChosenIsRanked'
  BY <1>2, NothingMade DEF ChosenIsRanked
<1>4. RunTypes' /\ OnePerSession' /\ NothingYet' /\ RivalIsKept'
  BY <1>1, <1>2 DEF RunTypes, OnePerSession, NothingYet, RivalIsKept, Upheld
<1>5. AtSession'
  BY <1>1, <1>2 DEF AtSession, RowFits, CanServe
<1> QED
  BY <1>3, <1>4, <1>5 DEF MatchInv

LEMMA WalksDoneKeeps == ASSUME MatchInv, WalksDone PROVE MatchInv'
<1>1. RunTypes /\ OnePerSession /\ RivalIsKept /\ AllMade /\ ChosenIsRanked
  BY DEF MatchInv
<1>2. /\ at = "walk" /\ at' = "next" /\ next' = next + 1
      /\ two' = IF best = None THEN two ELSE two \cup {best}
      /\ UNCHANGED <<demand, listed, pair, best, one, chosen, clock, rival>>
  BY DEF WalksDone
<1>3. next <= Len(listed)
  BY <1>2 DEF MatchInv, AtSession
<1>4. RunTypes' /\ NothingYet' /\ AtSession'
  BY <1>1, <1>2, <1>3, Rows DEF RunTypes, NothingYet, AtSession
<1>5. AllMade'
  <2>1. \A d \in one' : Made(d, 1)'
    BY <1>1, <1>2, MadeStays DEF AllMade
  <2>2. \A d \in two' : Made(d, 2)
    BY <1>1, <1>2 DEF AllMade
  <2>3. \A d \in two' : Made(d, 2)'
    BY <1>2, <2>2, MadeStays
  <2>4. (best' = None \/ Made(best, 2)') /\ (rival' = None \/ Made(rival, 1)' \/ Made(rival, 2)')
    BY <1>1, <1>2 DEF AllMade, Made, RowFits, CanServe, Accepts, CandidateOf
  <2> QED
    BY <2>1, <2>3, <2>4 DEF AllMade
<1>6. OnePerSession'
  <2>1. \A d \in one \cup two : d.session \in Int /\ d.session < next
    BY <1>1, MadeAre, Rows DEF OnePerSession, AllMade
  <2>2. next \in Nat /\ (best # None => best.session = next)
    BY <1>1, <1>2, Rows DEF OnePerSession
  <2>3. \A d \in one' \cup two' : d.session < next'
    BY <1>2, <2>1, <2>2
  <2>4. best # None => \A d \in one \cup two : d.session # best.session
    BY <2>1, <2>2
  <2>5. \A d, e \in one' \cup two' : d.session = e.session => d = e
    BY <1>1, <1>2, <2>4 DEF OnePerSession
  <2> QED
    BY <1>2, <2>3, <2>5 DEF OnePerSession
<1>7. RivalIsKept' /\ ChosenIsRanked'
  BY <1>1, <1>2 DEF RivalIsKept, Upheld, ChosenIsRanked, Precedes
<1> QED
  BY <1>4, <1>5, <1>6, <1>7 DEF MatchInv

\* The run ends, or time passes.
LEMMA EndingKeeps ==
  ASSUME MatchInv, RunFails \/ ChooseFirst \/ NoCandidateFound \/ TimePasses
  PROVE  MatchInv'
<1>1. RunTypes /\ OnePerSession /\ RivalIsKept /\ AllMade /\ ChosenIsRanked /\ AtSession
  BY DEF MatchInv
<1>2. UNCHANGED <<demand, listed, next, pair, best, one, two, rival>>
  BY DEF RunFails, ChooseFirst, NoCandidateFound, TimePasses
<1>3. \/ at' = "failed" /\ chosen' = chosen /\ clock' = clock
      \/ at' = "offered" /\ at = "next" /\ chosen' \in Ranked /\ clock' = clock
      \/ at' = "none" /\ at = "next" /\ chosen' = chosen /\ clock' = clock
      \/ at' = at /\ at \in {"next", "exact", "walk"} /\ chosen' = chosen /\ clock' = clock + 1
  BY DEF RunFails, ChooseFirst, NoCandidateFound, TimePasses
<1>4. AllMade'
  BY <1>1, <1>2 DEF AllMade, Made, RowFits, CanServe, Accepts, CandidateOf
<1>5. RunTypes' /\ OnePerSession'
  BY <1>1, <1>2, <1>3 DEF RunTypes, OnePerSession
<1>6. RivalIsKept'
  BY <1>1, <1>2, <1>3 DEF RivalIsKept, Upheld, Precedes
<1>7. ChosenIsRanked'
  BY <1>1, <1>2, <1>3 DEF ChosenIsRanked, Ranked, First, Precedes
<1>8. AtSession' /\ NothingYet'
  BY <1>1, <1>2, <1>3 DEF AtSession, NothingYet, RowFits, CanServe
<1> QED
  BY <1>4, <1>5, <1>6, <1>7, <1>8 DEF MatchInv

-----------------------------------------------------------------------------
(* Theorems *)

LEMMA NextKeeps == MatchInv /\ [Next]_vars => MatchInv'
<1> SUFFICES ASSUME MatchInv, [Next]_vars PROVE MatchInv'
  OBVIOUS
<1>1. CASE ListSessions \/ SkipSession \/ TakeSession
  BY <1>1, ListSessionsKeeps, SkipSessionKeeps, TakeSessionKeeps
<1>2. ASSUME NEW a \in Answers, Evaluate(a) PROVE MatchInv'
  BY <1>2, ExactFitsKeeps, ExactDoesNotFitKeeps, WalkFitsKeeps, WalkDoesNotFitKeeps DEF Evaluate
<1>3. CASE WalksDone \/ RunFails \/ ChooseFirst \/ NoCandidateFound \/ TimePasses
  BY <1>3, WalksDoneKeeps, EndingKeeps
<1>4. CASE UNCHANGED vars
  BY <1>4 DEF vars, MatchInv, RunTypes, NothingYet, AtSession, AllMade, Made, OnePerSession, RivalIsKept, Upheld,
                ChosenIsRanked, Ranked, First, RowFits, CanServe, Accepts, CandidateOf, Precedes
<1> QED
  BY <1>1, <1>2, <1>3, <1>4 DEF Next, RunMatch

\* The invariant that the others are read off: every candidate FindCandidates keeps
\* is sound, and whatever it lets go is held off by one that it keeps.
THEOREM MatchInvariance == Spec => []MatchInv
<1>1. Init => MatchInv
  <2> SUFFICES ASSUME Init PROVE MatchInv
    OBVIOUS
  <2>1. RunTypes
    BY DEF Init, RunTypes
  <2> QED
    BY <2>1 DEF Init, MatchInv, NothingYet, AtSession, AllMade, OnePerSession, RivalIsKept, ChosenIsRanked
<1> QED
  BY <1>1, NextKeeps, PTL DEF Spec

\* Candidates belong to listed sessions, one for each and in one phase only.
THEOREM MatchingTypes == Spec => []TypeOK
<1>1. ASSUME MatchInv PROVE TypeOK
  <2>1. RunTypes /\ AllMade /\ OnePerSession /\ ChosenIsRanked
    BY <1>1 DEF MatchInv
  <2>2. \A c \in one : c \in Candidate /\ c.phase = 1 /\ c.session \in 1..Len(listed)
    BY <2>1, MadeAre DEF AllMade
  <2>3. \A c \in two : c \in Candidate /\ c.phase = 2 /\ c.session \in 1..Len(listed)
    BY <2>1, MadeAre DEF AllMade
  <2>4. best = None \/ (best \in Candidate /\ best.phase = 2)
    BY <2>1, MadeAre DEF AllMade
  <2>5. rival \in Candidate \cup {None} /\ chosen \in Candidate \cup {None}
    BY <2>1, <2>2, <2>3, MadeAre DEF AllMade, ChosenIsRanked
  <2> QED
    BY <2>1, <2>2, <2>3, <2>4, <2>5 DEF TypeOK, RunTypes, OnePerSession
<1> QED
  BY <1>1, MatchInvariance, PTL

\* The offer of runMatch goes to the best of all that the run met, in the
\* documented order, and phase 1 before phase 2.
THEOREM OfferIsAlwaysLeast == Spec => []OfferIsLeast
<1>1. ASSUME MatchInv PROVE OfferIsLeast
  <2> SUFFICES ASSUME at = "offered", rival # None
               PROVE  chosen.phase <= rival.phase /\ (chosen.phase = rival.phase => ~RanksBefore(rival, chosen))
    BY DEF OfferIsLeast
  <2>1. RunTypes /\ AllMade /\ RivalIsKept /\ ChosenIsRanked
    BY <1>1 DEF MatchInv
  <2>2. /\ \A c \in one : c \in Candidate /\ c.phase = 1
        /\ \A c \in two : c \in Candidate /\ c.phase = 2
        /\ rival \in Candidate /\ rival.phase \in {1, 2}
    BY <2>1, MadeAre DEF AllMade
  <2>3. chosen \in Ranked
    BY <2>1 DEF ChosenIsRanked
  <2>4. CASE one # {}
    <3>1. chosen \in one /\ \A c \in one : ~Precedes(c, chosen)
      BY <2>3, <2>4 DEF Ranked, First
    <3>2. rival.phase = 1 => rival \in one
      BY <2>1 DEF RivalIsKept
    <3> QED
      BY <2>2, <3>1, <3>2, OrderIsDocumented
  <2>5. CASE one = {}
    <3>1. chosen \in two /\ \A c \in two : ~Precedes(c, chosen)
      BY <2>3, <2>5 DEF Ranked, First
    <3>2. PICK m \in two : ~Precedes(rival, m)
      BY <2>1, <2>2, <2>5 DEF RivalIsKept, Upheld
    <3>3. ~Precedes(rival, chosen)
      BY <2>2, <3>1, <3>2, PrecedesIsWeak
    <3>4. rival.phase = 2
      BY <2>1, <2>2, <2>5 DEF RivalIsKept
    <3> QED
      BY <2>2, <3>1, <3>3, <3>4, OrderIsDocumented
  <2> QED
    BY <2>4, <2>5
<1> QED
  BY <1>1, MatchInvariance, PTL

\* Who is told that there is nobody has met nobody.
NobodyMet == at = "none" => rival = None

\* A new candidate is first itself or leaves somebody first: so the first of a
\* phase exists without an assumption that its candidates are finitely many.
LEMMA SomebodyStaysFirst ==
  ASSUME NEW S \in SUBSET Candidate, NEW c \in Candidate, S # {} => First(S) # {}
  PROVE  First(S \cup {c}) # {}
<1>1. ~Precedes(c, c)
  BY DEF Precedes, Candidate
<1>2. CASE S = {}
  BY <1>1, <1>2 DEF First
<1>3. CASE S # {}
  <2>1. PICK m \in S : \A d \in S : ~Precedes(d, m)
    BY <1>3 DEF First
  <2>2. CASE Precedes(c, m)
    <3>1. \A d \in S : ~Precedes(d, c)
      BY <2>1, <2>2, PrecedesIsTransitive
    <3>2. c \in First(S \cup {c})
      BY <1>1, <3>1, Zenon DEF First
    <3> QED BY <3>2
  <2>3. CASE ~Precedes(c, m)
    <3>1. m \in First(S \cup {c})
      BY <2>1, <2>3, Zenon DEF First
    <3> QED BY <3>1
  <2> QED BY <2>2, <2>3
<1> QED BY <1>2, <1>3

LEMMA SomebodyIsFirstStep ==
  ASSUME MatchInv, SomebodyIsFirst, [Next]_vars
  PROVE  SomebodyIsFirst'
<1>1. /\ RunTypes
      /\ one \subseteq Candidate /\ two \subseteq Candidate
      /\ best # None => best \in Candidate
  BY MadeAre DEF MatchInv, AllMade
<1>2. ASSUME UNCHANGED <<one, two>> PROVE SomebodyIsFirst'
  BY <1>2 DEF SomebodyIsFirst, First, Precedes
<1>3. ASSUME NEW a \in Answers, ExactFits(a) PROVE SomebodyIsFirst'
  <2>1. PICK c : c = CandidateOf(next, a, 1)
    OBVIOUS
  <2>2. c \in Candidate
    BY <1>3, <2>1, NextIsMade DEF ExactFits
  <2>3. one' = one \cup {c} /\ two' = two
    BY <1>3, <2>1 DEF ExactFits
  <2>4. First(one \cup {c}) # {}
    BY <1>1, <2>2, SomebodyStaysFirst DEF SomebodyIsFirst
  <2> QED BY <2>3, <2>4 DEF SomebodyIsFirst, First, Precedes
<1>4. CASE WalksDone
  <2>1. CASE best = None
    BY <1>2, <1>4, <2>1 DEF WalksDone
  <2>2. CASE best # None
    <3>1. PICK c \in Candidate : c = best
      BY <1>1, <2>2
    <3>2. two' = two \cup {c} /\ one' = one
      BY <1>4, <2>2, <3>1 DEF WalksDone
    <3>3. First(two \cup {c}) # {}
      BY <1>1, SomebodyStaysFirst DEF SomebodyIsFirst
    <3> QED BY <3>2, <3>3 DEF SomebodyIsFirst, First, Precedes
  <2> QED BY <2>1, <2>2
<1>5. CASE \/ ListSessions \/ SkipSession \/ TakeSession \/ RunFails \/ ChooseFirst \/ NoCandidateFound
           \/ TimePasses \/ UNCHANGED vars
           \/ \E a \in Answers : ExactDoesNotFit(a) \/ WalkFits(a) \/ WalkDoesNotFit(a)
  BY <1>2, <1>5 DEF ListSessions, SkipSession, TakeSession, RunFails, ChooseFirst, NoCandidateFound, TimePasses,
                    ExactDoesNotFit, WalkFits, WalkDoesNotFit, vars
<1> QED BY <1>3, <1>4, <1>5 DEF Next, RunMatch, Evaluate

\* Nobody the run has met is overlooked: ErrNoCandidateFound means that no session
\* and no walking point would do, and otherwise there is an offer to make.
THEOREM NobodyIsEverOverlooked == Spec => []NobodyIsOverlooked
<1>1. Init => SomebodyIsFirst
  BY DEF Init, SomebodyIsFirst
<1>2. MatchInv /\ SomebodyIsFirst /\ [Next]_vars => SomebodyIsFirst'
  BY SomebodyIsFirstStep
<1>3. ASSUME MatchInv, SomebodyIsFirst, at \in {"next", "none"}, rival # None
      PROVE  (one # {} \/ two # {}) /\ Ranked # {}
  <2>1. one # {} \/ two # {}
    BY <1>3 DEF MatchInv, RivalIsKept, Upheld
  <2> QED BY <1>3, <2>1 DEF SomebodyIsFirst, Ranked
<1>4. MatchInv /\ NobodyMet /\ [Next]_vars => NobodyMet'
  <2> SUFFICES ASSUME MatchInv, NobodyMet, [Next]_vars, at' = "none"
               PROVE  rival' = None
    BY DEF NobodyMet
  <2>1. NoCandidateFound \/ UNCHANGED vars \/ TimePasses
    BY DEF Next, RunMatch, Evaluate, ListSessions, SkipSession, TakeSession, ExactFits, ExactDoesNotFit,
           WalkFits, WalkDoesNotFit, WalksDone, ChooseFirst, RunFails
  <2>2. CASE NoCandidateFound
    BY <2>2 DEF NoCandidateFound, MatchInv, RivalIsKept, Upheld
  <2>3. CASE UNCHANGED vars \/ TimePasses
    BY <2>3 DEF vars, TimePasses, NobodyMet
  <2> QED BY <2>1, <2>2, <2>3
<1>5. Init => NobodyMet
  BY DEF Init, NobodyMet
<1>6. MatchInv /\ SomebodyIsFirst /\ NobodyMet => NobodyIsOverlooked
  BY <1>3 DEF NobodyIsOverlooked, NobodyMet
<1> QED
  BY <1>1, <1>2, <1>4, <1>5, <1>6, MatchInvariance, PTL DEF Spec

\* Every offer keeps what the documentation calls hard limits.
THEOREM OfferAlwaysKeepsLimits == Spec => []OfferKeepsLimits
<1>1. ASSUME MatchInv PROVE OfferKeepsLimits
  <2> SUFFICES ASSUME at = "offered" PROVE OfferKeepsLimits
    BY DEF OfferKeepsLimits
  <2>1. RunTypes /\ AllMade /\ ChosenIsRanked
    BY <1>1 DEF MatchInv
  <2>2. PICK phase \in {1, 2} : Made(chosen, phase)
    BY <2>1 DEF AllMade, ChosenIsRanked, Ranked, First
  <2>3. PICK i \in 1..Len(listed), a \in Answers :
          RowFits(i) /\ Accepts(listed[i], a) /\ chosen = CandidateOf(i, a, phase)
    BY <2>2 DEF Made
  <2>4. /\ chosen.session = i /\ chosen.detour = a.detour /\ chosen.eta = a.eta
        /\ chosen.walk = a.walkTo + a.walkFrom
    BY <2>3 DEF CandidateOf
  <2>5. /\ listed[i].state \in {"active", "full"} /\ listed[i].seats > 0
        /\ listed[i].gender # "none" /\ (demand.womenOnly => listed[i].gender = "female")
        /\ MaxStaleness > 0 => listed[i].age <= MaxStaleness
    BY <2>3 DEF RowFits, CanServe, HasSeatToOffer, OnTheRoad
  <2>6. /\ a.detour <= listed[i].limit /\ a.walkTo <= demand.maxTo /\ a.walkFrom <= demand.maxFrom
        /\ a.walkEta <= a.eta + SafetyBuffer
    BY <2>3 DEF Accepts
  <2> QED
    BY <2>4, <2>5, <2>6 DEF OfferKeepsLimits
<1> QED
  BY <1>1, MatchInvariance, PTL

-----------------------------------------------------------------------------
(* The run gets on *)

\* Later in the first place that differs.
Later(before, after) ==
  \E i \in 1..4 : before[i] < after[i] /\ \A j \in 1..(i - 1) : before[j] = after[j]

LEMMA LaterAt ==
  ASSUME NEW before, NEW after,
         \/ before[1] < after[1]
         \/ before[1] = after[1] /\ before[2] < after[2]
         \/ before[1] = after[1] /\ before[2] = after[2] /\ before[3] < after[3]
         \/ before[1] = after[1] /\ before[2] = after[2] /\ before[3] = after[3] /\ before[4] < after[4]
  PROVE  Later(before, after)
<1>1. /\ 1 \in 1..4 /\ 1..(1 - 1) = {}
      /\ 2 \in 1..4 /\ 1..(2 - 1) = {1}
      /\ 3 \in 1..4 /\ 1..(3 - 1) = {1, 2}
      /\ 4 \in 1..4 /\ 1..(4 - 1) = {1, 2, 3}
  OBVIOUS
<1>2. CASE before[1] < after[1]
  BY <1>1, <1>2 DEF Later
<1>3. CASE before[1] = after[1] /\ before[2] < after[2]
  BY <1>1, <1>3 DEF Later
<1>4. CASE before[1] = after[1] /\ before[2] = after[2] /\ before[3] < after[3]
  BY <1>1, <1>4 DEF Later
<1>5. CASE before[1] = after[1] /\ before[2] = after[2] /\ before[3] = after[3] /\ before[4] < after[4]
  BY <1>1, <1>5 DEF Later
<1> QED BY <1>2, <1>3, <1>4, <1>5

LEMMA PointsAreCounted == ASSUME RunTypes PROVE Pairs \in Nat
<1>1. demand.maxTo \in Int /\ demand.maxFrom \in Int
  BY Rows DEF DemandInput
<1>2. \A max \in Int : Points(max) \in Nat
  BY DEF Points
<1>3. \A a, b \in Nat : a * b \in Nat
  OBVIOUS
<1> QED BY <1>1, <1>2, <1>3 DEF Pairs

\* The walking points a run is at are among those there are, or past the last.
PairIsPoint == at = "walk" => pair \in 1..(Pairs + 1)

LEMMA PairIsPointStep ==
  ASSUME RunTypes, PairIsPoint, [Next]_vars
  PROVE  PairIsPoint'
<1>1. Pairs \in Nat /\ pair \in Nat
  BY PointsAreCounted DEF RunTypes
<1>2. demand' = demand
  BY DEF Next, RunMatch, Evaluate, ListSessions, SkipSession, TakeSession, ExactFits, ExactDoesNotFit, WalkFits,
         WalkDoesNotFit, WalksDone, ChooseFirst, NoCandidateFound, RunFails, TimePasses, vars
<1>3. Pairs' = Pairs
  BY <1>2 DEF Pairs, Points
<1>4. CASE \E a \in Answers : ExactDoesNotFit(a)
  BY <1>1, <1>3, <1>4 DEF ExactDoesNotFit, PairIsPoint
<1>5. CASE \E a \in Answers : WalkFits(a) \/ WalkDoesNotFit(a)
  BY <1>1, <1>3, <1>5 DEF WalkFits, WalkDoesNotFit, PairIsPoint
<1>6. CASE TimePasses \/ UNCHANGED vars
  BY <1>3, <1>6 DEF TimePasses, vars, PairIsPoint
<1>7. CASE \/ ListSessions \/ SkipSession \/ TakeSession \/ WalksDone \/ ChooseFirst \/ NoCandidateFound
           \/ RunFails \/ \E a \in Answers : ExactFits(a)
  BY <1>7 DEF ListSessions, SkipSession, TakeSession, WalksDone, ChooseFirst, NoCandidateFound, RunFails,
              ExactFits, PairIsPoint
<1> QED BY <1>4, <1>5, <1>6, <1>7 DEF Next, RunMatch, Evaluate

LEMMA StepsGoOn ==
  ASSUME RunTypes, Next, clock' = clock
  PROVE  Later(Progress, Progress')
<1>1. next \in Nat /\ pair \in Nat /\ clock \in Nat
  BY Rows DEF RunTypes
<1>2. /\ Progress[1] = CASE at = "list" -> 0 [] at \in {"next", "exact", "walk"} -> 1 [] OTHER -> 2
      /\ Progress[2] = next
      /\ Progress[3] = CASE at = "exact" -> 1 [] at = "walk" -> 2 [] OTHER -> 0
      /\ Progress[4] = IF at = "walk" THEN pair ELSE 0
  BY DEF Progress
<1>3. /\ Progress'[1] = CASE at' = "list" -> 0 [] at' \in {"next", "exact", "walk"} -> 1 [] OTHER -> 2
      /\ Progress'[2] = next'
      /\ Progress'[3] = CASE at' = "exact" -> 1 [] at' = "walk" -> 2 [] OTHER -> 0
      /\ Progress'[4] = IF at' = "walk" THEN pair' ELSE 0
  BY DEF Progress
<1>4. CASE \/ ListSessions \/ ChooseFirst \/ NoCandidateFound \/ RunFails
  <2>1. Progress[1] < Progress'[1]
    BY <1>2, <1>3, <1>4 DEF ListSessions, ChooseFirst, NoCandidateFound, RunFails
  <2> QED BY <2>1, LaterAt
<1>5. CASE SkipSession \/ WalksDone \/ \E a \in Answers : ExactFits(a)
  <2>1. Progress[1] = Progress'[1] /\ Progress[2] < Progress'[2]
    BY <1>1, <1>2, <1>3, <1>5 DEF SkipSession, WalksDone, ExactFits
  <2> QED BY <2>1, LaterAt
<1>6. CASE TakeSession \/ \E a \in Answers : ExactDoesNotFit(a)
  <2>1. Progress[1] = Progress'[1] /\ Progress[2] = Progress'[2] /\ Progress[3] < Progress'[3]
    BY <1>1, <1>2, <1>3, <1>6 DEF TakeSession, ExactDoesNotFit
  <2> QED BY <2>1, LaterAt
<1>7. CASE \E a \in Answers : WalkFits(a) \/ WalkDoesNotFit(a)
  <2>1. /\ Progress[1] = Progress'[1] /\ Progress[2] = Progress'[2] /\ Progress[3] = Progress'[3]
        /\ Progress[4] < Progress'[4]
    BY <1>1, <1>2, <1>3, <1>7 DEF WalkFits, WalkDoesNotFit
  <2> QED BY <2>1, LaterAt
<1>8. ~TimePasses
  BY <1>1 DEF TimePasses
<1> QED BY <1>4, <1>5, <1>6, <1>7, <1>8 DEF Next, RunMatch, Evaluate

\* FindCandidates never asks for the same points twice: with any listing, any
\* walking limits and any answers it gets nearer to its end with every call.
THEOREM RunAlwaysGetsOn == Spec => RunGetsOn
<1>1. Init => PairIsPoint
  BY DEF Init, PairIsPoint
<1>2. MatchInv /\ PairIsPoint /\ [Next]_vars => PairIsPoint'
  BY PairIsPointStep DEF MatchInv
<1>3. MatchInv /\ PairIsPoint /\ [Next]_vars =>
        [clock' = clock =>
           /\ \E i \in 1..4 :
                Progress[i] < Progress'[i] /\ \A j \in 1..(i - 1) : Progress[j] = Progress'[j]
           /\ at' = "walk" => pair' \in 1..(Pairs + 1)]_vars
  <2> SUFFICES ASSUME MatchInv, PairIsPoint, Next, clock' = clock
               PROVE  Later(Progress, Progress') /\ (at' = "walk" => pair' \in 1..(Pairs + 1))
    BY DEF Later
  <2>1. Later(Progress, Progress')
    BY StepsGoOn DEF MatchInv
  <2>2. PairIsPoint'
    BY PairIsPointStep DEF MatchInv
  <2>3. demand' = demand
    BY DEF Next, RunMatch, Evaluate, ListSessions, SkipSession, TakeSession, ExactFits, ExactDoesNotFit, WalkFits,
           WalkDoesNotFit, WalksDone, ChooseFirst, NoCandidateFound, RunFails, TimePasses
  <2>4. Pairs' = Pairs
    BY <2>3 DEF Pairs, Points
  <2> QED BY <2>1, <2>2, <2>4 DEF PairIsPoint
<1> QED BY <1>1, <1>2, <1>3, MatchInvariance, PTL DEF Spec, RunGetsOn

=============================================================================
