--------------------------------- MODULE Matching ---------------------------------
(***************************************************************************)
(* matching.Engine as runMatch calls it: which of the listed sessions is   *)
(* offered the demand.  The engine walks through the listing once, asks    *)
(* the routing provider for every session and point, and sorts what it     *)
(* kept.  The listing is a copy, of Redis or of Postgres, that grows old   *)
(* while the provider is asked; the provider answers what it likes, may    *)
(* answer the same question differently, and may fail.                     *)
(***************************************************************************)
EXTENDS DomainPolicies, Integers, Sequences

CONSTANTS
  Demands,        \* the demands matched: women only or not, the walking limits
  Listings,       \* the listings of sessions there may be
  Answers,        \* what the routing provider may say about a pair of points
  MaxStaleness,   \* Config: heartbeats older than this are ignored, 0 for never
  SafetyBuffer,   \* Config: how much later than the driver the rider may come
  MaxDelay        \* bound: how long a run takes

\* A session as listed, with the age of its heartbeat and its driver's verified
\* gender, "none" when the verification was not found; apart is how far the
\* driver's way is from the rider's.
Row == [state : SessionStates, seats : Nat, age : Nat, limit : Int, apart : Nat,
        gender : {"female", "male", "none"}]

DemandInput == [womenOnly : BOOLEAN, maxTo : Int, maxFrom : Int]

\* The calls for one pair of points: the driver to the pickup, the rider to the
\* pickup, the rider from the dropoff.
Answer == [eta : Nat, detour : Nat, walkEta : Nat, walkTo : Nat, walkFrom : Nat]

ASSUME MatchingAssumption ==
  /\ Demands \subseteq DemandInput /\ Listings \subseteq Seq(Row) /\ Answers \subseteq Answer
  /\ MaxStaleness \in Int /\ SafetyBuffer \in Nat /\ MaxDelay \in Nat

VARIABLES
  demand,   \* the demand being matched
  listed,   \* the sessions to go through
  at,       \* where the run is
  next,     \* the session it is at
  pair,     \* the walking points it is at
  best,     \* the best walking candidate of this session
  one, two, \* phaseOne and phaseTwo
  chosen,   \* the candidate the offer is made to
  clock,    \* time since the listing
  rival     \* history: any one acceptable candidate the run has met

vars == <<demand, listed, at, next, pair, best, one, two, chosen, clock, rival>>

-----------------------------------------------------------------------------
(* The parts of the engine *)

None == [phase |-> 0]

Candidate == [session : Nat, phase : {1, 2}, detour : Nat, eta : Nat, walk : Nat, apart : Nat, seats : Nat]

\* isStale: the heartbeat is before the cutoff when the session is reached.
IsStale(row) == MaxStaleness > 0 /\ row.age + clock > MaxStaleness

\* The session has a verification and CanDriverServeDemand.
CanServe(row) ==
  /\ HasSeatToOffer(row)
  /\ row.gender # "none"
  /\ demand.womenOnly => row.gender = "female"

\* Mutant: the driver may have to wait.
AcceptsWaiting(row, a) ==
  /\ a.walkTo <= demand.maxTo /\ a.walkFrom <= demand.maxFrom
  /\ a.detour <= row.limit

\* evaluateCandidate: the walks, the driver's wait and the detour are limits.
Accepts(row, a) ==
  /\ a.walkTo <= demand.maxTo /\ a.walkFrom <= demand.maxFrom
  /\ a.walkEta <= a.eta + SafetyBuffer
  /\ a.detour <= row.limit

\* Mutant: the phase is always the first.
CandidateOfPhaseOne(i, a, phase) ==
  [session |-> i, phase |-> 1, detour |-> a.detour, eta |-> a.eta,
   walk |-> a.walkTo + a.walkFrom, apart |-> listed[i].apart, seats |-> listed[i].seats]

CandidateOf(i, a, phase) ==
  [session |-> i, phase |-> phase, detour |-> a.detour, eta |-> a.eta,
   walk |-> a.walkTo + a.walkFrom, apart |-> listed[i].apart, seats |-> listed[i].seats]

\* Mutant: a tie in detour and arrival goes to the longer walk.
PrecedesByLongWalk(a, b) ==
  \/ a.detour < b.detour
  \/ a.detour = b.detour /\ a.eta < b.eta
  \/ a.detour = b.detour /\ a.eta = b.eta /\ a.walk > b.walk

\* compareCandidates(a, b) < 0.  The overlap score falls strictly with apart.
Precedes(a, b) ==
  \/ a.detour < b.detour
  \/ a.detour = b.detour /\ a.eta < b.eta
  \/ a.detour = b.detour /\ a.eta = b.eta /\ a.walk < b.walk
  \/ a.detour = b.detour /\ a.eta = b.eta /\ a.walk = b.walk /\ a.apart < b.apart
  \/ a.detour = b.detour /\ a.eta = b.eta /\ a.walk = b.walk /\ a.apart = b.apart
     /\ a.seats > b.seats

\* sortCandidates is not stable: any candidate nothing precedes may come first.
First(candidates) == {c \in candidates : \A d \in candidates : ~Precedes(d, c)}

\* radialCandidates: the point itself and four more for every step of the way,
\* the limits being counted in steps.
Points(max) == IF max <= 0 THEN 1 ELSE 1 + 4 * max

\* Every pickup with every dropoff.
Pairs == Points(demand.maxTo) * Points(demand.maxFrom)

-----------------------------------------------------------------------------
(* runMatch and FindCandidates *)

Init ==
  /\ demand \in Demands
  /\ listed = <<>> /\ at = "list" /\ next = 1 /\ pair = 1
  /\ best = None /\ one = {} /\ two = {} /\ chosen = None
  /\ clock = 0 /\ rival = None

\* What the run meets may be remembered, so what holds of rival holds of all.
Remember(c) == rival' \in {rival, c}

\* listCandidateSessions, Redis or else Postgres, with the verifications.
ListSessions ==
  /\ at = "list"
  /\ listed' \in Listings
  /\ at' = "next"
  /\ UNCHANGED <<demand, next, pair, best, one, two, chosen, clock, rival>>

SkipSession ==
  /\ at = "next" /\ next <= Len(listed)
  /\ IsStale(listed[next]) \/ ~CanServe(listed[next])
  /\ next' = next + 1
  /\ UNCHANGED <<demand, listed, at, pair, best, one, two, chosen, clock, rival>>

TakeSession ==
  /\ at = "next" /\ next <= Len(listed)
  /\ ~IsStale(listed[next]) /\ CanServe(listed[next])
  /\ at' = "exact"
  /\ UNCHANGED <<demand, listed, next, pair, best, one, two, chosen, clock, rival>>

\* Phase 1: the rider's own points.
ExactFits(a) ==
  /\ at = "exact" /\ Accepts(listed[next], a)
  /\ one' = one \cup {CandidateOf(next, a, 1)}
  /\ Remember(CandidateOf(next, a, 1))
  /\ at' = "next" /\ next' = next + 1
  /\ UNCHANGED <<demand, listed, pair, best, two, chosen, clock>>

ExactDoesNotFit(a) ==
  /\ at = "exact" /\ ~Accepts(listed[next], a)
  /\ at' = "walk" /\ pair' = 1 /\ best' = None
  /\ UNCHANGED <<demand, listed, next, one, two, chosen, clock, rival>>

\* Phase 2: a pair of walking points; a better one replaces the best so far.
WalkFits(a) ==
  LET c == CandidateOf(next, a, 2) IN
  /\ at = "walk" /\ pair <= Pairs
  /\ Accepts(listed[next], a)
  /\ best' = IF best = None \/ Precedes(c, best) THEN c ELSE best
  /\ Remember(c)
  /\ pair' = pair + 1
  /\ UNCHANGED <<demand, listed, at, next, one, two, chosen, clock>>

\* Mutant: a pair that does not fit starts the pairs over.
WalkStartsOver(a) ==
  /\ at = "walk" /\ pair <= Pairs
  /\ ~Accepts(listed[next], a)
  /\ pair' = 1
  /\ UNCHANGED <<demand, listed, at, next, best, one, two, chosen, clock, rival>>

WalkDoesNotFit(a) ==
  /\ at = "walk" /\ pair <= Pairs
  /\ ~Accepts(listed[next], a)
  /\ pair' = pair + 1
  /\ UNCHANGED <<demand, listed, at, next, best, one, two, chosen, clock, rival>>

WalksDone ==
  /\ at = "walk" /\ pair > Pairs
  /\ two' = IF best = None THEN two ELSE two \cup {best}
  /\ at' = "next" /\ next' = next + 1
  /\ UNCHANGED <<demand, listed, pair, best, one, chosen, clock, rival>>

\* An error of the store or of the routing provider, for whatever session, ends
\* the run without an offer, candidates or not.
RunFails ==
  /\ at \in {"list", "exact"} \/ (at = "walk" /\ pair <= Pairs)
  /\ at' = "failed"
  /\ UNCHANGED <<demand, listed, next, pair, best, one, two, chosen, clock, rival>>

\* Phase 2 counts only when phase 1 found nobody.
Ranked == IF one # {} THEN First(one) ELSE First(two)

ChooseFirst ==
  /\ at = "next" /\ next > Len(listed)
  /\ chosen' \in Ranked
  /\ at' = "offered"
  /\ UNCHANGED <<demand, listed, next, pair, best, one, two, clock, rival>>

\* Mutant: nobody in phase 1 is nobody at all.
NoCandidateInPhaseOne ==
  /\ at = "next" /\ next > Len(listed)
  /\ one = {}
  /\ at' = "none"
  /\ UNCHANGED <<demand, listed, next, pair, best, one, two, chosen, clock, rival>>

NoCandidateFound ==
  /\ at = "next" /\ next > Len(listed)
  /\ one = {} /\ two = {}
  /\ at' = "none"
  /\ UNCHANGED <<demand, listed, next, pair, best, one, two, chosen, clock, rival>>

\* The provider takes its time: up to ten seconds for one call.
TimePasses ==
  /\ at \in {"next", "exact", "walk"} /\ clock < MaxDelay
  /\ clock' = clock + 1
  /\ UNCHANGED <<demand, listed, at, next, pair, best, one, two, chosen, rival>>

Evaluate(a) == ExactFits(a) \/ ExactDoesNotFit(a) \/ WalkFits(a) \/ WalkDoesNotFit(a)

RunMatch ==
  \/ ListSessions \/ SkipSession \/ TakeSession
  \/ \E a \in Answers : Evaluate(a)
  \/ WalksDone \/ ChooseFirst \/ NoCandidateFound \/ RunFails

Next == RunMatch \/ TimePasses

Spec == Init /\ [][Next]_vars

\* Every call of the run returns: the http client has a timeout.
FairSpec == Spec /\ WF_vars(RunMatch)

-----------------------------------------------------------------------------
(* Properties *)

\* The candidates of a phase are candidates of that phase and of a listed
\* session, one for each session and in one of the phases only.
TypeOK ==
  /\ demand \in Demands /\ (listed = <<>> \/ listed \in Listings)
  /\ at \in {"list", "next", "exact", "walk", "offered", "none", "failed"}
  /\ next \in 1..Len(listed) + 1 /\ pair \in Nat /\ clock \in Nat
  /\ one \subseteq Candidate /\ two \subseteq Candidate
  /\ best \in Candidate \cup {None} /\ chosen \in Candidate \cup {None} /\ rival \in Candidate \cup {None}
  /\ \A c \in one : c.phase = 1 /\ c.session \in 1..Len(listed)
  /\ \A c \in two : c.phase = 2 /\ c.session \in 1..Len(listed)
  /\ best # None => best.phase = 2
  /\ \A c, d \in one \cup two : c.session = d.session => c = d

\* "Rank candidates by lower driver detour, faster pickup ETA, lower rider walking
\* burden, better overlap, healthier remaining capacity": the documented order
\* as one lexicographic comparison.
Rank(c) == <<c.detour, c.eta, c.walk, c.apart, 0 - c.seats>>

RanksBefore(a, b) == \E i \in 1..5 :
  /\ Rank(a)[i] < Rank(b)[i]
  /\ \A j \in 1..(i - 1) : Rank(a)[j] = Rank(b)[j]

\* Whoever is offered the demand is the best of all the sessions and walking
\* points the run met, in the documented order, and a driver who can serve the
\* rider's own points goes before everybody else.
OfferIsLeast ==
  at = "offered" /\ rival # None =>
    /\ chosen.phase <= rival.phase
    /\ chosen.phase = rival.phase => ~RanksBefore(rival, chosen)

\* A rider is told that there is no candidate only when the run has met none, in
\* neither phase and at no walking point; and when it has met one, the order
\* leaves somebody to be offered the demand, however many tie.
NobodyIsOverlooked ==
  /\ at = "none" => rival = None
  /\ at = "next" /\ next > Len(listed) /\ rival # None => Ranked # {}

\* What the documentation calls hard limits holds of every offer: a seat, a woman
\* where one is asked for, the driver's detour, the rider's walks and the driver's
\* wait; and the heartbeat was fresh in the listing.  A session may be full with a
\* seat left, as the code has it, where the documentation has active ones only.
OfferKeepsLimits ==
  at = "offered" =>
    LET row == listed[chosen.session] IN
    /\ row.state \in {"active", "full"} /\ row.seats > 0
    /\ row.gender # "none" /\ (demand.womenOnly => row.gender = "female")
    /\ MaxStaleness > 0 => row.age <= MaxStaleness
    /\ chosen.detour <= row.limit
    /\ \E a \in Answers :
         /\ a.detour = chosen.detour /\ a.eta = chosen.eta /\ a.walkTo + a.walkFrom = chosen.walk
         /\ a.walkTo <= demand.maxTo /\ a.walkFrom <= demand.maxFrom
         /\ a.walkEta <= a.eta + SafetyBuffer

\* "Only if phase 1 fails, evaluate rider walking pickup and dropoff candidates": so
\* a call about a walking point never costs the rider a driver who serves her where
\* she is.  A run that has a candidate of phase 1 does not fail for such a call.
WalkingCostsNobody == [][at = "walk" /\ at' = "failed" => one = {}]_vars

\* How far a run is: its end, the session, the calls for it, the walking points.
Progress ==
  <<CASE at = "list" -> 0 [] at \in {"next", "exact", "walk"} -> 1 [] OTHER -> 2,
    next,
    CASE at = "exact" -> 1 [] at = "walk" -> 2 [] OTHER -> 0,
    IF at = "walk" THEN pair ELSE 0>>

\* No answer of the provider and no walking limit makes the run ask again what it
\* has asked: every step but the passing of time goes on in the listing, or with
\* the session, or with its finitely many points.  This is why the run ends.
RunGetsOn ==
  [][clock' = clock =>
       /\ \E i \in 1..4 :
            Progress[i] < Progress'[i] /\ \A j \in 1..(i - 1) : Progress[j] = Progress'[j]
       /\ at' = "walk" => pair' \in 1..(Pairs + 1)]_vars

\* The run ends, whatever the limits and the answers.
MatchingEnds == <>(at \in {"offered", "none", "failed"})

=============================================================================
