----------------------------- MODULE OfferAcceptor -----------------------------
(***************************************************************************)
(* postgres.OfferAcceptor, statement by statement: the transaction locks   *)
(* the offer, the session and the demand one after the other and publishes *)
(* its writes when it commits.  Every other writer of these rows saves,    *)
(* one statement at a time, what its request read before, and waits for    *)
(* the lock of its row; the INSERT of an offer also waits for the rows it  *)
(* refers to.  RideDispatch takes the acceptance for one step: this module *)
(* shows that it may.                                                      *)
(***************************************************************************)
EXTENDS DomainPolicies

CONSTANTS
  Offers, Sessions, Demands,
  SessionOf, DemandOf,    \* the rows an offer refers to; a demand is offered once
  Capacity,               \* bound: seats in a vehicle
  Workers,                \* requests and workers, each with one thing to do
  NoOne

ASSUME AcceptorAssumption ==
  /\ SessionOf \in [Offers -> Sessions] /\ DemandOf \in [Offers -> Demands]
  /\ \A o, p \in Offers : DemandOf[o] = DemandOf[p] => o = p
  /\ Offers \cap Sessions = {} /\ Offers \cap Demands = {} /\ Sessions \cap Demands = {}
  /\ Capacity \in Nat /\ NoOne \notin Workers

VARIABLES
  offers, sessions, demands,  \* the committed rows, an offer "none" before its INSERT
  bookings,  \* ride_bookings, counted by the offer accepted
  owner,     \* who holds the row FOR UPDATE
  sharers,   \* who holds the row FOR KEY SHARE, as the INSERT of a reference does
  job        \* what each worker is doing

tables == <<offers, sessions, demands, bookings>>
locks == <<owner, sharers>>
vars == <<tables, locks, job>>

Rows == Offers \cup Sessions \cup Demands

SessionRow == [state : SessionStates, seats : 0..Capacity]

Idle == [at |-> "idle"]
Done == [at |-> "done"]

Init ==
  /\ offers \in [Offers -> {"none", "pending"}]
  /\ sessions \in [Sessions -> [state : {"active"}, seats : 1..Capacity]]
  /\ demands \in [Demands -> {"searching", "offered"}]
  /\ \A o \in Offers : demands[DemandOf[o]] = "offered" <=> offers[o] = "pending"
  /\ bookings = [o \in Offers |-> 0]
  /\ owner = [r \in Rows |-> NoOne] /\ sharers = [r \in Rows |-> {}]
  /\ job = [w \in Workers |-> Idle]

-----------------------------------------------------------------------------
(* Row locks *)

At(w, step) == job[w].at = step

MayUpdate(r) == owner[r] = NoOne
MayLock(r) == owner[r] = NoOne /\ sharers[r] = {}

Lock(w, r) == MayLock(r) /\ owner' = [owner EXCEPT ![r] = w] /\ UNCHANGED sharers
Share(w, r) == MayUpdate(r) /\ sharers' = [sharers EXCEPT ![r] = @ \cup {w}] /\ UNCHANGED owner

\* COMMIT and ROLLBACK release what the transaction holds.
Release(w) ==
  /\ owner' = [r \in Rows |-> IF owner[r] = w THEN NoOne ELSE owner[r]]
  /\ sharers' = [r \in Rows |-> sharers[r] \ {w}]

\* Mutant: the transaction of a refused acceptance is left open.
EndWithoutRollback(w) == UNCHANGED locks /\ job' = [job EXCEPT ![w] = Done]

\* A statement outside a transaction commits by itself; its request goes on.
GoOn(w, then) == Release(w) /\ job' = [job EXCEPT ![w] = then]

End(w) == GoOn(w, Done)

Rollback(w) == End(w) /\ UNCHANGED tables

-----------------------------------------------------------------------------
(* AcceptOffer *)

\* OfferService.Accept has found the offer and its driver.
BeginAccept(w, o) ==
  /\ job[w] = Idle /\ offers[o] # "none"
  /\ job' = [job EXCEPT ![w] = [at |-> "lockOffer", offer |-> o]]
  /\ UNCHANGED <<tables, locks>>

LockOffer(w) == LET o == job[w].offer IN
  /\ At(w, "lockOffer")
  /\ Lock(w, o)
  /\ OfferMayBecome(offers[o], "accepted")
  /\ job' = [job EXCEPT ![w].at = "lockSession"]
  /\ UNCHANGED tables

\* Mutant: the session is read without FOR UPDATE.
ReadSessionOnly(w) == LET s == SessionOf[job[w].offer] IN
  /\ At(w, "lockSession")
  /\ sessions[s].seats > 0
  /\ job' = [job EXCEPT ![w] = [at |-> "lockDemand", offer |-> @.offer, session |-> sessions[s]]]
  /\ UNCHANGED <<tables, locks>>

\* Mutant: the capacity is not looked at.
LockSessionUnchecked(w) == LET s == SessionOf[job[w].offer] IN
  /\ At(w, "lockSession")
  /\ Lock(w, s)
  /\ job' = [job EXCEPT ![w] = [at |-> "lockDemand", offer |-> @.offer, session |-> sessions[s]]]
  /\ UNCHANGED tables

LockSession(w) == LET s == SessionOf[job[w].offer] IN
  /\ At(w, "lockSession")
  /\ Lock(w, s)
  /\ sessions[s].seats > 0
  /\ job' = [job EXCEPT ![w] = [at |-> "lockDemand", offer |-> @.offer, session |-> sessions[s]]]
  /\ UNCHANGED tables

\* ErrCapacityExceeded, or the offer is not pending any more.
Refuse(w) ==
  /\ \/ At(w, "lockOffer") /\ MayLock(job[w].offer) /\ ~OfferMayBecome(offers[job[w].offer], "accepted")
     \/ At(w, "lockSession") /\ MayLock(SessionOf[job[w].offer]) /\ sessions[SessionOf[job[w].offer]].seats <= 0
  /\ Rollback(w)

\* The demand's state is not looked at.
LockDemand(w) ==
  /\ At(w, "lockDemand")
  /\ Lock(w, DemandOf[job[w].offer])
  /\ job' = [job EXCEPT ![w].at = "write"]
  /\ UNCHANGED tables

\* Mutant: the last seat makes the session full and stays.
TakenButTheLast(row) ==
  IF row.seats <= 1 THEN [row EXCEPT !.state = "full"] ELSE [row EXCEPT !.seats = row.seats - 1]

Taken(row) == [state |-> IF row.seats <= 1 THEN "full" ELSE row.state, seats |-> row.seats - 1]

\* The four statements, which only the transaction sees until it commits.
Write(w) ==
  /\ At(w, "write")
  /\ job' = [job EXCEPT ![w].at = "commit"]
  /\ UNCHANGED <<tables, locks>>

Commit(w) == LET o == job[w].offer IN
  /\ At(w, "commit")
  /\ offers' = [offers EXCEPT ![o] = "accepted"]
  /\ sessions' = [sessions EXCEPT ![SessionOf[o]] = Taken(job[w].session)]
  /\ demands' = [demands EXCEPT ![DemandOf[o]] = "matched"]
  /\ bookings' = [bookings EXCEPT ![o] = @ + 1]
  /\ End(w)

\* The deferred Rollback: a statement fails, the caller hangs up or the server dies.
AcceptFails(w) ==
  /\ job[w].at \in {"lockOffer", "lockSession", "lockDemand", "write", "commit"}
  /\ Rollback(w)

-----------------------------------------------------------------------------
(* The other writers *)

\* Heartbeat, TransitionState and the reconciler read a session...
ReadSession(w, s) ==
  /\ job[w] = Idle
  /\ job' = [job EXCEPT ![w] = [at |-> "saveSession", id |-> s, session |-> sessions[s]]]
  /\ UNCHANGED <<tables, locks>>

\* ...and save it with the same state or another, whatever the row is by then.
SaveSession(w) ==
  /\ At(w, "saveSession") /\ MayUpdate(job[w].id)
  /\ \E state \in SessionStates :
       /\ state = job[w].session.state \/ SessionMayBecome(job[w].session.state, state)
       /\ sessions' = [sessions EXCEPT ![job[w].id] = [job[w].session EXCEPT !.state = state]]
  /\ End(w)
  /\ UNCHANGED <<offers, demands, bookings>>

ReadOffer(w, o) ==
  /\ job[w] = Idle /\ OfferMayBecome(offers[o], "declined")
  /\ job' = [job EXCEPT ![w] = [at |-> "saveDecline", offer |-> o]]
  /\ UNCHANGED <<tables, locks>>

SaveDecline(w) ==
  /\ At(w, "saveDecline") /\ MayUpdate(job[w].offer)
  /\ offers' = [offers EXCEPT ![job[w].offer] = "declined"]
  /\ End(w)
  /\ UNCHANGED <<sessions, demands, bookings>>

\* Whoever saves a demand saves a copy, with the state it is meant to get.
DemandSave(d, state) == [at |-> "saveDemand", demand |-> d, state |-> state]

ReadDemand(w, d) ==
  /\ job[w] = Idle /\ DemandMayBecome(demands[d], "canceled")
  /\ job' = [job EXCEPT ![w] = DemandSave(d, "canceled")]
  /\ UNCHANGED <<tables, locks>>

\* The blind save of a cancellation, of a matching run or of the sweeper.
SaveDemand(w) ==
  /\ At(w, "saveDemand") /\ MayUpdate(job[w].demand)
  /\ demands' = [demands EXCEPT ![job[w].demand] = job[w].state]
  /\ End(w)
  /\ UNCHANGED <<offers, sessions, bookings>>

\* The sweeper finds a pending offer due or without its driver, and reads the
\* demand, which may fail.
ReadPending(w, o) ==
  /\ job[w] = Idle /\ offers[o] = "pending"
  /\ \E reset \in BOOLEAN :
       /\ reset => demands[DemandOf[o]] = "offered"
       /\ job' = [job EXCEPT ![w] = [at |-> "transition", offer |-> o, reset |-> reset]]
  /\ UNCHANGED <<tables, locks>>

\* Its UPDATE ... WHERE state = 'pending', once the lock is free, ...
TransitionPending(w) == LET o == job[w].offer IN
  /\ At(w, "transition") /\ MayUpdate(o)
  /\ offers[o] = "pending"
  /\ \E state \in {"expired", "withdrawn"} : offers' = [offers EXCEPT ![o] = state]
  /\ GoOn(w, IF job[w].reset THEN DemandSave(DemandOf[o], "searching") ELSE Done)
  /\ UNCHANGED <<sessions, demands, bookings>>

\* ... which finds no row if the offer was answered meanwhile.
TransitionMisses(w) ==
  /\ At(w, "transition") /\ MayUpdate(job[w].offer)
  /\ offers[job[w].offer] # "pending"
  /\ End(w)
  /\ UNCHANGED tables

\* Mutant: a matching that is retried inserts the offer again.
BeginInsertAgain(w, o) ==
  /\ job[w] = Idle
  /\ job' = [job EXCEPT ![w] = [at |-> "shareDemand", offer |-> o]]
  /\ UNCHANGED <<tables, locks>>

\* runMatch: the INSERT locks the demand, then the session, against deletion.
BeginInsert(w, o) ==
  /\ job[w] = Idle /\ offers[o] = "none"
  /\ \A v \in Workers : job[v].at \in {"shareDemand", "shareSession"} => job[v].offer # o
  /\ job' = [job EXCEPT ![w] = [at |-> "shareDemand", offer |-> o]]
  /\ UNCHANGED <<tables, locks>>

ShareDemand(w) ==
  /\ At(w, "shareDemand")
  /\ Share(w, DemandOf[job[w].offer])
  /\ job' = [job EXCEPT ![w].at = "shareSession"]
  /\ UNCHANGED tables

\* The offer is there, and runMatch goes on to save its demand as offered.
InsertOffer(w) ==
  /\ At(w, "shareSession") /\ MayUpdate(SessionOf[job[w].offer])
  /\ offers' = [offers EXCEPT ![job[w].offer] = "pending"]
  /\ GoOn(w, DemandSave(DemandOf[job[w].offer], "offered"))
  /\ UNCHANGED <<sessions, demands, bookings>>

Begin(w) ==
  \/ \E o \in Offers : BeginAccept(w, o) \/ ReadOffer(w, o) \/ ReadPending(w, o) \/ BeginInsert(w, o)
  \/ \E s \in Sessions : ReadSession(w, s)
  \/ \E d \in Demands : ReadDemand(w, d)

Step(w) ==
  \/ LockOffer(w) \/ LockSession(w) \/ Refuse(w) \/ LockDemand(w) \/ Write(w) \/ Commit(w)
  \/ SaveSession(w) \/ SaveDecline(w) \/ SaveDemand(w) \/ ShareDemand(w) \/ InsertOffer(w)
  \/ TransitionPending(w) \/ TransitionMisses(w)

Next == \E w \in Workers : Begin(w) \/ Step(w) \/ AcceptFails(w)

Spec == Init /\ [][Next]_vars

\* Postgres hands a lock to the statement that waits for it.
FairSpec == Spec /\ \A w \in Workers : WF_vars(Step(w))

-----------------------------------------------------------------------------
(* Properties *)

Steps == {"idle", "done", "lockOffer", "lockSession", "lockDemand", "write", "commit",
          "saveSession", "saveDecline", "saveDemand", "transition", "shareDemand", "shareSession"}

\* The CHECK of the schema on seats holds without being needed: no acceptance
\* takes a seat that is not there.
TypeOK ==
  /\ offers \in [Offers -> OfferStates \cup {"none"}]
  /\ sessions \in [Sessions -> SessionRow]
  /\ demands \in [Demands -> DemandStates]
  /\ bookings \in [Offers -> Nat]
  /\ owner \in [Rows -> Workers \cup {NoOne}] /\ sharers \in [Rows -> SUBSET Workers]
  /\ \A w \in Workers : job[w].at \in Steps

\* An acceptance decides on the rows as they are: between its reads and its commit
\* no decline, sweep, heartbeat or other acceptance changes the offer or the
\* session under it, and the two copies it will write lose nobody's update.
CopiesAreCurrent == \A w \in Workers :
  /\ job[w].at \in {"lockSession", "lockDemand", "write", "commit"} => offers[job[w].offer] = "pending"
  /\ job[w].at \in {"lockDemand", "write", "commit"} =>
       sessions[SessionOf[job[w].offer]] = job[w].session

\* An offer is booked once only, and never open again after that: not by a second
\* acceptance that waited for the first, nor by a rollback or a late decline.
OfferBookedOnce == \A o \in Offers :
  /\ bookings[o] <= 1
  /\ bookings[o] = 1 => offers[o] \notin {"none", "pending"}

\* What w's next statement needs: a row for itself alone, as FOR UPDATE does, ...
NeedsAlone(w, r) ==
  \/ At(w, "lockOffer") /\ r = job[w].offer
  \/ At(w, "lockSession") /\ r = SessionOf[job[w].offer]
  \/ At(w, "lockDemand") /\ r = DemandOf[job[w].offer]

\* ... or a row that nobody has locked FOR UPDATE.
NeedsUnowned(w, r) ==
  \/ At(w, "saveSession") /\ r = job[w].id
  \/ At(w, "saveDecline") /\ r = job[w].offer
  \/ At(w, "saveDemand") /\ r = job[w].demand
  \/ At(w, "transition") /\ r = job[w].offer
  \/ At(w, "shareDemand") /\ r = DemandOf[job[w].offer]
  \/ At(w, "shareSession") /\ r = SessionOf[job[w].offer]

WaitsFor(w, v) == \E r \in Rows :
  \/ owner[r] = v /\ (NeedsAlone(w, r) \/ NeedsUnowned(w, r))
  \/ v \in sharers[r] /\ NeedsAlone(w, r)

\* No deadlock: however many acceptances, inserts and saves wait for one another,
\* somebody among them waits for nobody else among them.  The insert of an offer
\* locks demand before session, the acceptance session before demand.
NobodyWaitsInACircle == \A circle \in SUBSET Workers :
  circle # {} => \E w \in circle : \A v \in circle : ~WaitsFor(w, v)

\* The interleaved statements have the effect of AtomicAcceptance's single step.
Ledger == INSTANCE AtomicAcceptance WITH
  Capacity <- [s \in Sessions |-> Capacity],
  offer <- [o \in {o \in Offers : offers[o] # "none"} |->
              [state |-> offers[o], demand |-> DemandOf[o], session |-> SessionOf[o]]],
  seats <- [s \in Sessions |-> sessions[s].seats],
  matched <- {d \in Demands : demands[d] = "matched"},
  booked <- {DemandOf[o] : o \in {o \in Offers : bookings[o] > 0}}
AcceptanceIsAtomic == Ledger!Spec

\* Nobody waits for a lock for ever: whoever starts comes to an end, because all
\* acceptances lock offer, session and demand in this order, the INSERTs of offers
\* never wait for an acceptance of the same demand, and every way out lets go.
EveryoneEnds == \A w \in Workers : job[w] # Idle ~> job[w] = Done

=============================================================================
