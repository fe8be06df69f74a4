------------------------------- MODULE RideDispatch -------------------------------
(***************************************************************************)
(* The dispatch core of the backend: trip demands, the matching run that   *)
(* turns a demand into an offer, the driver's answer, the driver sessions  *)
(* whose seats the bookings take, and the two background workers.          *)
(*                                                                         *)
(* Every repository Save is a full-row upsert, and every handler but the   *)
(* acceptance transaction reads a row, edits its copy and saves the copy   *)
(* later without a lock.  A handler is therefore one action per store      *)
(* call: the read leaves a pending write in the request slot, another      *)
(* request or worker may run, and the write puts the old copy back.        *)
(***************************************************************************)
EXTENDS DomainPolicies, FiniteSets

CONSTANTS
  DemandIds, OfferIds, SessionIds, BookingIds,  \* what the id generator hands out
  Requests,   \* slots for API requests in flight at the same time
  Capacity,   \* seats of the vehicle a session is started with
  Ops         \* what happens in this deployment: API calls, workers, faults

Workload == {"start", "heartbeat", "transition", "create", "cancel", "accept",
             "decline", "sweep", "reconcile", "presenceExpiry", "fault", "reconcileError"}

ASSUME CapacityAssumption == Capacity \in [SessionIds -> Nat \ {0}]
ASSUME OpsAssumption == Ops \subseteq Workload

VARIABLES
  demands,    \* trip_demands: state, and whether the matched points are recorded
  offers,     \* ride_offers
  sessions,   \* driver_sessions: state and remaining_capacity
  bookings,   \* ride_bookings
  presence,   \* Redis: the session row as last published
  overdue,    \* the offers older than the pending-offer TTL
  task,       \* what each request in flight will do next
  sweep,      \* the offer sweeper between two of its store calls
  reconcile   \* the presence reconciler between two of its store calls

vars == <<demands, offers, sessions, bookings, presence, overdue, task, sweep, reconcile>>
store == <<demands, offers, sessions, bookings, presence>>

-----------------------------------------------------------------------------
(* Rows and tables *)

DemandRow  == [state : DemandStates, matched : BOOLEAN]
OfferRow   == [state : OfferStates, demand : DemandIds, session : SessionIds]
SessionRow == [state : SessionStates, seats : Nat]
BookingRow == [demand : DemandIds, session : SessionIds, matched : BOOLEAN]

\* INSERT ... ON CONFLICT (id) DO UPDATE of every column; Redis SET.
Upsert(table, id, row) ==
  [x \in DOMAIN table \cup {id} |-> IF x = id THEN row ELSE table[x]]

\* Redis DEL.
Remove(table, id) == [x \in DOMAIN table \ {id} |-> table[x]]

\* ListActive and ListActiveSessions.
Listed(table) == {s \in DOMAIN table : table[s].state \in OnTheRoad}

PendingOffers == {o \in DOMAIN offers : offers[o].state = "pending"}

\* The zero TripDemand a failed lookup leaves behind.
NoDemand == [state |-> "none", matched |-> FALSE]

-----------------------------------------------------------------------------
(* Control state: requests in flight and the workers *)

Idle == [op |-> "idle"]

Task ==
       {Idle}
  \cup [op : {"runMatch", "saveOffered"}, demand : DemandIds]
  \cup [op : {"saveOffer"}, demand : DemandIds, session : SessionIds]
  \cup [op : {"saveDemand"}, demand : DemandIds, row : DemandRow]
  \cup [op : {"saveDecline"}, offer : OfferIds, row : OfferRow]
  \cup [op : {"saveHeartbeat", "saveTransition", "savePresence"}, session : SessionIds, row : SessionRow]
  \cup [op : {"deletePresence"}, session : SessionIds]

Asleep == [at |-> "asleep"]
AtList == [at |-> "list"]

\* Where the sweeper is with the offer it has taken from its list.
SweepCall ==
       [at : {"asleep", "list"}]
  \cup [at : {"session"}, offer : OfferIds, copy : DemandRow]
  \cup [at : {"transition"}, offer : OfferIds, verdict : {"expired", "withdrawn"},
        copy : DemandRow \cup {NoDemand}]
  \cup [at : {"reset"}, offer : OfferIds, copy : DemandRow]

\* due holds the offers that were past their TTL when the sweep took the time.
SweepState == [todo : SUBSET OfferIds, due : SUBSET OfferIds, call : SweepCall]

\* A session the reconciler found stale, with the row it had then.
Stale == [session : SessionIds, row : SessionRow]

ReconcileState ==
       {Asleep}
  \cup [at : {"pause"}, todo : SUBSET Stale]
  \cup [at : {"delete"}, todo : SUBSET Stale, session : SessionIds]

\* A repository before its first row.
EmptyTable == [x \in {} |-> x]

Init ==
  /\ demands = EmptyTable /\ offers = EmptyTable /\ sessions = EmptyTable
  /\ bookings = EmptyTable /\ presence = EmptyTable
  /\ overdue = {}
  /\ task = [p \in Requests |-> Idle]
  /\ sweep = [todo |-> {}, due |-> {}, call |-> Asleep]
  /\ reconcile = Asleep

\* Request p goes on with t.
Continue(p, t) == task' = [task EXCEPT ![p] = t]

workers == <<sweep, reconcile>>

-----------------------------------------------------------------------------
(* DriverSessionService *)

\* Start: a session gets the seats of its vehicle, is saved, then published.
Start(p, s) ==
  LET row == [state |-> "active", seats |-> Capacity[s]] IN
  /\ "start" \in Ops
  /\ task[p] = Idle
  /\ s \notin DOMAIN sessions
  /\ sessions' = Upsert(sessions, s, row)
  /\ Continue(p, [op |-> "savePresence", session |-> s, row |-> row])
  /\ UNCHANGED <<demands, offers, bookings, presence, overdue, workers>>

\* Heartbeat reads the whole row, whatever its state, to write it back later.
Heartbeat(p, s) ==
  /\ "heartbeat" \in Ops
  /\ task[p] = Idle
  /\ s \in DOMAIN sessions
  /\ Continue(p, [op |-> "saveHeartbeat", session |-> s, row |-> sessions[s]])
  /\ UNCHANGED <<store, overdue, workers>>

\* Mutant: active without a look at the seats.
MovedBlindly(row, next) == [row EXCEPT !.state = next]

\* A session without seats that goes active goes full.
Moved(row, next) ==
  [row EXCEPT !.state = IF next = "active" /\ row.seats = 0 THEN "full" ELSE next]

TransitionState(p, s, next) ==
  /\ "transition" \in Ops
  /\ task[p] = Idle
  /\ s \in DOMAIN sessions
  /\ SessionMayBecome(sessions[s].state, next)
  /\ Continue(p, [op |-> "saveTransition", session |-> s,
                  row |-> Moved(sessions[s], next)])
  /\ UNCHANGED <<store, overdue, workers>>

\* The saved row goes to Redis next.
Publish(p) == [op |-> "savePresence", session |-> task[p].session, row |-> task[p].row]

\* A heartbeat publishes what it saved, an ended session included.
SaveHeartbeat(p) ==
  /\ task[p].op = "saveHeartbeat"
  /\ sessions' = Upsert(sessions, task[p].session, task[p].row)
  /\ Continue(p, Publish(p))
  /\ UNCHANGED <<demands, offers, bookings, presence, overdue, workers>>

\* A transition to ended takes the session out of Redis, any other publishes it.
SaveTransition(p) ==
  /\ task[p].op = "saveTransition"
  /\ sessions' = Upsert(sessions, task[p].session, task[p].row)
  /\ Continue(p, IF task[p].row.state = "ended"
                   THEN [op |-> "deletePresence", session |-> task[p].session]
                   ELSE Publish(p))
  /\ UNCHANGED <<demands, offers, bookings, presence, overdue, workers>>

SavePresence(p) ==
  /\ task[p].op = "savePresence"
  /\ presence' = Upsert(presence, task[p].session, task[p].row)
  /\ Continue(p, Idle)
  /\ UNCHANGED <<demands, offers, sessions, bookings, overdue, workers>>

DeletePresence(p) ==
  /\ task[p].op = "deletePresence"
  /\ presence' = Remove(presence, task[p].session)
  /\ Continue(p, Idle)
  /\ UNCHANGED <<demands, offers, sessions, bookings, overdue, workers>>

-----------------------------------------------------------------------------
(* TripDemandService *)

\* Create saves the demand as searching and goes on to match it, once.
CreateDemand(p, d) ==
  /\ "create" \in Ops
  /\ task[p] = Idle
  /\ d \notin DOMAIN demands
  /\ demands' = Upsert(demands, d, [state |-> "searching", matched |-> FALSE])
  /\ Continue(p, [op |-> "runMatch", demand |-> d])
  /\ UNCHANGED <<offers, sessions, bookings, presence, overdue, workers>>

\* runMatch reads the candidates from Redis or, when Redis fails or lists
\* nobody, from Postgres; geometry, gender and pricing choose among those
\* with a seat in the copy that was read.
ChooseCandidate(p) ==
  /\ task[p].op = "runMatch"
  /\ \E table \in {presence, sessions} : \E s \in Listed(table) :
       /\ HasSeatToOffer(table[s])
       /\ Continue(p, [op |-> "saveOffer", demand |-> task[p].demand, session |-> s])
  /\ UNCHANGED <<store, overdue, workers>>

\* ErrNoCandidateFound: the demand stays searching and nobody matches it again.
NoCandidate(p) ==
  /\ task[p].op = "runMatch"
  /\ Continue(p, Idle)
  /\ UNCHANGED <<store, overdue, workers>>

SaveOffer(p, o) ==
  /\ task[p].op = "saveOffer"
  /\ o \notin DOMAIN offers
  /\ offers' = Upsert(offers, o, [state |-> "pending", demand |-> task[p].demand,
                                  session |-> task[p].session])
  /\ Continue(p, [op |-> "saveOffered", demand |-> task[p].demand])
  /\ UNCHANGED <<demands, sessions, bookings, presence, overdue, workers>>

\* The copy Create made, now offered and with the matched points, over whatever
\* the row has become since.
SaveOffered(p) ==
  /\ task[p].op = "saveOffered"
  /\ demands' = Upsert(demands, task[p].demand, [state |-> "offered", matched |-> TRUE])
  /\ Continue(p, Idle)
  /\ UNCHANGED <<offers, sessions, bookings, presence, overdue, workers>>

CancelDemand(p, d) ==
  /\ "cancel" \in Ops
  /\ task[p] = Idle
  /\ d \in DOMAIN demands
  /\ DemandMayBecome(demands[d].state, "canceled")
  /\ Continue(p, [op |-> "saveDemand", demand |-> d,
                  row |-> [demands[d] EXCEPT !.state = "canceled"]])
  /\ UNCHANGED <<store, overdue, workers>>

SaveDemand(p) ==
  /\ task[p].op = "saveDemand"
  /\ demands' = Upsert(demands, task[p].demand, task[p].row)
  /\ Continue(p, Idle)
  /\ UNCHANGED <<offers, sessions, bookings, presence, overdue, workers>>

-----------------------------------------------------------------------------
(* OfferService *)

\* Mutant: the last seat makes the session full and stays.
SeatTakenButTheLast(row) ==
  IF row.seats = 1 THEN [row EXCEPT !.state = "full"] ELSE [row EXCEPT !.seats = @ - 1]

\* The last seat makes the session full, whatever its state was.
SeatTaken(row) ==
  [state |-> IF row.seats = 1 THEN "full" ELSE row.state, seats |-> row.seats - 1]

\* Mutant: the booking is inserted outside the transaction and may fail alone.
InsertBookingAlone(o, b) == UNCHANGED bookings

\* The assigned booking; until SaveOffered it takes the requested points.
InsertBooking(o, b) ==
  bookings' = Upsert(bookings, b, [demand |-> offers[o].demand, session |-> offers[o].session,
                                   matched |-> demands[offers[o].demand].matched])

\* AcceptOffer locks the offer, the session and the demand and commits them
\* together with the booking, so it is one step.  It checks the offer's state
\* and the seats; the states of the session and of the demand it does not ask.
AcceptOffer(o, b) ==
  LET d == offers[o].demand
      s == offers[o].session
  IN
  /\ "accept" \in Ops
  /\ o \in DOMAIN offers
  /\ b \notin DOMAIN bookings
  /\ OfferMayBecome(offers[o].state, "accepted")
  /\ sessions[s].seats > 0
  /\ offers' = [offers EXCEPT ![o].state = "accepted"]
  /\ InsertBooking(o, b)
  /\ sessions' = [sessions EXCEPT ![s] = SeatTaken(@)]
  /\ demands' = [demands EXCEPT ![d].state = "matched"]
  /\ UNCHANGED <<presence, overdue, task, workers>>

DeclineOffer(p, o) ==
  /\ "decline" \in Ops
  /\ task[p] = Idle
  /\ o \in DOMAIN offers
  /\ OfferMayBecome(offers[o].state, "declined")
  /\ Continue(p, [op |-> "saveDecline", offer |-> o,
                  row |-> [offers[o] EXCEPT !.state = "declined"]])
  /\ UNCHANGED <<store, overdue, workers>>

\* The demand of a declined offer is left as it is.
SaveDecline(p) ==
  /\ task[p].op = "saveDecline"
  /\ offers' = Upsert(offers, task[p].offer, task[p].row)
  /\ Continue(p, Idle)
  /\ UNCHANGED <<demands, sessions, bookings, presence, overdue, workers>>

\* A store error, a dead client or a crash ends a request between two calls.
AbandonRequest(p) ==
  /\ "fault" \in Ops
  /\ task[p] # Idle
  /\ Continue(p, Idle)
  /\ UNCHANGED <<store, overdue, workers>>

-----------------------------------------------------------------------------
(* Offer sweeper *)

\* A pending offer outlives its TTL.  (The age of a settled offer is not read.)
OfferTTLElapses(o) ==
  /\ "sweep" \in Ops
  /\ o \in PendingOffers \ overdue
  /\ overdue' = overdue \cup {o}
  /\ UNCHANGED <<store, task, workers>>

\* The sweeper's next call is c.
SweepCalls(c) == sweep' = [sweep EXCEPT !.call = c]

\* Mutant: the age is compared the wrong way round.
DueTooEarly == PendingOffers \ overdue

\* The pending offers whose TTL has passed.
DueOffers == PendingOffers \cap overdue

\* SweepOnce lists the pending offers and takes the time once for all of them.
SweepStart ==
  /\ "sweep" \in Ops
  /\ sweep.call = Asleep
  /\ sweep' = [todo |-> PendingOffers, due |-> DueOffers, call |-> AtList]
  /\ UNCHANGED <<store, overdue, task, reconcile>>

SweepDone ==
  /\ sweep.call = AtList
  /\ sweep.todo = {}
  /\ sweep' = [todo |-> {}, due |-> {}, call |-> Asleep]
  /\ UNCHANGED <<store, overdue, task, reconcile>>

\* Mutant: the age is not looked at before the driver.
AsksForDriverFirst(o, copy) == copy.state \in {"draft", "searching", "offered"}

\* The driver decides about an offer within its TTL whose demand is not over.
AsksForDriver(o, copy) == o \notin sweep.due /\ copy.state \in {"draft", "searching", "offered"}

\* classifyPendingOffer up to its read of the demand: an offer past its TTL
\* expires, one whose demand is over, or cannot be read, is withdrawn.
SweepReadDemand(o) ==
  /\ sweep.call = AtList
  /\ o \in sweep.todo
  /\ \E copy \in {demands[offers[o].demand]} \cup {c \in {NoDemand} : "fault" \in Ops} :
       LET call == IF AsksForDriver(o, copy)
                     THEN [at |-> "session", offer |-> o, copy |-> copy]
                     ELSE [at |-> "transition", offer |-> o, copy |-> copy,
                           verdict |-> IF o \in sweep.due THEN "expired" ELSE "withdrawn"]
       IN  sweep' = [todo |-> sweep.todo \ {o}, due |-> sweep.due \ {o}, call |-> call]
  /\ UNCHANGED <<store, overdue, task, reconcile>>

\* The rest of classifyPendingOffer: withdrawn when the driver has left the
\* road, has a stale heartbeat or cannot be read, ...
SweepWithdraws ==
  /\ sweep.call.at = "session"
  /\ SweepCalls([at |-> "transition", offer |-> sweep.call.offer,
                 verdict |-> "withdrawn", copy |-> sweep.call.copy])
  /\ UNCHANGED <<store, overdue, task, reconcile>>

\* ... and left alone while the driver is on the road.
SweepSkips ==
  /\ sweep.call.at = "session"
  /\ sessions[offers[sweep.call.offer].session].state \in OnTheRoad
  /\ SweepCalls(AtList)
  /\ UNCHANGED <<store, overdue, task, reconcile>>

\* Mutant: the update does not look at the state.
TransitionAny(o, state) == offers' = [offers EXCEPT ![o].state = state]

\* UPDATE ride_offers ... WHERE id = o AND state = 'pending'.
TransitionPending(o, state) ==
  /\ offers[o].state = "pending"
  /\ offers' = [offers EXCEPT ![o].state = state]

\* Mutant: any demand that is not over is sent back, an unread one included.
RequeuesAny(copy) == copy.state # "matched"

\* The copies of demands the sweeper sends back to searching.
Requeues(copy) == copy.state = "offered"

\* What follows the update of the offer in the loop.
Requeue ==
  IF Requeues(sweep.call.copy)
    THEN [at |-> "reset", offer |-> sweep.call.offer, copy |-> sweep.call.copy]
    ELSE AtList

\* When the update took the offer, its demand is sent back to searching if the
\* copy read before says offered.
SweepTransition ==
  /\ sweep.call.at = "transition"
  /\ TransitionPending(sweep.call.offer, sweep.call.verdict)
  /\ SweepCalls(Requeue)
  /\ UNCHANGED <<demands, sessions, bookings, presence, overdue, task, reconcile>>

\* Mutant: no continue after the update that found no pending row.
SweepGoesOnAfterFailure ==
  /\ sweep.call.at = "transition"
  /\ offers[sweep.call.offer].state # "pending"
  /\ SweepCalls(Requeue)
  /\ UNCHANGED <<store, overdue, task, reconcile>>

\* Somebody else settled the offer, or the update failed: on to the next one.
SweepTransitionFails ==
  /\ sweep.call.at = "transition"
  /\ offers[sweep.call.offer].state # "pending" \/ "fault" \in Ops
  /\ SweepCalls(AtList)
  /\ UNCHANGED <<store, overdue, task, reconcile>>

\* The stale copy goes back as searching; an error of this Save is dropped.
SweepResetsDemand ==
  /\ sweep.call.at = "reset"
  /\ \/ demands' = Upsert(demands, offers[sweep.call.offer].demand,
                          [sweep.call.copy EXCEPT !.state = "searching"])
     \/ "fault" \in Ops /\ UNCHANGED demands
  /\ SweepCalls(AtList)
  /\ UNCHANGED <<offers, sessions, bookings, presence, overdue, task, reconcile>>

\* The process dies in the middle of a sweep and starts again.
SweepCrashes ==
  /\ "fault" \in Ops
  /\ sweep.call # Asleep
  /\ sweep' = [todo |-> {}, due |-> {}, call |-> Asleep]
  /\ UNCHANGED <<store, overdue, task, reconcile>>

-----------------------------------------------------------------------------
(* Presence reconciler and Redis *)

\* ReconcileStaleSessions lists the sessions on the road; those whose
\* heartbeat is too old (any of them, heartbeats stop at will) get paused.
ReconcileStart ==
  /\ "reconcile" \in Ops
  /\ reconcile = Asleep
  /\ \E stale \in SUBSET Listed(sessions) \ {{}} :
       reconcile' = [at |-> "pause",
                     todo |-> {[session |-> s, row |-> sessions[s]] : s \in stale}]
  /\ UNCHANGED <<store, overdue, task, sweep>>

\* The row as it was listed goes back as paused.
ReconcilePauses ==
  /\ reconcile.at = "pause"
  /\ \E item \in reconcile.todo :
       /\ sessions' = Upsert(sessions, item.session, [item.row EXCEPT !.state = "paused"])
       /\ reconcile' = [at |-> "delete", todo |-> reconcile.todo \ {item},
                        session |-> item.session]
  /\ UNCHANGED <<demands, offers, bookings, presence, overdue, task, sweep>>

ReconcileDeletes ==
  /\ reconcile.at = "delete"
  /\ presence' = Remove(presence, reconcile.session)
  /\ reconcile' = IF reconcile.todo = {}
                    THEN Asleep
                    ELSE [at |-> "pause", todo |-> reconcile.todo]
  /\ UNCHANGED <<demands, offers, sessions, bookings, overdue, task, sweep>>

\* The first error ends the run: the sessions still in todo are not paused.
ReconcileFails ==
  /\ "reconcileError" \in Ops
  /\ reconcile # Asleep
  /\ reconcile' = Asleep
  /\ UNCHANGED <<store, overdue, task, sweep>>

\* The key of a session without heartbeats expires.
PresenceExpires(s) ==
  /\ "presenceExpiry" \in Ops
  /\ s \in DOMAIN presence
  /\ presence' = Remove(presence, s)
  /\ UNCHANGED <<demands, offers, sessions, bookings, overdue, task, workers>>

-----------------------------------------------------------------------------
RequestArrives(p) ==
  \/ \E s \in SessionIds :
       Start(p, s) \/ Heartbeat(p, s) \/ \E next \in SessionStates : TransitionState(p, s, next)
  \/ \E d \in DemandIds : CreateDemand(p, d) \/ CancelDemand(p, d)
  \/ \E o \in OfferIds : DeclineOffer(p, o)

RequestGoesOn(p) ==
  \/ SaveHeartbeat(p) \/ SaveTransition(p) \/ SavePresence(p) \/ DeletePresence(p)
  \/ ChooseCandidate(p) \/ NoCandidate(p) \/ SaveOffered(p)
  \/ \E o \in OfferIds : SaveOffer(p, o)
  \/ SaveDemand(p) \/ SaveDecline(p)

Sweeper ==
  \/ SweepStart \/ SweepDone \/ SweepWithdraws \/ SweepSkips
  \/ \E o \in OfferIds : SweepReadDemand(o)
  \/ SweepTransition \/ SweepTransitionFails \/ SweepResetsDemand

Reconciler ==
  ReconcileStart \/ ReconcilePauses \/ ReconcileDeletes

Next ==
  \/ \E p \in Requests : RequestArrives(p) \/ RequestGoesOn(p) \/ AbandonRequest(p)
  \/ \E o \in OfferIds, b \in BookingIds : AcceptOffer(o, b)
  \/ Sweeper \/ SweepCrashes
  \/ Reconciler \/ ReconcileFails
  \/ \E o \in OfferIds : OfferTTLElapses(o)
  \/ \E s \in SessionIds : PresenceExpires(s)

Spec == Init /\ [][Next]_vars

\* Run of the sweeper is a loop around a ticker that only the end of the
\* process leaves, a handler that has started runs to its end, and time passes.
FairSpec ==
  /\ Spec
  /\ WF_vars(Sweeper)
  /\ \A p \in Requests : WF_vars(RequestGoesOn(p))
  /\ \A o \in OfferIds : WF_vars(OfferTTLElapses(o))

-----------------------------------------------------------------------------
(* Properties *)

\* Every table, request and worker holds rows of its kind.
TypeOK ==
  /\ demands \in [DOMAIN demands -> DemandRow] /\ DOMAIN demands \subseteq DemandIds
  /\ offers \in [DOMAIN offers -> OfferRow] /\ DOMAIN offers \subseteq OfferIds
  /\ sessions \in [DOMAIN sessions -> SessionRow] /\ DOMAIN sessions \subseteq SessionIds
  /\ bookings \in [DOMAIN bookings -> BookingRow] /\ DOMAIN bookings \subseteq BookingIds
  /\ presence \in [DOMAIN presence -> SessionRow] /\ DOMAIN presence \subseteq SessionIds
  /\ overdue \subseteq OfferIds
  /\ task \in [Requests -> Task]
  /\ sweep \in SweepState
  /\ reconcile \in ReconcileState

BookingsOf(s) == {b \in DOMAIN bookings : bookings[b].session = s}

IsBooked(d) == \E b \in DOMAIN bookings : bookings[b].demand = d

\* The offers made for d.
OffersFor(d) == {o \in DOMAIN offers : offers[o].demand = d}

\* A demand never ends up with two drivers: accepting, declining and sweeping
\* the offers and resaving the demand race, but one offer gives one booking.
OneBookingPerDemand ==
  \A b, c \in DOMAIN bookings : bookings[b].demand = bookings[c].demand => b = c

\* The sweeper never expires or withdraws an offer a driver has accepted: the
\* offer behind a booking, to the session of the booking, is never pending
\* again, expired or withdrawn.  (A racing decline does overwrite it.)
BookedOfferIsAnswered ==
  \A b \in DOMAIN bookings : \E o \in OffersFor(bookings[b].demand) :
    /\ offers[o].session = bookings[b].session
    /\ offers[o].state \in {"accepted", "declined"}

\* What riders and drivers are told is backed by a booking: no offer is left
\* accepted, no demand matched, without one, not even by a stale Save.
AcceptedIsBooked ==
  /\ \A o \in DOMAIN offers : offers[o].state = "accepted" => IsBooked(offers[o].demand)
  /\ \A d \in DOMAIN demands : demands[d].state = "matched" => IsBooked(d)

\* A rider who is told to be searching has no driver: the sweeper puts a demand
\* back only after it has won the offer, so the demand is not booked, and no
\* driver can accept its old offer any more.
SearchingIsFree ==
  \A d \in DOMAIN demands : demands[d].state = "searching" =>
    /\ ~IsBooked(d)
    /\ demands[d].matched => \A o \in OffersFor(d) : offers[o].state # "pending"

\* The seats a session row shows, in Postgres or in Redis, never exceed the
\* vehicle, and no race loses a seat for good: whatever stale copies
\* heartbeats, transitions and the reconciler write, every missing seat has a
\* booking.  (The converse, that no booking lacks a seat, is NoOverbooking.)
SeatsAreAccountedFor ==
  \A table \in {sessions, presence} : \A s \in DOMAIN table :
    /\ table[s].seats <= Capacity[s]
    /\ table[s].seats + Cardinality(BookingsOf(s)) >= Capacity[s]

\* A session listed as active has a seat left, in Postgres and in Redis, after
\* any mix of acceptances, stale saves and changes of state.
ActiveHasSeat ==
  \A table \in {sessions, presence} : \A s \in DOMAIN table :
    table[s].state = "active" => table[s].seats > 0

\* The sweep under way will expire o.
Expiring(o) ==
  \/ o \in sweep.due
  \/ sweep.call.at = "transition" /\ sweep.call.offer = o /\ sweep.call.verdict = "expired"

\* No offer that was past its TTL when the sweep began slips through it: whatever
\* drivers, riders and the driver's session do meanwhile, it is settled by the time
\* the sweep is done with it.  This is why every offer is settled.
DueOffersDoNotSlip ==
  [][\A o \in OfferIds : Expiring(o) /\ ~Expiring(o)' => offers'[o].state # "pending"]_vars

-----------------------------------------------------------------------------
(* The inductive invariant behind the safety properties *)

\* What a row refers to exists: nothing is ever deleted from Postgres.
RowKeys ==
  /\ \A o \in DOMAIN offers :
       offers[o].demand \in DOMAIN demands /\ offers[o].session \in DOMAIN sessions
  /\ \A b \in DOMAIN bookings :
       bookings[b].demand \in DOMAIN demands /\ bookings[b].session \in DOMAIN sessions
  /\ DOMAIN presence \subseteq DOMAIN sessions

\* A handler holds ids it has read or saved.
TaskKeys(t) ==
  /\ t.op \in {"runMatch", "saveOffer", "saveOffered", "saveDemand"}
       => t.demand \in DOMAIN demands
  /\ t.op \in {"saveOffer", "saveHeartbeat", "saveTransition", "savePresence", "deletePresence"}
       => t.session \in DOMAIN sessions
  /\ t.op = "saveDecline" => t.offer \in DOMAIN offers

WorkerKeys ==
  /\ sweep.todo \subseteq DOMAIN offers
  /\ sweep.call.at \in {"session", "transition", "reset"} => sweep.call.offer \in DOMAIN offers
  /\ reconcile.at # "asleep" => \A item \in reconcile.todo : item.session \in DOMAIN sessions
  /\ reconcile.at = "delete" => reconcile.session \in DOMAIN sessions

ForeignKeys ==
  /\ RowKeys
  /\ \A p \in Requests : TaskKeys(task[p])
  /\ WorkerKeys

\* A demand is matched by one run, which makes at most one offer.
Matching(t) == t.op \in {"runMatch", "saveOffer"}

OneOfferPerDemand ==
  /\ \A o, q \in DOMAIN offers : offers[o].demand = offers[q].demand => o = q
  /\ \A p \in Requests : Matching(task[p]) => OffersFor(task[p].demand) = {}
  /\ \A p, q \in Requests :
       Matching(task[p]) /\ Matching(task[q]) /\ task[p].demand = task[q].demand => p = q

\* What a copy in flight can write: a decline keeps the columns of its offer, a
\* cancellation only cancels, and whoever writes matched points has seen or
\* made the offer they belong to.
CopyIsFaithful(t) ==
  /\ t.op = "saveDecline" => t.row = [offers[t.offer] EXCEPT !.state = "declined"]
  /\ t.op = "saveDemand" =>
       t.row.state = "canceled" /\ (t.row.matched => OffersFor(t.demand) # {})
  /\ t.op = "saveOffered" => OffersFor(t.demand) # {}

CopiesInFlight ==
  /\ \A p \in Requests : CopyIsFaithful(task[p])
  /\ \A d \in DOMAIN demands : demands[d].matched => OffersFor(d) # {}

\* The sweeper resets a demand only after it has taken the offer away from it.
ResetIsDeserved ==
  sweep.call.at = "reset" =>
    /\ offers[sweep.call.offer].state # "pending"
    /\ ~IsBooked(offers[sweep.call.offer].demand)

DispatchInv ==
  /\ TypeOK
  /\ ForeignKeys
  /\ OneOfferPerDemand
  /\ CopiesInFlight
  /\ OneBookingPerDemand
  /\ BookedOfferIsAnswered
  /\ AcceptedIsBooked
  /\ SearchingIsFree
  /\ ResetIsDeserved

\* What is true of every row of session s, in a table or in a copy in flight,
\* from the moment it was read: the seats missing in it have been booked.
RowIsSound(s, row) ==
  /\ row.seats <= Capacity[s]
  /\ row.seats + Cardinality(BookingsOf(s)) >= Capacity[s]
  /\ row.state = "active" => row.seats > 0

SeatsInv ==
  /\ IsFiniteSet(DOMAIN bookings)
  /\ \A s \in DOMAIN sessions : RowIsSound(s, sessions[s])
  /\ \A s \in DOMAIN presence : RowIsSound(s, presence[s])
  /\ \A p \in Requests : task[p].op \in {"saveHeartbeat", "saveTransition", "savePresence"}
       => RowIsSound(task[p].session, task[p].row)
  /\ reconcile.at # "asleep" =>
       \A item \in reconcile.todo : RowIsSound(item.session, item.row)

\* The operations that write back a session row they have read before.
BlindSessionSaves == {"heartbeat", "transition", "reconcile"}

\* Without them a session row has just the seats that are not booked: acceptances
\* that race with each other, with declines, cancellations and sweeps neither lose
\* a seat nor sell one twice.
SeatsMatchBookings == \A s \in DOMAIN sessions :
  sessions[s].seats + Cardinality(BookingsOf(s)) = Capacity[s]

\* None of them is under way.
NoSessionCopies ==
  /\ \A p \in Requests : task[p].op \notin {"saveHeartbeat", "saveTransition"}
  /\ reconcile = Asleep

-----------------------------------------------------------------------------
(* Refinement *)

\* Where a demand stands in the contract of RideContract.
Phase(d) ==
  IF IsBooked(d) THEN "booked"
  ELSE IF \E o \in OffersFor(d) : offers[o].state = "pending" THEN "open"
  ELSE IF OffersFor(d) # {} THEN "lost"
  ELSE "none"

phase == [d \in DemandIds |-> Phase(d)]

Contract == INSTANCE RideContract WITH DemandIds <- DemandIds, phase <- phase

\* Dispatch keeps the contract: one offer per demand, settled once, a booking
\* for ever, although SaveDecline and SaveOffered overwrite blindly.
KeepsContract == Contract!Spec

\* And, while the sweeper runs and nothing fails, every offer is settled in the
\* end, whether the driver answers or not.
SettlesEveryOffer == Contract!FairSpec

\* What OfferAcceptor's statements add up to is what happens here in one step: an
\* acceptance takes offer, seat and demand together, for a demand nobody has booked,
\* and nothing else books, matches, or gives a session more seats than its vehicle.
Ledger == INSTANCE AtomicAcceptance WITH
  Offers <- OfferIds, Sessions <- SessionIds, Demands <- DemandIds,
  offer <- offers,
  seats <- [s \in DOMAIN sessions |-> sessions[s].seats],
  matched <- {d \in DOMAIN demands : demands[d].state = "matched"},
  booked <- {bookings[b].demand : b \in DOMAIN bookings}

AcceptsAtomically == Ledger!Spec

-----------------------------------------------------------------------------
(* Properties the documentation states and the code does not keep *)

\* "A driver session can host multiple riders up to vehicle capacity."  It does
\* where nobody saves a session blindly: then no mix of acceptances, declines,
\* sweeps, cancellations and failures sells a seat twice.
NoOverbooking ==
  \A s \in DOMAIN sessions : Cardinality(BookingsOf(s)) <= Capacity[s]

\* What CanTransitionTo calls terminal is final: a demand matched, canceled or
\* aborted, an offer that was answered, a session that ended.
TerminalStatesAreFinal ==
  [][/\ \A d \in DOMAIN demands : demands[d].state \in {"matched", "canceled", "aborted"}
          => demands'[d].state = demands[d].state
     /\ \A o \in DOMAIN offers : offers[o].state # "pending"
          => offers'[o].state = offers[o].state
     /\ \A s \in DOMAIN sessions : sessions[s].state = "ended"
          => sessions'[s].state = "ended"]_vars

\* A demand that is still offered although nobody can accept it any more.
Stranded(d) ==
  /\ d \in DOMAIN demands
  /\ demands[d].state = "offered"
  /\ \A o \in OffersFor(d) : offers[o].state # "pending"

\* "Offer sweeper worker cleans up stale offers and returns demands to
\* searching": a demand whose offers are all over does not stay offered.
OfferedDemandsMoveOn == \A d \in DemandIds : Stranded(d) ~> ~Stranded(d)

=============================================================================
