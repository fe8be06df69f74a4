# Verification of smallworld-be

TLA+ specifications of the ride-pooling backend, model-checked with TLC and
proved with TLAPS. Source paths are relative to the repository (`src/`).

## 1. The system

A rider asks for a ride (*trip demand*), the backend matches it with a driver
who is on the road (*driver session*), offers the ride to that driver (*ride
offer*), and an accepted offer becomes a *ride booking*, which rider and driver
take through pickup and ride to completion, and review. One process
(`cmd/api/main.go`) serves the HTTP API, one goroutine per request, runs two
background workers and keeps the websockets of the realtime hub. State lives in
Postgres; Redis holds a copy of the sessions for matching. Apart from the hub's
mutex, the row locks of the acceptance's transaction are the only locks: every
other handler reads a row, changes its copy and saves *the whole row*.

### Components

| component | source | state | operations | must be correct about | modelled in |
|---|---|---|---|---|---|
| Domain policies | `internal/domain/{states,policies}.go` | none | `CanTransitionTo`, eligibility, tracking | one meaning in every place | `DomainPolicies` |
| Trip demands | `service/trip_demand_service.go` | `trip_demands` | `Create` (save, match, offer, save again), `Cancel` | offered once; agrees with offers and bookings | `RideDispatch`, `Accounts`, `Matching` |
| Offers | `service/offer_service.go`, `postgres/offer_acceptor.go` | `ride_offers`, `ride_bookings` | `Accept` (one transaction, `FOR UPDATE`), `Decline` | one booking per demand, a seat per booking | `RideDispatch`, `OfferAcceptor` |
| Driver sessions | `service/driver_session_service.go` | `driver_sessions`, Redis | `Start`, `Heartbeat`, `TransitionState`, reconcile, tracking | seats and state, in Postgres and Redis | `RideDispatch`, `Accounts`, `BookingLifecycle` |
| Offer sweeper | `background/offers/sweeper.go` | one sweep | every 5 s: expire or withdraw pending offers, demand back to searching | no accepted offer swept; every offer settled | `RideDispatch` |
| Presence reconciler | `background/presence/reconciler.go` | one run | every 5 s: pause sessions without heartbeats | never harms a session's seats | `RideDispatch` |
| Postgres repositories | `postgres/*.go`, `migrations` | all tables | full-row upserts, lists, conditional update, seed | single statements, the schema's constraints | where a service uses them |
| Redis | `redisstate/redis.go` | presence (30 s TTL), ephemeral offers | set, delete, list | never more than Postgres | `RideDispatch` |
| Matching engine | `matching/engine.go` | none | `FindCandidates`: two phases, limits, order | the best eligible candidate | `Matching` |
| Bookings, reviews | `service/{booking,review}_service.go` | `ride_bookings`, `reviews` | transitions, tracking, reviews | no ride or review out of thin air, positions to the rider only | `BookingLifecycle` |
| Idempotency | `service/*`, `repositories.go` | `idempotency_keys` | lookup before, record after the work | the answer belongs to the question | `Accounts` |
| Realtime hub | `realtime/hub.go` | connected clients | register, unregister, publish | no live client lost, no lost one kept | `RealtimeHub` |
| Accounts | `service/{profile,vehicle,verification,dev_bootstrap}_service.go` | users, vehicles, verifications | find-or-create, upserts | one account per subject; only eligible people act | `Accounts` |
| HTTP, auth | `interfaces/http` | none | authenticate, resolve the user, call one service | who may call what | `Accounts`, `BookingLifecycle` |
| Providers | `routing`, `pricing`, `push` | none | ask outside | errors and timeouts end a run | `Matching` (routing) |
| In-memory store, logging | `memory`, `foundation` | | | | not modelled, section 7 |

### Interactions and what is hard

* `Create` calls the matching run, which reads sessions from Redis (Postgres
  when Redis fails or is empty), saves the offer, and *then* saves its old copy
  of the demand as offered. The driver sees the offer before that second save.
* Accept locks offer, session and demand and commits them with the booking.
  Decline, heartbeat, state change, cancellation and both workers do *not* take
  these locks: their read and their write are separate steps around which an
  acceptance can commit.
* The sweeper reads offers, then a demand, then a session, updates the offer
  only if it is still pending, and then saves the demand copy it read before.
* Postgres and Redis are written one after the other. Either can fail.
* A process crash, a client that goes away (the request context is cancelled)
  or a store error leaves any prefix of a handler's writes.
* The acceptance locks three rows in a fixed order; the foreign keys of an offer
  that is being inserted take locks in another one.
* The matching run asks the routing provider once per session and point, up to
  ten seconds each, about sessions it has listed before, and one failing call ends
  it for all of them.
* Find-or-create (users, plates, idempotency keys) is a lookup and a later
  insert; only unique constraints stand between two requests.
* Services publish to the hub after they have saved. A publisher sends to a copy
  of a user's connections without the mutex while they come and go, and may
  clean up one that its own goroutine is cleaning up.

`PROJECT.json` lists these hazards at their lines with the properties that watch
them.

## 2. The modules

| module | models |
|---|---|
| `DomainPolicies` | the states and the transition tables of `internal/domain` |
| `RideContract` | abstract: where a demand stands (none, open, booked, lost), and the moves a rider may rely on |
| `RideDispatch` | the core: demands, offers, acceptance, sessions, Redis, sweeper, reconciler; refines `RideContract` and `AtomicAcceptance` |
| `AtomicAcceptance` | abstract: an acceptance is one step that takes offer, seat and demand and books; everything else saves one row |
| `OfferAcceptor` | the acceptance statement by statement under row locks, against every other writer of its rows; refines `AtomicAcceptance` |
| `Matching` | `runMatch` and the engine: listing, phases, routing calls, order |
| `Membership` | abstract: people join, are verified, get vehicles, lose none of it, and ask for rides only when they may |
| `Accounts` | authentication, sign-up, dev bootstrap, vehicles, demo seed, idempotent creation; refines `Membership` |
| `RealtimeHub` | the hub: registration, sending, both clean-ups |
| `BookingLifecycle` | bookings, tracking, reviews; extends `RealtimeHub`, through which it publishes |
| `MC...` | `MCRideDispatch`, `MCOfferAcceptor`, `MCMatching`, `MCAccounts`, `MCRealtimeHub`, `MCBookings`: instances for TLC |
| `RideDispatchProofs`, `RideDispatchSafety`, `RideDispatchSeats` | proofs about `RideDispatch` |
| `OfferAcceptorProofs`, `MatchingProofs`, `AccountsProofs`, `RealtimeHubProofs`, `BookingProofs` | proofs about the module of that name |

How they fit together: `RideDispatch` takes the acceptance for one step
(`AcceptOffer`) where `OfferAcceptor` has seven statements under locks. That both
mean the same is formal: both refine `AtomicAcceptance`, the one with its
`AcceptOffer`, the other with its `Commit` as the abstract `Accept`. `RideDispatch`
takes any session with a seat
for a possible candidate, of which `Matching` shows which one it is; and it takes
demands and sessions that come from nowhere, which `Accounts` lets only eligible
people make. What it leaves in `ride_bookings` is where `BookingLifecycle` begins.

### How RideDispatch corresponds to the code

*One action per store call.* A handler that reads a row and writes it later is
two actions, or more. In between, what it will do next sits in `task[p]`, `p`
being a slot for one request in flight, together with the copy it holds:
`Heartbeat` reads a session and leaves `saveHeartbeat` with the row;
`SaveHeartbeat` upserts that row, however old, and goes on with `savePresence`.
The sweeper's position is `sweep` (`todo`: offers still to visit; `due`: those
past the TTL when the sweep took the time; `call`: the next call and the demand
copy), the reconciler's is `reconcile`.

* `Create` is `CreateDemand`, `ChooseCandidate` or `NoCandidate`, `SaveOffer`,
  `SaveOffered`. The last writes exactly the row `Create` built (offered, with
  the matched points), not a fresh one.
* `AcceptOffer` is one action because `offer_acceptor.go` does all its reads
  `FOR UPDATE` and its writes in one transaction. Like the code it checks the
  offer's state and the seats, and neither the demand's nor the session's state.
* `Decline` and `Cancel` are read, then blind save; the only conditional update
  is the sweeper's `TransitionPending`.
* `Upsert` is `INSERT ... ON CONFLICT DO UPDATE` of all columns; ids are fresh
  when the generator hands them out.
* Time: `OfferTTLElapses` lets any pending offer cross its TTL, once. Heartbeat
  ages are a choice: the reconciler may find any session on the road stale, the
  sweeper may find any driver stale, a Redis key may expire at any time.
* Geometry, gender, verification, price: `ChooseCandidate` may take any listed
  session that is active or full and has a seat in the copy that was read, and
  `NoCandidate` is always possible. This is more than the engine does.
* `fault` in `Ops` adds: a request ends between two calls (`AbandonRequest`), a
  lookup, an update or the dropped-error Save of the sweeper fails, a worker
  dies in the middle. `reconcileError` adds that the reconciler returns on its first
  error. A handler that fails is one that ends early; rows already written stay.

Rows carry what the properties tell apart: states, seats, the foreign keys, and
whether the matched points are set. Columns that no handler's control flow reads
are left out.

### How the other modules correspond to the code

*OfferAcceptor.* A worker is a request or a background worker with one thing to
do. `LockOffer`, `LockSession`, `LockDemand`, `Write` and `Commit` are the
statements of `AcceptOffer` in their order. The writes are published by the
commit, and `AcceptFails` rolls back at any statement. `owner` is who
holds a row `FOR UPDATE`, `sharers` who holds it `FOR KEY SHARE`, as Postgres does
for the rows an inserted offer refers to. The other writers read, and save later in
a statement of their own that waits for the lock: declines and session saves
blindly, the sweeper with one conditional update (`TransitionPending`, or
`TransitionMisses` when the offer was answered). `SaveDemand` is the blind save of a
demand wherever it comes from: a cancellation, the second save of a matching run
after `InsertOffer`, or the reset of the sweeper after `TransitionPending`.

*Matching.* `at`, `next` and `pair` are the engine's two loops. `ExactFits`,
`ExactDoesNotFit` are phase 1 for a session, `WalkFits`, `WalkDoesNotFit`,
`WalksDone` phase 2, one action per pair of points. What the routing provider says
is a member of `Answers`, chosen anew at each call; any call may fail
(`RunFails`). `TimePasses` ages the heartbeats of the listing. `Points` counts
`radialCandidates` with the limits in steps. `First` is any candidate that none
precedes, since the sort is not stable. `rival` is a history variable: any one
acceptable candidate the run has met, so that what holds of it holds of all.

*Accounts.* `call[c]` is a request with the statement it is at; each action is one
statement, under the unique, check and foreign keys of the schema. `Arrive` is
`authMiddleware` with `requireUserID`, `Fail` any refusal or error, `Crash` the end
of the process with all its requests. `SeedDemoData` succeeds for a prefix of its
statements. A demand and a session are both a *resource* made from the payload that
is hashed for the key; equal hash is equal payload. Three sequences of reads are one
step each, because the rows they read never go again: the checks of `Start`, the
record of a key with the row it leads to, and the answer of `handleAuthMe`. `women`
is a history variable: who has been verified as a woman at some time.

*RealtimeHub.* `reader[c]` is the goroutine of a connection (`ServeHTTP`),
`publish[p]` a `PublishToUser` in progress with the copy it still has to send to.
`Register`, `Leave`, `Drop` are the sections under the mutex; sends and closes are
outside it. A send to a lost peer may succeed or fail.

*BookingLifecycle.* A request is a publisher of the hub; `request[p]` is its next
store call with the copy it holds, or the letters still to be published.
`TransitionForActor` checks, `SaveBooking` saves blindly. The states a row has been
in are the history variable `been`; `raced` holds the bookings of which two
transitions had read the row before either saved it. `SessionSaved` stands for all that
`RideDispatch` does to the session row. `Restart` loses requests and connections.

## 3. Properties

`RideDispatch`

* `OneBookingPerDemand`: accept, decline, sweep and the blind saves race, yet a
  demand is booked at most once.
* `BookedOfferIsAnswered`: the sweeper never takes the offer behind a booking.
* `AcceptedIsBooked`: accepted and matched are never shown without a booking.
* `SearchingIsFree`: a demand in searching is unbooked, and once it has been
  offered, its old offer is over.
* `SeatsAreAccountedFor`: no stale save ever loses a seat for good; each one
  missing in Postgres or Redis is booked.
* `ActiveHasSeat`: active means a seat is left, also after stale saves.
* `SeatsMatchBookings`: where nobody saves a session row blindly, its seats and its
  bookings add up to the vehicle's (with blind saves they do not, section 5).
* `DueOffersDoNotSlip`: an offer past its TTL when a sweep begins is answered,
  expired or withdrawn by the time the sweep has dealt with it.
* `KeepsContract`: the refinement of `RideContract!Spec`.
* `AcceptsAtomically`: the refinement of `AtomicAcceptance!Spec`.
* `SettlesEveryOffer`: the refinement of `RideContract!FairSpec`, which adds
  that every offer is settled in the end.

`OfferAcceptor`

* `CopiesAreCurrent`: between its reads and its commit an acceptance's copies of
  offer and session are what the rows say.
* `AcceptanceIsAtomic`: the refinement of `AtomicAcceptance!Spec`. It implies that an
  offer is booked once and never open again (`OfferBookedOnce`).
* `NobodyWaitsInACircle`: among any transactions one waits for none of the others,
  although the insert of an offer locks demand before session and the acceptance
  session before demand.
* `EveryoneEnds`: no deadlock and no lock held for ever.

`Matching`

* `OfferIsLeast`: nobody the run met comes before the one who is offered the ride,
  in the documented order, phase 1 first.
* `OfferKeepsLimits`: the documented hard limits hold of every offer, against the
  copy of the session that was listed. What the row says by then is another matter:
  `SeatsMatchBookings` says that an acceptance counts the seats of the row.
* `NobodyIsOverlooked`: "no candidate" is said only when the run met none, and when
  it met one the order leaves somebody to be chosen.
* `WalkingCostsNobody`: a call about a walk ends no run that has somebody who needs
  none (violated, section 5).
* `RunGetsOn`: no step of the run, whatever was answered, takes it back to a session
  or a point it has asked about.
* `MatchingEnds`: the run ends.

`Accounts`

* `SignInsAgree`: one account per person, and every request works for it.
* `AnswersMatch`: whoever retries is told of a resource of their own, made from
  the same input.
* `RetriesMakeNothing`: a retry sent after the key was recorded makes nothing.
* `ReadyStays`: who was told to be ready is not turned away.
* `WomenAskForWomen`: a demand for women drivers only is of somebody whom `Create`
  has seen verified as a woman. That the verification still says so when the demand
  is saved does not hold: a bootstrap may overwrite the gender in between.
* `KeepsMembership`: the refinement of `Membership!Spec`. It implies that only verified
  people own demands, and only verified owners of a vehicle own sessions
  (`OwnersAreEligible`).

`RealtimeHub`

* `LiveClientsAreListed`, `GoneIsForgotten`, `LostClientsLeave`: no clean-up takes a
  live connection, no lost one is kept, every lost one leaves.

`BookingLifecycle`

* `CompletedRodeAlong`: whichever blind saves cross, a completed ride had its rider
  on board, who had been at the pickup.
* `ReviewsAreEarned`: a review is of a completed ride, by one party about the other.
* `PushesAreTrue`: a push or answer concerns its user and was the case; positions
  go to the rider of a running booking alone.
* `RidesMoveForward`: unless two transitions of one booking overlap, every save of
  its row, however late, goes forward along the table of transitions.
* `OverMeansTheSame`: transitions, tracking and the list of active bookings agree on
  what is over.

Each module has one type invariant besides. Each property is checked against a
mutant, a plausible bug of the code, that it catches (`PROJECT.json`, "mutants"; the
mutant operators stand next to what they change).

## 4. Runs

In `RideDispatch`, `Ops` names the operations a run enables, so that each run
spends its states on one question.

| run | bounds | shows | states |
|---|---|---|---|
| `dispatch_offers` | 2 demands, offers, bookings; 1 session of 2 seats; 2 requests; every fault | offers, demands, bookings and seats stay consistent, whatever is left half done | 1655 k |
| `dispatch_seats` | same sizes; heartbeats, transitions, expiry, a reconciler that may fail | seats and active sessions | 635 k |
| `dispatch_settles` | 1 of each, 2 seats, every operation, no faults but the reconciler's; fairness | every offer is settled, a sweep settles what is due, the acceptance is atomic | 160 k |
| `acceptor` | 2 offers of 2 demands and 1 session of 2 seats; 3 workers; fairness | atomicity, no circle of waiting, everyone ends | 136 k |
| `matching` | listings of up to 2 of 6 kinds of session; 3 demands; 11 answers; one step of walking and of time; fairness | the right offer, nobody overlooked, the end of the run | 196 k |
| `accounts` | 2 people, 3 accounts and 3 vehicles (one of each the demo's), 2 resources, 1 key, 2 requests | accounts, eligibility, idempotency, membership | 731 k |
| `hub` | 3 connections of 2 users, 2 publishers; fairness | no live client lost, every lost one leaves | 44 k |
| `bookings` | 1 booking, a connection of the rider and one of the driver, 1 review, 2 requests | rides, reviews, pushes | 2321 k |
| `dispatch_overbooking` | one seat, 2 riders | violation: two bookings on one seat | |
| `dispatch_terminal` | 1 of each; no decline, session change or worker | violation: a matched demand turns offered | |
| `dispatch_stranded` | 1 of each, no answers; fairness | violation: a sweep between the saves of a match strands the demand | |
| `matching_walks` | `matching`, riders who would walk | violation: a call about a walk costs a rider the driver she had | |

Why these bounds: every race of the code is between two parties over one row (a
copy and the write that comes in between), so two requests next to the two
workers and the atomic acceptance suffice to have a holder of a stale copy, an
intruder, and a worker. Two demands on one session are the least in which
bookings compete for seats. With one request slot (`dispatch_settles`) the
parties are the request, the acceptance, the sweeper and the reconciler. In
`acceptor` three workers let one hold a lock, one wait for it, and one hold what
the first needs next. In `matching` two sessions are what an order compares, and
the answers lie on both sides of every limit. In `accounts` the inputs hold
equal and different payloads under one key, of one and of two people. In `hub`
one user has two connections, so that one clean-up can hurt the other, and two
publishers and the goroutine can clean up the same one. In `bookings` two
requests can overwrite each other, and one can announce while the other saves.

The bounds are the sets of ids; `Capacity` and `MaxDelay` (seats, time a run takes)
are constants. The theorems of section 6 hold without them. Deadlock is not checked because the
systems rest when the ids are used up; `NobodyWaitsInACircle` and `EveryoneEnds` are
what say that nobody waits for a lock for ever.

### Fairness

* `RideDispatch`: weak fairness of the sweeper, of each request that has started
  and of the passing of the TTL. `Sweeper.Run` is a loop around a ticker that only
  the end of the process leaves; a handler's goroutine runs to its end; clocks
  advance. No fairness is assumed of riders, drivers, the reconciler or
  candidates. Liveness runs have no faults but the reconciler's: a process that
  crashes in every sweep settles nothing. One thing is taken for granted that the
  code does not ensure: the sweeper publishes through the hub, whose sends have no
  deadline, so a peer that keeps its connection and reads nothing can hold it up
  (hazard at `hub.go:44`). `SettlesEveryOffer` holds as long as sends return.
* `OfferAcceptor`: weak fairness of each worker's next statement. Postgres hands a
  lock to the statement that waits for it. Each worker does one thing, so no row
  is taken over and over from under a waiting one.
* `Matching`: weak fairness of the run. The http client of the routing provider has
  a timeout of ten seconds, so every call returns.
* `RealtimeHub`: weak fairness of the goroutines and publishers, and of noticing a
  lost peer: the http server keeps TCP keep-alive on.

`Accounts` and `BookingLifecycle` state no liveness: clients owe nobody a call, and
any call may fail.

## 5. Findings

* **Overbooking** (`dispatch_overbooking`). `Heartbeat` writes back
  `remaining_capacity` as it read it (`driver_session_service.go:154`). When an
  acceptance commits in between, its seat reappears and is sold again. State
  changes and the reconciler write the row the same way.
* **Terminal states are overwritten** (`dispatch_terminal`).
  `trip_demand_service.go:212` saves the demand as offered after the offer is
  already visible; an acceptance in between is undone in the demand row. The run
  shows this case and no other. The model contains four more, which no run looks
  for: a decline that overwrites an accepted offer, the acceptance of the offer of a
  cancelled demand, the last seat of an ended session, which makes it full, and a
  reconciler that turns an ended session into a paused one.
* **Demands are stranded** (`dispatch_stranded`). `docs/architecture.md:330` promises
  that the sweeper returns demands to searching. When it settles an offer between the
  two saves of the matching run, the demand it has read is searching still and it
  resets nothing; the second save then makes the demand offered. The sweeper lists
  pending offers only, so it stays so for ever. A decline leaves its demand offered in
  the same way, of which line 330 does not speak.
* **Walks are asked about too early** (`matching_walks`). `docs/architecture.md:151` has
  walks evaluated "only if phase 1 fails". `engine.go:50` asks about them for each
  session that does not fit as it is, also when an earlier one does, and an error of
  such a call returns no candidates at all.

One more disagreement needs no run: `docs/architecture.md:147` says "Search active
driver sessions only", while `ListActive` and `CanDriverServeDemand`
(`policies.go:28-31`) also take sessions in state full that have a seat left.
`Matching` and `OfferKeepsLimits` follow the code.

## 6. Proofs

TLAPS proves every safety property of the passing runs for every value of the
constants. `Spec => []P` for an invariant `P`, `Spec => P` for an action property or a
refinement:

| module | theorems (property) |
|---|---|
| `RideDispatchSafety` | `Invariance` (`DispatchInv`), `TypeCorrect`, `NoDoubleBooking`, `SweeperSparesBookings`, `AnswersAreBacked`, `SearchingDemandsAreFree`, `Refinement` (`KeepsContract`), `DueOffersNeverSlip` |
| `RideDispatchSeats` | `NoSeatIsLost`, `ActiveSessionsHaveSeats`, `SeatsAlwaysMatch` (`SeatsMatchBookings`), `OverbookingNeedsABlindSave` (`NoOverbooking`), `DispatchAcceptsAtomically` |
| `OfferAcceptorProofs` | `AcceptorInvariance` (`AcceptorInv`), `AcceptorTypes`, `ReadsStayCurrent`, `NoOfferBookedTwice`, `AcceptanceRefines` (`AcceptanceIsAtomic`), `NoDeadlock` (`NobodyWaitsInACircle`) |
| `MatchingProofs` | `OrderIsDocumented`, `MatchInvariance`, `MatchingTypes`, `OfferIsAlwaysLeast`, `OfferAlwaysKeepsLimits`, `NobodyIsEverOverlooked`, `RunAlwaysGetsOn` |
| `AccountsProofs` | `AccountsInvariance`, `AccountsTypes`, `SignInsAgreeAlways`, `OwnersAlwaysEligible`, `AnswersAlwaysMatch`, `ReadyAlwaysStays`, `OnlyWomenAskForWomen`, `RetriesAlwaysMakeNothing`, `AccountsKeepMembership` (`KeepsMembership`) |
| `RealtimeHubProofs` | `HubInvariance`, `HubTypesAlways`, `LiveClientsStayListed`, `GoneStaysForgotten` |
| `BookingProofs` | `BookingInvariance`, `BookingTypes`, `CompletedAlwaysRodeAlong`, `ReviewsAlwaysEarned`, `OverAlwaysMeansTheSame`, `PushesAlwaysTrue`, `RidesAlwaysMoveForward` |

`OwnersAreEligible` and `OfferBookedOnce` are proved and not run: the refinements that
are run (`KeepsMembership`, `AcceptanceIsAtomic`) imply them. A run checks one of the
safety properties where its bounds make it hardest to keep; the theorems hold for
every `Ops`, so for the workload of every run, faults included, but for the two
properties named next.

*Assumptions*, named in the modules that declare the constants: a session starts
with seats (`Start` refuses a vehicle without) and any operations may be enabled; an offer has one session and one
demand, and a demand is offered once (which `RideDispatchSafety` proves of the
code's matching); `Demands`, `Listings` and `Answers` of `Matching` have the shape of
the rows and responses; inputs of `Accounts` have a shape that JSON decoding leaves,
and `None` is none of the rows; a booking's rider, driver and session are fixed. Two
properties are about some workloads only and their theorems say so: `SeatsAlwaysMatch` and
`OverbookingNeedsABlindSave` assume that `Ops` has no heartbeat, no change of state and no reconciler (with them
`dispatch_overbooking` violates it), `DueOffersNeverSlip` that it has no `fault` (an
update that fails leaves a due offer to the next sweep).

**RideDispatch.** *Why the properties are not inductive alone.* That a demand is not booked twice
rests on three facts. A demand has at most one offer, because only its own
`Create` matches it (`OneOfferPerDemand`, which must also say that a run still
matching has made no offer and that no other run matches the same demand). The
offer behind a booking is answered for good (`BookedOfferIsAnswered`), hence a
pending offer's demand is not booked (`PendingIsFree`). And the blind saves
cannot reopen an offer or move it to another demand, because of what the copies
in flight contain (`CopiesInFlight`). `SearchingIsFree` needs `ResetIsDeserved`:
between winning the offer and resetting the demand the sweeper can rely on
nobody booking it. `ForeignKeys` says that every id held anywhere has its row,
which typing needs. `DispatchInv` is the conjunction; TLC checked it first.

*Layout.* `RideDispatchProofs` proves the typing of each action.
`RideDispatchSafety` classifies the steps (`StepKinds`), shows that rows and
foreign keys stay (`RowsStayStep`), has one lemma per conjunct of the invariant,
and maps each kind of step to a move of the contract (`ContractStep`).
`RideDispatchSeats` generalises the seat properties to every copy of a session
row (`SeatsInv`): a copy that was sound when it was read stays sound because
bookings only grow, and the acceptance that removes a seat adds the booking.

*Overbooking.* Without blind saves nothing but an acceptance changes a session's
seats, so the bookings and the seats left add up to the vehicle's
(`SeatsMatchBookings`), and since seats are never negative, no session has more
bookings than seats (`NoOverbooking`). The proof shows in passing that decline, cancellation, sweep and all
faults are harmless; the three operations the theorem excludes
are the whole of the finding.

*The sweep.* `DueIsListed` says that what is due is still to be visited, and nothing is
due between two sweeps. An offer that is due leaves `Expiring` only by
`TransitionPending`, which either settles it or finds it settled
(`DueOfferStep`). With the sweeper's fairness this is why
`SettlesEveryOffer` holds: the proof is its safety part for every number of offers.

*The ledger.* Under the mapping of `AcceptsAtomically` every step but an acceptance
changes at most one offer, one session's seats or one demand (`OneRowAtATime`) as a save may;
the acceptance is the abstract one (`AcceptIsLedgers`) because a pending offer's
demand is not booked (`PendingIsFree`).

**OfferAcceptor.** `AcceptorInv` says what a worker past each statement owns:
whoever has read a row `FOR UPDATE` owns it and nobody else writes an owned row, so
`CopiesAreCurrent`, without which `Commit` would not be the atomic step. The
refinement maps the commit to `Accept`, every other write to a save of one row, and
all locking to a stutter.

*No deadlock.* `LocksAreKnown` says which rows a worker may hold at each statement.
The opposite orders of the insert and the acceptance do not collide, because
they would have to be at the same demand: the acceptance is at a demand whose offer
exists, the insert at one whose offer is new, and a demand is offered once. `Rank` numbers the statements
so that whoever waits, waits for a higher rank (`WaitsClimb`). `ClimbersDoNotCircle`
concludes without induction over the circle: its member of the highest rank waits
for none of the others.

**Matching.** `OrderIsDocumented` shows that the comparison is the documented
lexicographic order, and lemmas that it is transitive and total enough to be a
strict weak order. `MatchInv` adds to the types that each kept candidate was accepted
within the limits, and that `rival`, if it was not kept, does not precede one that
was. That is what survives `WalkFits` replacing the best so far. That the first
candidate exists is no induction over the finite set of candidates:
`SomebodyIsFirst` is kept by every step, since the set grows by one at a time
(`SomebodyStaysFirst`). `RunGetsOn` compares `Progress` (stage, session, loop, pair)
lexicographically, with `PairIsPoint` for its bound; it is the safety part of
`MatchingEnds`.

**Accounts.** The rows that eligibility and answers depend on are only added:
accounts keep their subject, verifications and vehicles may change but do not go,
resources do not change. `Knows` says what each request has learnt at each statement;
since the rows only grow it stays true across crashes and other requests. One account
per subject rests on the unique key alone. The refinement of `Membership` maps the
inserts of accounts, verifications and vehicles to `Enroll`, of demands and
sessions to `Make`; `Knows` is what makes `Make`'s conditions true at the insert,
statements after the checks. `WomenInv` adds to `WomenAskForWomen` what `CheckRider` has
seen (`MayAsk`), which stays true because `women` only grows.

**RealtimeHub.** A connection that a publisher is about to drop was registered once
and has lost its peer for good (`PublishersKnow`); so no clean-up is of a live
connection, and the clean-up of one keeps the others of its user (`CleanUp`).

**BookingLifecycle.** No row is locked, so no fact about a row's current state is
stable; facts about `been` are, since it only grows. `Justified` says that what a
request has read is in the history of its booking, `TrulySent` the same of what a
publisher sends. `CompletedRodeAlong` then follows from the predecessors in
`BookingMayBecome`. A booking that is not in `raced` has at most one transition
under way, and what that is going to save may follow the row as it stands (`Undisturbed`); then
each of its saves goes by the table, and `TableGoesForward` shows that the table only
leads to later stages.

*Only model-checked:* `SettlesEveryOffer`, `EveryoneEnds`, `MatchingEnds`,
`LostClientsLeave` and the four violations. Liveness under fairness is out of the
prover's reach; of the first three the safety part is proved
(`DueOffersNeverSlip`, `NoDeadlock`, `RunAlwaysGetsOn`).

## 7. Not modelled

* The in-memory store, and the body of `OfferService.Accept` for a server without
  an acceptor, run in tests only; `main` wires Postgres and always sets one.
* Decoding, encoding, status codes, JWT cryptography and logging keep no state that
  the services read. Ownership checks (`*Owned`, `*ForActor`) only refuse calls;
  where a property depends on them (bookings, reviews, tracking) they are guards.
* Geometry is what the provider answers; the great-circle fallback, the price and
  the push stub are arithmetic or nothing. The ephemeral offers in Redis are written
  and never read.
* Heartbeat ages are a choice in `RideDispatch`. How long a dead session is offered
  rides (thresholds of 15 s and 30 s, polls of 5 s) is a sum of constants.
* How long TCP blocks a send to a peer that does not read. Such a peer delays the
  request or the worker that publishes; the model lets the send end.
* Postgres runs at read committed and a single statement is atomic. The acceptance
  is the only transaction of several statements; the seed's are one each.

Seen in the models and not claimed by any text of the repository, so neither a
property nor a finding: a stale save revives a terminal booking (only when two
transitions of it overlap, as `RidesMoveForward` shows); two bootstraps add
one plate twice; a demo subject that signed up on its own keeps a seeded server from
starting; two creations at once under one key both create; a demand for women only may
be saved after its rider's gender was overwritten.

## 8. What is left

The components of section 1 are modelled except where section 7 says otherwise.
Worth adding next: the ages of heartbeats with real thresholds, composed with the
reconciler and the matching listing; a composition of `BookingLifecycle` with
`RideDispatch` in place of `SessionSaved`.
