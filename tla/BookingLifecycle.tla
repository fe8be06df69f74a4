----------------------------- MODULE BookingLifecycle -----------------------------
(***************************************************************************)
(* What happens to a ride after it is booked: BookingService,              *)
(* ReviewService and the driver tracking that DriverSessionService sends,  *)
(* with the events they publish through the hub of RealtimeHub.  A request *)
(* is a publisher of the hub, one action per store call and per send.  No  *)
(* call locks the booking: what a request read may be old when it saves.   *)
(***************************************************************************)
EXTENDS RealtimeHub, DomainPolicies, Sequences, SequencesExt

CONSTANTS
  Bookings, RiderOf, DriverOf,  \* a booking's rider and driver never change
  Sessions, SessionOf,          \* the driver session a booking belongs to
  ReviewIds, Ratings,           \* new review ids; the ratings clients ask for
  Asked                         \* the states clients ask for

ASSUME BookingAssumption ==
  /\ RiderOf \in [Bookings -> Users] /\ DriverOf \in [Bookings -> Users]
  /\ SessionOf \in [Bookings -> Sessions]
  /\ Ratings \subseteq Int /\ Asked \subseteq BookingStates

VARIABLES
  booking,   \* ride_bookings: the state of each row
  ended,     \* the driver sessions whose row says ended
  review,    \* reviews
  request,   \* what each request in flight will do next
  been,      \* history: the states each booking row has been in
  raced      \* history: the bookings two transitions of which have overlapped

tables == <<booking, ended, review>>
vars == <<hub, tables, request, been, raced>>

Idle == [op |-> "idle"]
None == [op |-> "none"]

\* A push to one user; event names and payload reduced to what is announced.
Letter(user, kind, b, state) ==
  [to |-> user, event |-> [kind |-> kind, booking |-> b, state |-> state]]

Participants(b) == {RiderOf[b], DriverOf[b]}

\* An INSERT ... ON CONFLICT (id) DO UPDATE of the whole row.
Put(table, id, row) == [x \in DOMAIN table \cup {id} |-> IF x = id THEN row ELSE table[x]]

\* RideBookings.FindByID finds the row.
Found(b) == b \in DOMAIN booking

\* ListByDriverSessionID, ListActiveByActorID and Reviews.ListBySubjectID.
ListByDriverSessionID(s) == {b \in DOMAIN booking : SessionOf[b] = s}
ListActiveByActorID(u) ==
  {b \in DOMAIN booking : u \in Participants(b) /\ booking[b] \notin {"completed", "canceled", "no_show"}}
ListBySubjectID(u) == {r \in DOMAIN review : review[r].subject = u}

Free(p) == request[p] = Idle /\ publish[p] = Quiet

GoOn(p, r) == request' = [request EXCEPT ![p] = r]

\* The request sends its letters, one PublishToUser after the other.
Announcing(letters) == IF letters = <<>> THEN Idle ELSE [op |-> "announce", letters |-> letters]

Init ==
  /\ HubInit
  /\ booking = [b \in {} |-> "none"] /\ ended = {} /\ review = [r \in {} |-> None]
  /\ request = [p \in Publishers |-> Idle]
  /\ been = [b \in Bookings |-> {}]
  /\ raced = {}

-----------------------------------------------------------------------------
(* Bookings *)

\* OfferService.Accept: the transaction has put the row there, the rider is told.
Assign(p, b) ==
  /\ Free(p) /\ ~Found(b)
  /\ booking' = Put(booking, b, "assigned")
  /\ been' = [been EXCEPT ![b] = @ \cup {"assigned"}]
  /\ GoOn(p, Announcing(<<Letter(RiderOf[b], "booking", b, "assigned")>>))
  /\ UNCHANGED <<hub, ended, review>>

\* TransitionForActor: the row is read and checked, the copy is saved later.
TransitionForActor(p, actor, b, next) ==
  /\ Free(p) /\ Found(b)
  /\ actor \in Participants(b)
  /\ BookingMayBecome(booking[b], next)
  /\ GoOn(p, [op |-> "saveBooking", booking |-> b, state |-> next])
  /\ UNCHANGED <<hub, tables, been>>

SaveBooking(p) ==
  LET r == request[p] IN
  /\ r.op = "saveBooking"
  /\ booking' = Put(booking, r.booking, r.state)
  /\ been' = [been EXCEPT ![r.booking] = @ \cup {r.state}]
  /\ GoOn(p, Announcing(<<Letter(RiderOf[r.booking], "booking", r.booking, r.state),
                          Letter(DriverOf[r.booking], "booking", r.booking, r.state)>>))
  /\ UNCHANGED <<hub, ended, review>>

\* PublishToUser of the next letter; its error is never looked at.
Announce(p) ==
  LET r == request[p] IN
  /\ r.op = "announce" /\ publish[p] = Quiet
  /\ PublishToUser(p, Head(r.letters).to, Head(r.letters).event)
  /\ GoOn(p, Announcing(Tail(r.letters)))
  /\ UNCHANGED <<clients, reader, socket, tables, been>>

-----------------------------------------------------------------------------
(* Driver tracking *)

\* GetDriverTrackingForRider: for the booking's rider while it is not terminal;
\* the session is read after the booking.
GetDriverTrackingForRider(p, actor, b) ==
  /\ Free(p) /\ Found(b)
  /\ actor = RiderOf[b]
  /\ AllowsDriverTracking(booking[b])
  /\ GoOn(p, [op |-> "readSession", booking |-> b, state |-> booking[b], actor |-> actor])
  /\ UNCHANGED <<hub, tables, been>>

\* An ended session answers "driver tracking unavailable".
ReadSession(p) ==
  LET r == request[p] IN
  /\ r.op = "readSession"
  /\ GoOn(p, IF SessionOf[r.booking] \in ended THEN Idle
             ELSE [op |-> "answer", letter |-> Letter(r.actor, "tracking", r.booking, r.state)])
  /\ UNCHANGED <<hub, tables, been>>

\* The position goes out with the response.
Answer(p) ==
  /\ request[p].op = "answer"
  /\ GoOn(p, Idle)
  /\ UNCHANGED <<hub, tables, been>>

\* A heartbeat has saved the session: whatever its state, the bookings of the
\* session are listed once and their riders told, in the order of the list.
PublishDriverTrackingUpdates(p, s) ==
  /\ Free(p)
  /\ \E list \in SetToSeqs({b \in ListByDriverSessionID(s) : AllowsDriverTracking(booking[b])}) :
       GoOn(p, Announcing([i \in DOMAIN list |->
                             Letter(RiderOf[list[i]], "tracking", list[i], booking[list[i]])]))
  /\ UNCHANGED <<hub, tables, been>>

\* Any other save of the session row: RideDispatch says when it ends, and that
\* an old copy may bring it back.
SessionSaved(s) ==
  /\ ended' \in {ended \cup {s}, ended \ {s}}
  /\ UNCHANGED <<hub, booking, review, request, been>>

-----------------------------------------------------------------------------
(* Reviews *)

\* Mutant: the subject is the author.
AuthorHimself(b, author) == author

\* Mutant: the case of the rider is missing, the subject stays empty.
CounterpartyOfDriver(b, author) == IF author = DriverOf[b] THEN RiderOf[b] ELSE ""

\* The other party; a rider who is the driver too reviews himself.
Counterparty(b, author) == IF author = RiderOf[b] THEN DriverOf[b] ELSE RiderOf[b]

CreateForActor(p, author, b, rating) ==
  /\ Free(p) /\ Found(b)
  /\ booking[b] = "completed"
  /\ author \in Participants(b)
  /\ GoOn(p, [op |-> "saveReview", row |->
       [booking |-> b, author |-> author, subject |-> Counterparty(b, author), rating |-> rating]])
  /\ UNCHANGED <<hub, tables, been>>

\* The rating is checked by the table alone: CHECK (rating BETWEEN 1 AND 5).
SaveReview(p, id) ==
  LET row == request[p].row IN
  /\ request[p].op = "saveReview" /\ id \notin DOMAIN review
  /\ review' = IF row.rating \in 1..5 THEN Put(review, id, row) ELSE review
  /\ GoOn(p, Idle)
  /\ UNCHANGED <<hub, booking, ended, been>>

-----------------------------------------------------------------------------
(* Faults and the whole *)

\* A store call fails: the request ends there.
StoreCallFails(p) ==
  /\ request[p].op \in {"saveBooking", "readSession", "saveReview"}
  /\ GoOn(p, Idle)
  /\ UNCHANGED <<hub, tables, been>>

\* The process stops and comes back: requests and connections are gone, the
\* rows stay.  Clients connect again under new connections.
Restart ==
  /\ request' = [p \in Publishers |-> Idle]
  /\ publish' = [p \in Publishers |-> Quiet]
  /\ clients' = [u \in {} |-> {}]
  /\ reader' = [c \in Clients |-> IF reader[c] = "none" THEN "none" ELSE "gone"]
  /\ socket' = [c \in Clients |-> "closed"]
  /\ UNCHANGED <<tables, been>>

HandleBookingActions(p) == \E b \in Bookings, actor \in Users :
  \/ \E next \in Asked : TransitionForActor(p, actor, b, next)
  \/ \E rating \in Ratings : CreateForActor(p, actor, b, rating)

HandleBookingRead(p) == \E b \in Bookings, actor \in Users : GetDriverTrackingForRider(p, actor, b)

\* What a request does once its handler runs.
Proceed(p) ==
  \/ SaveBooking(p) \/ Announce(p) \/ ReadSession(p) \/ Answer(p) \/ StoreCallFails(p)
  \/ \E id \in ReviewIds : SaveReview(p, id)

HubStep == (Connections \/ \E p \in Publishers : Deliver(p)) /\ UNCHANGED <<tables, request, been>>

Step ==
  \/ HubStep
  \/ \E p \in Publishers :
       \/ \E b \in Bookings : Assign(p, b)
       \/ HandleBookingActions(p) \/ HandleBookingRead(p)
       \/ \E s \in Sessions : PublishDriverTrackingUpdates(p, s)
       \/ Proceed(p)
  \/ \E s \in Sessions : SessionSaved(s)
  \/ Restart

\* The transition of p has read booking b and not saved it yet.
Transits(p, b) == request[p].op = "saveBooking" /\ request[p].booking = b

\* Bookings that two transitions have read before either of them saved.
Overlapping == {b \in Bookings : \E p, q \in Publishers : p # q /\ Transits(p, b) /\ Transits(q, b)}

Next == Step /\ raced' = raced \cup Overlapping'

Spec == Init /\ [][Next]_vars

-----------------------------------------------------------------------------
(* Properties *)

Letters == [to : Users, event : [kind : {"booking", "tracking"},
                                 booking : Bookings, state : BookingStates]]

RequestState ==
       {Idle}
  \cup [op : {"saveBooking"}, booking : Bookings, state : BookingStates]
  \cup [op : {"readSession"}, booking : Bookings, state : BookingStates, actor : Users]
  \cup [op : {"saveReview"}, row : [booking : Bookings, author : Users, subject : Users, rating : Int]]
  \cup [op : {"announce"}, letters : Seq(Letters)]
  \cup [op : {"answer"}, letter : Letters]

\* The rows are rows of their tables and a request is in one of its states.
TypeOK ==
  /\ DOMAIN booking \subseteq Bookings /\ \A b \in DOMAIN booking : booking[b] \in BookingStates
  /\ ended \subseteq Sessions
  /\ request \in [Publishers -> RequestState]
  /\ been \in [Bookings -> SUBSET BookingStates]
  /\ raced \subseteq Bookings

\* Although any two transitions may overwrite each other, a booking is never
\* completed, at any time, that has not had its rider on board, and nobody is
\* on board who was not waiting at the pickup, all after the assignment.
CompletedRodeAlong == \A b \in Bookings :
  /\ "completed" \in been[b] => "onboard" \in been[b]
  /\ "onboard" \in been[b] => "pickup_ready" \in been[b]
  /\ been[b] # {} => "assigned" \in been[b]

\* How far along a ride is, and that it is over.
Stage(state) ==
  CASE state = "assigned" -> 0
    [] state = "rider_walking_to_pickup" -> 1
    [] state = "driver_en_route_to_pickup" -> 2
    [] state = "pickup_ready" -> 3
    [] state = "onboard" -> 4
    [] OTHER -> 5

\* Two transitions of the same booking at the same time are the only way a ride can
\* go back, come back to life or skip a stage: any other save of the row, of whatever
\* request and however late, takes it forward along the table of transitions.
RidesMoveForward ==
  [][\A b \in DOMAIN booking \ raced : booking'[b] # booking[b] =>
       /\ BookingMayBecome(booking[b], booking'[b])
       /\ Stage(booking[b]) < Stage(booking'[b])]_vars

\* A review is about a ride that was completed, whatever overwrote the row since,
\* written by one of its two people about the other, with one to five stars.
ReviewsAreEarned == \A u \in Users : \A r \in ListBySubjectID(u) :
  /\ "completed" \in been[review[r].booking]
  /\ {review[r].author, u} = Participants(review[r].booking)
  /\ review[r].rating \in 1..5

\* What is over is written down three times, in the transitions, in the tracking
\* policy and in the query of the active bookings, and the three agree: a ride
\* that can still change is on the list of both its people, the rider may see
\* the driver, and the other way round.
OverMeansTheSame == \A b \in DOMAIN booking : \A u \in Participants(b) :
  LET changes == \E next \in BookingStates : BookingMayBecome(booking[b], next) IN
  /\ b \in ListActiveByActorID(u) <=> changes
  /\ AllowsDriverTracking(booking[b]) <=> changes

\* What is being sent to a connection is for its user, a party of the booking,
\* and announces a state the booking has really been in; the driver's position
\* goes to the rider of that booking alone, pushed or as an answer.
IsTrue(user, event) ==
  /\ user \in Participants(event.booking)
  /\ event.state \in been[event.booking]
  /\ event.kind = "tracking" => user = RiderOf[event.booking] /\ AllowsDriverTracking(event.state)

PushesAreTrue == \A p \in Publishers :
  /\ publish[p].at = "send" => \A c \in publish[p].to : IsTrue(UserOf[c], publish[p].event)
  /\ request[p].op = "answer" => IsTrue(request[p].letter.to, request[p].letter.event)

=============================================================================
