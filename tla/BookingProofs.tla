----------------------------- MODULE BookingProofs -----------------------------
(***************************************************************************)
(* What is true of a ride after it is booked, for any number of bookings,  *)
(* people, connections and requests.  No call locks a row, so the row says *)
(* little; the argument is about the states a row has been in, which only  *)
(* grow: whatever a request has read stays in them while the request is on *)
(* its way, and so what it saves, answers or announces stays justified.    *)
(* Only a ride whose changes of state never overlapped goes by its row.    *)
(***************************************************************************)
EXTENDS BookingLifecycle, FiniteSetTheorems, TLAPS

Events == [kind : {"booking", "tracking"}, booking : Bookings, state : BookingStates]

Sender == [at : {"send"}, to : (SUBSET Clients) \ {{}}, event : Events]

Dropper == [at : {"drop", "close"}, client : Clients, to : SUBSET Clients, event : Events]

\* IsTrue, of any history.
TrueIn(user, event, h) ==
  /\ user \in Participants(event.booking)
  /\ event.state \in h[event.booking]
  /\ event.kind = "tracking" => user = RiderOf[event.booking] /\ AllowsDriverTracking(event.state)

\* What a request in flight has read is in the history.
Justified(r, h) ==
  /\ r.op = "saveBooking" => \E x \in h[r.booking] : BookingMayBecome(x, r.state)
  /\ r.op = "readSession" => /\ r.actor = RiderOf[r.booking] /\ r.state \in h[r.booking]
                             /\ AllowsDriverTracking(r.state)
  /\ r.op = "saveReview" => /\ "completed" \in h[r.row.booking]
                            /\ {r.row.author, r.row.subject} = Participants(r.row.booking)
  /\ r.op = "answer" => TrueIn(r.letter.to, r.letter.event, h)
  /\ r.op = "announce" => /\ r.letters # <<>>
                          /\ \A i \in DOMAIN r.letters : TrueIn(r.letters[i].to, r.letters[i].event, h)

\* A transition on its way that never overlapped another one of its booking may
\* still be made from the row as it stands.
Undisturbed ==
  /\ Overlapping \subseteq raced
  /\ \A p \in Publishers, b \in Bookings \ raced :
       Transits(p, b) => Found(b) /\ BookingMayBecome(booking[b], request[p].state)

\* What a publisher is sending is true of everybody it still sends to.
TrulySent(q, h) == q.at # "quiet" => \A c \in q.to : TrueIn(UserOf[c], q.event, h)

Rows ==
  /\ DOMAIN booking \subseteq Bookings /\ IsFiniteSet(DOMAIN booking)
  /\ \A b \in DOMAIN booking : booking[b] \in BookingStates /\ booking[b] \in been[b]
  /\ ended \subseteq Sessions
  /\ been \in [Bookings -> SUBSET BookingStates]

Reviews == \A v \in DOMAIN review :
  /\ review[v].booking \in Bookings
  /\ "completed" \in been[review[v].booking]
  /\ {review[v].author, review[v].subject} = Participants(review[v].booking)
  /\ review[v].rating \in 1..5

Requests ==
  /\ request \in [Publishers -> RequestState]
  /\ \A p \in Publishers : Justified(request[p], been)

Listings ==
  /\ DOMAIN clients \subseteq Users
  /\ \A u \in DOMAIN clients : clients[u] \subseteq {c \in Clients : UserOf[c] = u}

Sendings ==
  /\ publish \in [Publishers -> {Quiet} \cup Sender \cup Dropper]
  /\ \A p \in Publishers : TrulySent(publish[p], been)

BookingInv == Rows /\ CompletedRodeAlong /\ Reviews /\ Requests /\ Listings /\ Sendings

-----------------------------------------------------------------------------
(* Histories grow *)

LEMMA RequestForms ==
  ASSUME NEW r \in RequestState
  PROVE  /\ r.op \in {"idle", "saveBooking", "readSession", "saveReview", "announce", "answer"}
         /\ r.op = "saveBooking" => r.booking \in Bookings /\ r.state \in BookingStates
         /\ r.op = "readSession" => r.booking \in Bookings /\ r.state \in BookingStates /\ r.actor \in Users
         /\ r.op = "saveReview" => r.row.booking \in Bookings /\ r.row.rating \in Int
         /\ r.op = "announce" => r.letters \in Seq(Letters)
         /\ r.op = "answer" => r.letter \in Letters
  BY DEF RequestState, Idle

LEMMA LetterForm ==
  ASSUME NEW l \in Letters
  PROVE  l.to \in Users /\ l.event \in Events
  BY DEF Letters, Events

LEMMA TruthStays ==
  ASSUME NEW h, NEW k, \A b \in Bookings : h[b] \subseteq k[b],
         NEW user, NEW event \in Events, TrueIn(user, event, h)
  PROVE  TrueIn(user, event, k)
<1>1. event.booking \in Bookings
  BY DEF Events
<1> QED
  BY <1>1 DEF TrueIn

LEMMA JustifiedStays ==
  ASSUME NEW h, NEW k, \A b \in Bookings : h[b] \subseteq k[b],
         NEW r \in RequestState, Justified(r, h)
  PROVE  Justified(r, k)
<1>1. r.op = "saveBooking" => \E x \in k[r.booking] : BookingMayBecome(x, r.state)
  BY RequestForms DEF Justified
<1>2. r.op = "readSession" => /\ r.actor = RiderOf[r.booking] /\ r.state \in k[r.booking]
                              /\ AllowsDriverTracking(r.state)
  BY RequestForms DEF Justified
<1>3. r.op = "saveReview" => /\ "completed" \in k[r.row.booking]
                             /\ {r.row.author, r.row.subject} = Participants(r.row.booking)
  BY RequestForms DEF Justified
<1>4. ASSUME r.op = "answer" PROVE TrueIn(r.letter.to, r.letter.event, k)
  <2>1. r.letter.event \in Events /\ TrueIn(r.letter.to, r.letter.event, h)
    BY <1>4, RequestForms, LetterForm DEF Justified
  <2> QED
    BY <2>1, TruthStays
<1>5. ASSUME r.op = "announce", NEW i \in DOMAIN r.letters
      PROVE  r.letters # <<>> /\ TrueIn(r.letters[i].to, r.letters[i].event, k)
  <2>1. r.letters[i] \in Letters
    BY <1>5, RequestForms
  <2> QED
    BY <1>5, <2>1, LetterForm, TruthStays DEF Justified
<1> QED
  BY <1>1, <1>2, <1>3, <1>4, <1>5 DEF Justified

LEMMA SendingStays ==
  ASSUME NEW h, NEW k, \A b \in Bookings : h[b] \subseteq k[b],
         NEW q \in {Quiet} \cup Sender \cup Dropper, TrulySent(q, h)
  PROVE  TrulySent(q, k)
<1>1. q.at # "quiet" => q.event \in Events
  BY DEF Quiet, Sender, Dropper
<1> QED
  BY <1>1, TruthStays DEF TrulySent

-----------------------------------------------------------------------------
(* Requests and rows *)

\* A request goes on to something justified, and nothing else happens.
LEMMA RequestMoves ==
  ASSUME BookingInv, NEW p \in Publishers, NEW r \in RequestState, Justified(r, been),
         GoOn(p, r), UNCHANGED <<hub, tables, been>>
  PROVE  BookingInv'
<1>1. Requests'
  BY DEF BookingInv, Requests, GoOn
<1>2. Rows' /\ CompletedRodeAlong' /\ Reviews' /\ Listings' /\ Sendings'
  BY DEF BookingInv, Rows, CompletedRodeAlong, Reviews, Listings, Sendings, hub, tables
<1> QED
  BY <1>1, <1>2 DEF BookingInv

\* A row is saved in a state its history leads to.
LEMMA RowSaved ==
  ASSUME BookingInv, NEW p \in Publishers, NEW b \in Bookings, NEW state \in BookingStates,
         booking' = Put(booking, b, state), been' = [been EXCEPT ![b] = @ \cup {state}],
         state = "assigned" \/ \E x \in been[b] : BookingMayBecome(x, state),
         NEW r \in RequestState, Justified(r, been'), GoOn(p, r), UNCHANGED <<hub, ended, review>>
  PROVE  BookingInv'
<1>1. Rows /\ been \in [Bookings -> SUBSET BookingStates]
  BY DEF BookingInv, Rows
<1>2. \A x \in Bookings : been[x] \subseteq been'[x]
  BY <1>1
<1>3. Rows'
  <2>1. DOMAIN booking' = DOMAIN booking \cup {b}
    BY DEF Put
  <2>2. IsFiniteSet(DOMAIN booking')
    BY <1>1, <2>1, FS_AddElement DEF Rows
  <2>3. \A x \in DOMAIN booking' : booking'[x] = IF x = b THEN state ELSE booking[x]
    BY DEF Put
  <2>4. ASSUME NEW x \in DOMAIN booking' PROVE booking'[x] \in BookingStates /\ booking'[x] \in been'[x]
    BY <1>1, <2>1, <2>3 DEF Rows
  <2>5. been' \in [Bookings -> SUBSET BookingStates]
    BY <1>1
  <2> QED
    BY <1>1, <2>1, <2>2, <2>4, <2>5 DEF Rows
<1>4. CompletedRodeAlong'
  <2>1. ASSUME NEW x \in Bookings, x # b
        PROVE  been'[x] = been[x]
    BY <1>1, <2>1
  <2>2. been'[b] = been[b] \cup {state}
    BY <1>1
  <2>3. /\ state = "completed" => "onboard" \in been[b]
        /\ state = "onboard" => "pickup_ready" \in been[b]
        /\ state # "assigned" => been[b] # {}
    BY DEF BookingMayBecome
  <2> QED
    BY <2>1, <2>2, <2>3 DEF BookingInv, CompletedRodeAlong
<1>5. Reviews'
  BY <1>2 DEF BookingInv, Reviews
<1>6. Requests'
  <2>1. ASSUME NEW q \in Publishers PROVE Justified(request[q], been')
    BY <1>2, JustifiedStays DEF BookingInv, Requests
  <2> QED
    BY <2>1 DEF BookingInv, Requests, GoOn
<1>7. Listings' /\ Sendings'
  <2>1. ASSUME NEW q \in Publishers PROVE TrulySent(publish[q], been')
    BY <1>2, SendingStays DEF BookingInv, Sendings
  <2> QED
    BY <2>1 DEF BookingInv, Listings, Sendings, hub
<1> QED
  BY <1>3, <1>4, <1>5, <1>6, <1>7 DEF BookingInv

\* The letters of a request, if there are any, become its next state.
LEMMA LettersJustified ==
  ASSUME NEW letters \in Seq(Letters), NEW h,
         \A i \in DOMAIN letters : TrueIn(letters[i].to, letters[i].event, h)
  PROVE  Announcing(letters) \in RequestState /\ Justified(Announcing(letters), h)
<1>1. CASE letters = <<>>
  BY <1>1 DEF Announcing, RequestState, Justified, Idle
<1>2. CASE letters # <<>>
  BY <1>2 DEF Announcing, RequestState, Justified
<1> QED
  BY <1>1, <1>2

-----------------------------------------------------------------------------
(* The actions *)

LEMMA AssignKeeps ==
  ASSUME BookingInv, NEW p \in Publishers, NEW b \in Bookings, Assign(p, b)
  PROVE  BookingInv'
<1> DEFINE letters == <<Letter(RiderOf[b], "booking", b, "assigned")>>
<1>1. been' = [been EXCEPT ![b] = @ \cup {"assigned"}] /\ "assigned" \in been'[b]
  BY DEF Assign, BookingInv, Rows
<1>2. Letter(RiderOf[b], "booking", b, "assigned") \in Letters
  BY BookingAssumption DEF Letter, Letters, BookingStates
<1>3. letters \in Seq(Letters) /\ DOMAIN letters = {1} /\ letters[1] = Letter(RiderOf[b], "booking", b, "assigned")
  BY <1>2
<1>4. TrueIn(letters[1].to, letters[1].event, been')
  BY <1>1, <1>3 DEF TrueIn, Letter, Participants
<1>5. Announcing(letters) \in RequestState /\ Justified(Announcing(letters), been')
  BY <1>3, <1>4, LettersJustified
<1> QED
  BY <1>1, <1>5, RowSaved DEF Assign, BookingStates

LEMMA SaveBookingKeeps ==
  ASSUME BookingInv, NEW p \in Publishers, SaveBooking(p)
  PROVE  BookingInv'
<1> DEFINE r == request[p]
           l(user) == Letter(user, "booking", r.booking, r.state)
           letters == <<l(RiderOf[r.booking]), l(DriverOf[r.booking])>>
<1>1. r \in RequestState /\ r.op = "saveBooking" /\ Justified(r, been)
  BY DEF SaveBooking, BookingInv, Requests
<1>2. r.booking \in Bookings /\ r.state \in BookingStates
  BY <1>1, RequestForms
<1>3. been' = [been EXCEPT ![r.booking] = @ \cup {r.state}] /\ r.state \in been'[r.booking]
  BY <1>2 DEF SaveBooking, BookingInv, Rows
<1>4. ASSUME NEW user \in Participants(r.booking)
      PROVE  l(user) \in Letters /\ TrueIn(l(user).to, l(user).event, been')
  BY <1>2, <1>3, BookingAssumption DEF Letter, Letters, Participants, TrueIn
<1>5. RiderOf[r.booking] \in Participants(r.booking) /\ DriverOf[r.booking] \in Participants(r.booking)
  BY DEF Participants
<1>6. /\ letters \in Seq(Letters) /\ DOMAIN letters = {1, 2}
      /\ letters[1] = l(RiderOf[r.booking]) /\ letters[2] = l(DriverOf[r.booking])
  BY <1>4, <1>5
<1>7. \A i \in DOMAIN letters : TrueIn(letters[i].to, letters[i].event, been')
  BY <1>4, <1>5, <1>6
<1>8. Announcing(letters) \in RequestState /\ Justified(Announcing(letters), been')
  BY <1>6, <1>7, LettersJustified
<1>9. \E x \in been[r.booking] : BookingMayBecome(x, r.state)
  BY <1>1 DEF Justified
<1>10. booking' = Put(booking, r.booking, r.state) /\ GoOn(p, Announcing(letters)) /\ UNCHANGED <<hub, ended, review>>
  BY DEF SaveBooking
<1> HIDE DEF r, letters
<1> QED
  BY <1>2, <1>3, <1>8, <1>9, <1>10, RowSaved

LEMMA TransitionForActorKeeps ==
  ASSUME BookingInv, NEW p \in Publishers, NEW actor \in Users, NEW b \in Bookings, NEW next \in Asked,
         TransitionForActor(p, actor, b, next)
  PROVE  BookingInv'
<1> DEFINE r == [op |-> "saveBooking", booking |-> b, state |-> next]
<1>1. booking[b] \in been[b]
  BY DEF TransitionForActor, Found, BookingInv, Rows
<1>2. r \in RequestState /\ Justified(r, been)
  BY <1>1, BookingAssumption DEF RequestState, Justified, TransitionForActor
<1> QED
  BY <1>2, RequestMoves DEF TransitionForActor

LEMMA CreateForActorKeeps ==
  ASSUME BookingInv, NEW p \in Publishers, NEW author \in Users, NEW b \in Bookings, NEW rating \in Ratings,
         CreateForActor(p, author, b, rating)
  PROVE  BookingInv'
<1> DEFINE row == [booking |-> b, author |-> author, subject |-> Counterparty(b, author), rating |-> rating]
           r == [op |-> "saveReview", row |-> row]
<1>1. "completed" \in been[b]
  BY DEF CreateForActor, Found, BookingInv, Rows
<1>2. {author, Counterparty(b, author)} = Participants(b) /\ Counterparty(b, author) \in Users
  BY BookingAssumption DEF CreateForActor, Counterparty, Participants
<1>3. r \in RequestState /\ Justified(r, been)
  BY <1>1, <1>2, BookingAssumption DEF RequestState, Justified
<1> QED
  BY <1>3, RequestMoves DEF CreateForActor

LEMMA TrackingReadKeeps ==
  ASSUME BookingInv, NEW p \in Publishers, NEW actor \in Users, NEW b \in Bookings,
         GetDriverTrackingForRider(p, actor, b)
  PROVE  BookingInv'
<1> DEFINE r == [op |-> "readSession", booking |-> b, state |-> booking[b], actor |-> actor]
<1>1. booking[b] \in been[b] /\ booking[b] \in BookingStates
  BY DEF GetDriverTrackingForRider, Found, BookingInv, Rows
<1>2. r \in RequestState /\ Justified(r, been)
  BY <1>1 DEF RequestState, Justified, GetDriverTrackingForRider
<1> QED
  BY <1>2, RequestMoves DEF GetDriverTrackingForRider

\* The end of a request is always justified.
LEMMA IdleJustified == Idle \in RequestState /\ \A h : Justified(Idle, h)
  BY DEF RequestState, Justified, Idle

LEMMA ReadSessionKeeps ==
  ASSUME BookingInv, NEW p \in Publishers, ReadSession(p)
  PROVE  BookingInv'
<1> DEFINE r == request[p]
           a == [op |-> "answer", letter |-> Letter(r.actor, "tracking", r.booking, r.state)]
<1>1. r \in RequestState /\ r.op = "readSession" /\ Justified(r, been)
  BY DEF ReadSession, BookingInv, Requests
<1>2. r.booking \in Bookings /\ r.state \in BookingStates /\ r.actor \in Users
  BY <1>1, RequestForms
<1>3. a \in RequestState
  BY <1>2 DEF RequestState, Letters, Letter
<1>4. TrueIn(r.actor, a.letter.event, been)
  BY <1>1 DEF Justified, TrueIn, Letter, Participants
<1>5. Justified(a, been)
  BY <1>4 DEF Justified, Letter
<1>6. (GoOn(p, Idle) \/ GoOn(p, a)) /\ UNCHANGED <<hub, tables, been>>
  BY DEF ReadSession
<1> HIDE DEF r, a
<1> QED
  BY <1>3, <1>5, <1>6, IdleJustified, RequestMoves

LEMMA AnswerKeeps ==
  ASSUME BookingInv, NEW p \in Publishers, Answer(p) \/ StoreCallFails(p)
  PROVE  BookingInv'
<1>1. GoOn(p, Idle) /\ UNCHANGED <<hub, tables, been>>
  BY DEF Answer, StoreCallFails
<1> QED
  BY <1>1, IdleJustified, RequestMoves

LEMMA TrackingUpdatesKeep ==
  ASSUME BookingInv, NEW p \in Publishers, NEW s \in Sessions, PublishDriverTrackingUpdates(p, s)
  PROVE  BookingInv'
<1> DEFINE rides == {b \in ListByDriverSessionID(s) : AllowsDriverTracking(booking[b])}
           l(b) == Letter(RiderOf[b], "tracking", b, booking[b])
<1>1. PICK list \in SetToSeqs(rides) : GoOn(p, Announcing([i \in DOMAIN list |-> l(list[i])]))
  BY DEF PublishDriverTrackingUpdates
<1>2. rides \subseteq DOMAIN booking /\ Cardinality(rides) \in Nat
  <2>1. rides \in SUBSET DOMAIN booking
    BY DEF ListByDriverSessionID
  <2>2. IsFiniteSet(rides)
    BY <2>1, FS_Subset DEF BookingInv, Rows
  <2> QED
    BY <2>1, <2>2, FS_CardinalityType
<1>3. ASSUME NEW b \in rides PROVE l(b) \in Letters /\ TrueIn(l(b).to, l(b).event, been)
  <2>1. b \in Bookings /\ booking[b] \in BookingStates /\ booking[b] \in been[b] /\ AllowsDriverTracking(booking[b])
    BY <1>2 DEF BookingInv, Rows
  <2>2. RiderOf[b] \in Users
    BY <2>1, BookingAssumption
  <2> QED
    BY <2>1, <2>2 DEF Letter, Letters, TrueIn, Participants
<1> HIDE DEF rides, l
<1>4. list \in [1..Cardinality(rides) -> rides]
  BY DEF SetToSeqs
<1> DEFINE letters == [i \in DOMAIN list |-> l(list[i])]
<1>5. letters \in Seq(Letters)
  <2>1. letters \in [1..Cardinality(rides) -> Letters]
    BY <1>3, <1>4
  <2> QED
    BY <1>2, <2>1
<1>6. \A i \in DOMAIN letters : TrueIn(letters[i].to, letters[i].event, been)
  BY <1>3, <1>4
<1> HIDE DEF letters
<1>7. Announcing(letters) \in RequestState /\ Justified(Announcing(letters), been)
  BY <1>5, <1>6, LettersJustified
<1>8. GoOn(p, Announcing(letters)) /\ UNCHANGED <<hub, tables, been>>
  BY <1>1 DEF PublishDriverTrackingUpdates, letters
<1> QED
  BY <1>7, <1>8, RequestMoves

LEMMA SaveReviewKeeps ==
  ASSUME BookingInv, NEW p \in Publishers, NEW id \in ReviewIds, SaveReview(p, id)
  PROVE  BookingInv'
<1> DEFINE row == request[p].row
<1>1. request[p] \in RequestState /\ request[p].op = "saveReview" /\ Justified(request[p], been)
  BY DEF SaveReview, BookingInv, Requests
<1>2. /\ row.booking \in Bookings /\ "completed" \in been[row.booking]
      /\ {row.author, row.subject} = Participants(row.booking)
  BY <1>1, RequestForms DEF Justified
<1>3. Reviews'
  <2>1. Reviews /\ UNCHANGED been
    BY DEF BookingInv, SaveReview
  <2>2. CASE row.rating \in 1..5
    <3>1. review' = Put(review, id, row)
      BY <2>2 DEF SaveReview
    <3>2. DOMAIN review' = DOMAIN review \cup {id} /\ \A v \in DOMAIN review' : review'[v] = IF v = id THEN row ELSE review[v]
      BY <3>1 DEF Put
    <3> QED
      BY <1>2, <2>1, <2>2, <3>2 DEF Reviews
  <2>3. CASE row.rating \notin 1..5
    BY <2>1, <2>3 DEF SaveReview, Reviews
  <2> QED
    BY <2>2, <2>3
<1>4. Requests'
  BY IdleJustified DEF BookingInv, Requests, SaveReview, GoOn
<1>5. Rows' /\ CompletedRodeAlong' /\ Listings' /\ Sendings'
  BY DEF BookingInv, SaveReview, Rows, CompletedRodeAlong, Listings, Sendings, hub
<1> QED
  BY <1>3, <1>4, <1>5 DEF BookingInv

-----------------------------------------------------------------------------
(* Sending *)

\* A letter goes to the connections of its user and of nobody else.
LEMMA AnnounceKeeps ==
  ASSUME BookingInv, NEW p \in Publishers, Announce(p)
  PROVE  BookingInv'
<1> DEFINE r == request[p]
           first == Head(r.letters)
<1>1. r \in RequestState /\ r.op = "announce" /\ Justified(r, been)
  BY DEF Announce, BookingInv, Requests
<1>2. r.letters \in Seq(Letters) /\ \A i \in DOMAIN r.letters : TrueIn(r.letters[i].to, r.letters[i].event, been)
  BY <1>1, RequestForms DEF Justified
<1>3. r.letters # <<>>
  BY <1>1 DEF Justified
<1>4. first \in Letters /\ TrueIn(first.to, first.event, been)
  <2>1. first = r.letters[1] /\ 1 \in DOMAIN r.letters
    BY <1>2, <1>3
  <2> QED
    BY <1>2, <2>1
<1>5. first.event \in Events
  BY <1>4, LetterForm
<1>6. Announcing(Tail(r.letters)) \in RequestState /\ Justified(Announcing(Tail(r.letters)), been)
  <2>1. Tail(r.letters) \in Seq(Letters)
    BY <1>2, <1>3
  <2>2. \A i \in DOMAIN Tail(r.letters) : i + 1 \in DOMAIN r.letters /\ Tail(r.letters)[i] = r.letters[i + 1]
    BY <1>2, <1>3
  <2>3. \A i \in DOMAIN Tail(r.letters) : TrueIn(Tail(r.letters)[i].to, Tail(r.letters)[i].event, been)
    BY <1>2, <2>2
  <2> QED
    BY <2>1, <2>3, LettersJustified
<1>7. Listed(first.to) \subseteq {c \in Clients : UserOf[c] = first.to}
  BY DEF Listed, BookingInv, Listings
<1>8. /\ Sending(Listed(first.to), first.event) \in {Quiet} \cup Sender
      /\ TrulySent(Sending(Listed(first.to), first.event), been)
  <2>1. CASE Listed(first.to) = {}
    BY <2>1 DEF Sending, TrulySent, Quiet
  <2>2. CASE Listed(first.to) # {}
    <3>1. Sending(Listed(first.to), first.event) = [at |-> "send", to |-> Listed(first.to), event |-> first.event]
      BY <2>2 DEF Sending
    <3> QED
      BY <1>4, <1>5, <1>7, <2>2, <3>1 DEF TrulySent, Sender
  <2> QED
    BY <2>1, <2>2
<1>9. /\ publish' = [publish EXCEPT ![p] = Sending(Listed(first.to), first.event)]
      /\ GoOn(p, Announcing(Tail(r.letters))) /\ UNCHANGED <<clients, reader, socket, tables, been>>
  BY DEF Announce, PublishToUser
<1> HIDE DEF r, first
<1>10. Sendings'
  BY <1>8, <1>9 DEF BookingInv, Sendings
<1>11. Requests'
  BY <1>6, <1>9 DEF BookingInv, Requests, GoOn
<1>12. Rows' /\ CompletedRodeAlong' /\ Reviews' /\ Listings'
  BY <1>9 DEF BookingInv, Rows, CompletedRodeAlong, Reviews, Listings, tables
<1> QED
  BY <1>10, <1>11, <1>12 DEF BookingInv

LEMMA UnregisteredListings ==
  ASSUME Listings, NEW c \in Clients, clients' = Unregistered(c)
  PROVE  Listings'
<1> DEFINE left == Listed(UserOf[c]) \ {c}
<1>1. left \subseteq {d \in Clients : UserOf[d] = UserOf[c]}
  BY DEF Listed, Listings
<1>2. /\ DOMAIN clients' \subseteq DOMAIN clients \cup {UserOf[c]}
      /\ \A u \in DOMAIN clients' : clients'[u] = IF u = UserOf[c] THEN left ELSE clients[u]
  BY DEF Unregistered
<1>3. ASSUME NEW u \in DOMAIN clients' PROVE clients'[u] \subseteq {d \in Clients : UserOf[d] = u}
  BY <1>1, <1>2 DEF Listings
<1>4. UserOf[c] \in Users
  BY UserOfAssumption
<1> QED
  BY <1>2, <1>3, <1>4 DEF Listings

LEMMA ConnectionsKeep ==
  ASSUME BookingInv, Connections, UNCHANGED <<tables, request, been>>
  PROVE  BookingInv'
<1>1. PICK c \in Clients : Connect(c) \/ Register(c) \/ PeerLeaves(c) \/ ReceiveFails(c) \/ Leave(c)
  BY DEF Connections
<1>2. UNCHANGED publish
  BY <1>1 DEF Connect, Register, PeerLeaves, ReceiveFails, Leave
<1>3. Listings'
  <2>1. CASE UNCHANGED clients
    BY <2>1 DEF BookingInv, Listings
  <2>2. CASE clients' = Registered(c)
    <3>1. /\ DOMAIN clients' = DOMAIN clients \cup {UserOf[c]}
          /\ \A u \in DOMAIN clients' : clients'[u] = IF u = UserOf[c] THEN Listed(u) \cup {c} ELSE clients[u]
      BY <2>2 DEF Registered
    <3>2. ASSUME NEW u \in DOMAIN clients' PROVE clients'[u] \subseteq {d \in Clients : UserOf[d] = u}
      <4>1. Listed(u) \subseteq {d \in Clients : UserOf[d] = u}
        BY DEF BookingInv, Listings, Listed
      <4>2. CASE u = UserOf[c]
        <5>1. clients'[u] = Listed(u) \cup {c}
          BY <3>1, <4>2
        <5> QED
          BY <4>1, <4>2, <5>1
      <4>3. CASE u # UserOf[c]
        BY <3>1, <4>3 DEF BookingInv, Listings
      <4> QED
        BY <4>2, <4>3
    <3>3. UserOf[c] \in Users
      BY UserOfAssumption
    <3> QED
      BY <3>1, <3>2, <3>3 DEF BookingInv, Listings
  <2>3. CASE clients' = Unregistered(c)
    BY <2>3, UnregisteredListings DEF BookingInv
  <2> QED
    BY <1>1, <2>1, <2>2, <2>3 DEF Connect, Register, PeerLeaves, ReceiveFails, Leave
<1>4. Rows' /\ CompletedRodeAlong' /\ Reviews' /\ Requests' /\ Sendings'
  BY <1>2 DEF BookingInv, Rows, CompletedRodeAlong, Reviews, Requests, Sendings, tables
<1> QED
  BY <1>3, <1>4 DEF BookingInv

\* A publisher sends the same letter to fewer connections.
LEMMA DeliverKeeps ==
  ASSUME BookingInv, NEW p \in Publishers, Deliver(p), UNCHANGED <<tables, request, been>>
  PROVE  BookingInv'
<1>1. publish \in [Publishers -> {Quiet} \cup Sender \cup Dropper] /\ TrulySent(publish[p], been)
  BY DEF BookingInv, Sendings
<1>2. ASSUME NEW to \in SUBSET publish[p].to, publish[p].at # "quiet"
      PROVE  /\ Sending(to, publish[p].event) \in {Quiet} \cup Sender
             /\ TrulySent(Sending(to, publish[p].event), been)
  <2>1. publish[p].to \subseteq Clients /\ publish[p].event \in Events
    BY <1>1, <1>2 DEF Quiet, Sender, Dropper
  <2>2. CASE to = {}
    BY <2>2 DEF Sending, TrulySent, Quiet
  <2>3. CASE to # {}
    <3>1. Sending(to, publish[p].event) = [at |-> "send", to |-> to, event |-> publish[p].event]
      BY <2>3 DEF Sending
    <3> QED
      BY <1>1, <1>2, <2>1, <2>3, <3>1 DEF TrulySent, Sender
  <2> QED
    BY <2>2, <2>3
<1>3. ASSUME NEW q \in {Quiet} \cup Sender \cup Dropper, TrulySent(q, been), publish' = [publish EXCEPT ![p] = q]
      PROVE  Sendings'
  BY <1>3 DEF BookingInv, Sendings
<1>4. Rows' /\ CompletedRodeAlong' /\ Reviews' /\ Requests'
  BY DEF BookingInv, Rows, CompletedRodeAlong, Reviews, Requests, tables
<1>5. CASE \E c \in Clients : Send(p, c)
  <2>1. PICK c \in Clients : Send(p, c)
    BY <1>5
  <2>2. publish' = [publish EXCEPT ![p] = Sending(publish[p].to \ {c}, publish[p].event)]
    BY <1>1, <2>1 DEF Send
  <2>3. publish[p].at # "quiet" /\ UNCHANGED clients
    BY <2>1 DEF Send
  <2>4. Sendings'
    BY <1>2, <1>3, <2>2, <2>3
  <2> QED
    BY <1>4, <2>3, <2>4 DEF BookingInv, Listings
<1>6. CASE \E c \in Clients : SendFails(p, c)
  <2>1. PICK c \in Clients : SendFails(p, c)
    BY <1>6
  <2> DEFINE q == [at |-> "drop", client |-> c, to |-> publish[p].to \ {c}, event |-> publish[p].event]
  <2>2. publish' = [publish EXCEPT ![p] = q] /\ publish[p].at = "send" /\ UNCHANGED clients
    BY <1>1, <2>1 DEF SendFails
  <2>3. publish[p].to \subseteq Clients /\ publish[p].event \in Events
    BY <1>1, <2>2 DEF Quiet, Sender, Dropper
  <2>4. q \in Dropper /\ TrulySent(q, been)
    BY <1>1, <2>2, <2>3 DEF Dropper, TrulySent
  <2>5. Sendings'
    BY <1>3, <2>2, <2>4
  <2> QED
    BY <1>4, <2>2, <2>5 DEF BookingInv, Listings
<1>7. CASE Drop(p)
  <2> DEFINE q == [publish[p] EXCEPT !.at = "close"]
  <2>1. publish' = [publish EXCEPT ![p] = q] /\ publish[p].at = "drop" /\ clients' = Unregistered(publish[p].client)
    BY <1>1, <1>7 DEF Drop
  <2>2. publish[p] \in Dropper
    BY <1>1, <2>1 DEF Quiet, Sender, Dropper
  <2>3. q \in Dropper /\ TrulySent(q, been)
    BY <1>1, <2>1, <2>2 DEF Dropper, TrulySent
  <2>4. Sendings'
    BY <1>3, <2>1, <2>3
  <2>5. publish[p].client \in Clients
    BY <2>2 DEF Dropper
  <2>6. Listings'
    BY <2>1, <2>5, UnregisteredListings DEF BookingInv
  <2> QED
    BY <1>4, <2>4, <2>6 DEF BookingInv
<1>8. CASE Close(p)
  <2>1. publish' = [publish EXCEPT ![p] = Sending(publish[p].to, publish[p].event)]
    BY <1>1, <1>8 DEF Close
  <2>2. publish[p].at # "quiet" /\ UNCHANGED clients
    BY <1>8 DEF Close
  <2>3. Sendings'
    BY <1>2, <1>3, <2>1, <2>2
  <2> QED
    BY <1>4, <2>2, <2>3 DEF BookingInv, Listings
<1> QED
  BY <1>5, <1>6, <1>7, <1>8 DEF Deliver

LEMMA RestartKeeps ==
  ASSUME BookingInv, Restart
  PROVE  BookingInv'
<1>1. Requests'
  BY IdleJustified DEF Restart, Requests
<1>2. Sendings'
  BY DEF Restart, Sendings, TrulySent, Quiet
<1>3. Rows' /\ CompletedRodeAlong' /\ Reviews' /\ Listings'
  BY DEF BookingInv, Restart, Rows, CompletedRodeAlong, Reviews, Listings, tables
<1> QED
  BY <1>1, <1>2, <1>3 DEF BookingInv

LEMMA SessionSavedKeeps ==
  ASSUME BookingInv, NEW s \in Sessions, SessionSaved(s)
  PROVE  BookingInv'
  BY DEF BookingInv, SessionSaved, Rows, CompletedRodeAlong, Reviews, Requests, Listings, Sendings, hub

-----------------------------------------------------------------------------
(* The theorems *)

LEMMA StepKeeps ==
  ASSUME BookingInv, [Step]_vars
  PROVE  BookingInv'
<1>1. CASE HubStep
  BY <1>1, ConnectionsKeep, DeliverKeeps DEF HubStep
<1>2. ASSUME NEW p \in Publishers,
             \/ \E b \in Bookings : Assign(p, b)
             \/ HandleBookingActions(p) \/ HandleBookingRead(p)
             \/ \E s \in Sessions : PublishDriverTrackingUpdates(p, s)
      PROVE  BookingInv'
  BY <1>2, AssignKeeps, TransitionForActorKeeps, CreateForActorKeeps, TrackingReadKeeps, TrackingUpdatesKeep
     DEF HandleBookingActions, HandleBookingRead
<1>3. ASSUME NEW p \in Publishers, Proceed(p)
      PROVE  BookingInv'
  BY <1>3, SaveBookingKeeps, AnnounceKeeps, ReadSessionKeeps, AnswerKeeps, SaveReviewKeeps DEF Proceed
<1>4. CASE (\E s \in Sessions : SessionSaved(s)) \/ Restart
  BY <1>4, SessionSavedKeeps, RestartKeeps
<1>5. CASE UNCHANGED vars
  BY <1>5 DEF vars, hub, tables, BookingInv, Rows, CompletedRodeAlong, Reviews, Requests, Listings, Sendings
<1> QED
  BY <1>1, <1>2, <1>3, <1>4, <1>5 DEF Step

-----------------------------------------------------------------------------
(* Transitions that do not overlap *)

\* What a step does to the rows and the transitions: nothing, one is read, one
\* is saved, or requests end or go on with something else.
LEMMA RowSteps ==
  ASSUME BookingInv, [Step]_vars
  PROVE  \/ \E p \in Publishers, b \in Bookings :
              /\ ~Found(b) /\ booking' = Put(booking, b, "assigned")
              /\ \A q \in Publishers : request'[q] = request[q] \/ request'[q].op # "saveBooking"
         \/ /\ UNCHANGED booking
            /\ \E p \in Publishers, b \in Bookings, next \in Asked :
                 /\ Found(b) /\ BookingMayBecome(booking[b], next)
                 /\ GoOn(p, [op |-> "saveBooking", booking |-> b, state |-> next])
         \/ \E p \in Publishers :
              /\ request[p].op = "saveBooking"
              /\ booking' = Put(booking, request[p].booking, request[p].state)
              /\ \A q \in Publishers \ {p} : request'[q] = request[q]
              /\ request'[p].op # "saveBooking"
         \/ /\ UNCHANGED booking
            /\ \A q \in Publishers : request'[q] = request[q] \/ request'[q].op # "saveBooking"
<1>1. request \in [Publishers -> RequestState]
  BY DEF BookingInv, Requests
<1>2. \A letters : Announcing(letters).op # "saveBooking"
  BY DEF Announcing, Idle
<1>3. CASE HubStep \/ (\E s \in Sessions : SessionSaved(s)) \/ UNCHANGED vars
  BY <1>3 DEF HubStep, SessionSaved, tables, vars
<1>4. CASE Restart
  BY <1>4 DEF Restart, tables, Idle
<1>5. CASE \E p \in Publishers, b \in Bookings : Assign(p, b)
  BY <1>1, <1>2, <1>5 DEF Assign, GoOn
<1>6. CASE \E p \in Publishers : HandleBookingActions(p)
  <2>1. CASE \E p \in Publishers, b \in Bookings, actor \in Users, next \in Asked : TransitionForActor(p, actor, b, next)
    BY <2>1 DEF TransitionForActor, tables
  <2>2. CASE \E p \in Publishers, b \in Bookings, actor \in Users, rating \in Ratings : CreateForActor(p, actor, b, rating)
    BY <1>1, <2>2 DEF CreateForActor, GoOn, tables
  <2> QED
    BY <1>6, <2>1, <2>2 DEF HandleBookingActions
<1>7. CASE \E p \in Publishers : HandleBookingRead(p)
  BY <1>1, <1>7 DEF HandleBookingRead, GetDriverTrackingForRider, GoOn, tables
<1>8. CASE \E p \in Publishers, s \in Sessions : PublishDriverTrackingUpdates(p, s)
  BY <1>1, <1>2, <1>8 DEF PublishDriverTrackingUpdates, GoOn, tables
<1>9. ASSUME NEW p \in Publishers, Proceed(p) PROVE
         \/ /\ request[p].op = "saveBooking"
            /\ booking' = Put(booking, request[p].booking, request[p].state)
            /\ \A q \in Publishers \ {p} : request'[q] = request[q]
            /\ request'[p].op # "saveBooking"
         \/ /\ UNCHANGED booking
            /\ \A q \in Publishers : request'[q] = request[q] \/ request'[q].op # "saveBooking"
  <2>1. CASE SaveBooking(p)
    BY <1>1, <1>2, <2>1 DEF SaveBooking, GoOn
  <2>2. CASE Announce(p)
    BY <1>1, <1>2, <2>2 DEF Announce, GoOn, tables
  <2>3. CASE ReadSession(p)
    BY <1>1, <2>3 DEF ReadSession, GoOn, tables, Idle
  <2>4. CASE Answer(p) \/ StoreCallFails(p)
    BY <1>1, <2>4 DEF Answer, StoreCallFails, GoOn, tables, Idle
  <2>5. CASE \E id \in ReviewIds : SaveReview(p, id)
    BY <1>1, <2>5 DEF SaveReview, GoOn, Idle
  <2> QED
    BY <1>9, <2>1, <2>2, <2>3, <2>4, <2>5 DEF Proceed
<1> QED
  BY <1>3, <1>4, <1>5, <1>6, <1>7, <1>8, <1>9 DEF Step

\* A transition that was on its way before is on its way with what it had read.
LEMMA UndisturbedStep ==
  ASSUME BookingInv, Undisturbed, [Next]_vars
  PROVE  Undisturbed'
<1>1. /\ [Step]_vars /\ raced \subseteq raced' /\ Overlapping' \subseteq raced'
  BY DEF Next, vars, Undisturbed, Overlapping, Transits
<1>2. request \in [Publishers -> RequestState] /\ request' \in [Publishers -> RequestState]
  BY <1>1, StepKeeps DEF BookingInv, Requests
<1>3. ASSUME NEW p \in Publishers, NEW b \in Bookings \ raced', Transits(p, b)'
      PROVE  (Found(b) /\ BookingMayBecome(booking[b], request[p].state))'
  <2>1. b \notin raced
    BY <1>1
  <2>2. Transits(p, b) => Found(b) /\ BookingMayBecome(booking[b], request[p].state)
    BY <2>1 DEF Undisturbed
  <2>3. \A q \in Publishers : Transits(p, b) /\ Transits(q, b) => p = q
    BY <2>1 DEF Undisturbed, Overlapping
  <2>4. CASE \E q \in Publishers, c \in Bookings :
              /\ ~Found(c) /\ booking' = Put(booking, c, "assigned")
              /\ \A r \in Publishers : request'[r] = request[r] \/ request'[r].op # "saveBooking"
    <3>1. PICK c \in Bookings : ~Found(c) /\ booking' = Put(booking, c, "assigned")
      BY <2>4
    <3>2. request'[p] = request[p] /\ Transits(p, b)
      BY <1>3, <2>4 DEF Transits
    <3> QED
      BY <2>2, <3>1, <3>2 DEF Found, Put
  <2>5. CASE /\ UNCHANGED booking
             /\ \E q \in Publishers, c \in Bookings, next \in Asked :
                  /\ Found(c) /\ BookingMayBecome(booking[c], next)
                  /\ GoOn(q, [op |-> "saveBooking", booking |-> c, state |-> next])
    <3>1. PICK q \in Publishers, c \in Bookings, next \in Asked :
            /\ Found(c) /\ BookingMayBecome(booking[c], next)
            /\ GoOn(q, [op |-> "saveBooking", booking |-> c, state |-> next])
      BY <2>5
    <3>2. CASE p = q
      BY <1>2, <1>3, <2>5, <3>1, <3>2 DEF GoOn, Transits, Found
    <3>3. CASE p # q
      BY <1>2, <1>3, <2>2, <2>5, <3>1, <3>3 DEF GoOn, Transits, Found
    <3> QED
      BY <3>2, <3>3
  <2>6. CASE \E q \in Publishers :
              /\ request[q].op = "saveBooking"
              /\ booking' = Put(booking, request[q].booking, request[q].state)
              /\ \A r \in Publishers \ {q} : request'[r] = request[r]
              /\ request'[q].op # "saveBooking"
    <3>1. PICK q \in Publishers :
              /\ request[q].op = "saveBooking"
              /\ booking' = Put(booking, request[q].booking, request[q].state)
              /\ \A r \in Publishers \ {q} : request'[r] = request[r]
              /\ request'[q].op # "saveBooking"
      BY <2>6
    <3>2. p # q /\ request'[p] = request[p] /\ Transits(p, b)
      BY <1>3, <3>1 DEF Transits
    <3>3. request[q].booking # b
      BY <2>3, <3>1, <3>2 DEF Transits
    <3> QED
      BY <2>2, <3>1, <3>2, <3>3 DEF Found, Put
  <2>7. CASE /\ UNCHANGED booking
             /\ \A q \in Publishers : request'[q] = request[q] \/ request'[q].op # "saveBooking"
    BY <1>3, <2>2, <2>7 DEF Transits, Found
  <2> QED
    BY <1>1, <2>4, <2>5, <2>6, <2>7, RowSteps
<1> QED
  BY <1>1, <1>3 DEF Undisturbed

\* The stages order the table of transitions.
LEMMA TableGoesForward ==
  ASSUME NEW from, NEW to, BookingMayBecome(from, to)
  PROVE  Stage(from) < Stage(to)
<1>1. CASE from = "assigned"
  BY <1>1 DEF BookingMayBecome, Stage
<1>2. CASE from = "rider_walking_to_pickup"
  BY <1>2 DEF BookingMayBecome, Stage
<1>3. CASE from = "driver_en_route_to_pickup"
  BY <1>3 DEF BookingMayBecome, Stage
<1>4. CASE from = "pickup_ready"
  BY <1>4 DEF BookingMayBecome, Stage
<1>5. CASE from = "onboard"
  BY <1>5 DEF BookingMayBecome, Stage
<1> QED
  BY <1>1, <1>2, <1>3, <1>4, <1>5 DEF BookingMayBecome

\* The invariant the others are read off: whatever a request or a publisher holds
\* is justified by the states its booking has been in.
THEOREM BookingInvariance == Spec => []BookingInv
<1>1. Init => BookingInv
  <2> SUFFICES ASSUME Init PROVE BookingInv
    OBVIOUS
  <2>1. DOMAIN booking = {} /\ DOMAIN review = {} /\ DOMAIN clients = {}
    BY DEF Init, HubInit
  <2>2. Rows
    BY <2>1, FS_EmptySet DEF Init, Rows
  <2>3. Requests
    BY IdleJustified DEF Init, Requests
  <2>4. Sendings
    BY DEF Init, HubInit, Sendings, TrulySent, Quiet
  <2>5. CompletedRodeAlong /\ Reviews /\ Listings
    BY <2>1 DEF Init, CompletedRodeAlong, Reviews, Listings
  <2> QED
    BY <2>2, <2>3, <2>4, <2>5 DEF BookingInv
<1>2. BookingInv /\ [Next]_vars => BookingInv'
  BY StepKeeps DEF Next
<1> QED
  BY <1>1, <1>2, PTL DEF Spec

\* Rows, histories and requests have their shape.
THEOREM BookingTypes == Spec => []TypeOK
<1> DEFINE Races == raced \subseteq Bookings
<1>1. Init => Races
  BY DEF Init
<1>2. Races /\ [Next]_vars => Races'
  BY DEF Next, vars, Overlapping
<1>3. BookingInv /\ Races => TypeOK
  BY DEF BookingInv, Rows, Requests, TypeOK
<1> QED
  BY <1>1, <1>2, <1>3, BookingInvariance, PTL DEF Spec

\* Nobody has completed a ride without having been on board, and nobody has been
\* on board without having been at the pickup, whichever saves crossed.
THEOREM CompletedAlwaysRodeAlong == Spec => []CompletedRodeAlong
<1>1. BookingInv => CompletedRodeAlong
  BY DEF BookingInv
<1> QED
  BY <1>1, BookingInvariance, PTL

\* A ride that two transitions never raced for goes forward along the table, save
\* after save, and stays over once it is over.
THEOREM RidesAlwaysMoveForward == Spec => RidesMoveForward
<1>1. Init => Undisturbed
  BY DEF Init, Undisturbed, Overlapping, Transits, Idle
<1>2. ASSUME BookingInv, Undisturbed, [Next]_vars, NEW b \in DOMAIN booking \ raced, booking'[b] # booking[b]
      PROVE  BookingMayBecome(booking[b], booking'[b])
  <2>1. b \in Bookings /\ Found(b) /\ [Step]_vars
    BY <1>2 DEF BookingInv, Rows, Found, Next, vars
  <2>2. PICK p \in Publishers : /\ request[p].op = "saveBooking"
                                /\ booking' = Put(booking, request[p].booking, request[p].state)
    BY <1>2, <2>1, RowSteps DEF Put, Found
  <2>3. request[p].booking = b /\ booking'[b] = request[p].state
    BY <1>2, <2>1, <2>2 DEF Put, Found
  <2> QED
    BY <1>2, <2>1, <2>2, <2>3 DEF Undisturbed, Transits
<1>3. BookingInv /\ Undisturbed /\ [Next]_vars =>
        [\A b \in DOMAIN booking \ raced : booking'[b] # booking[b] =>
           /\ BookingMayBecome(booking[b], booking'[b])
           /\ Stage(booking[b]) < Stage(booking'[b])]_vars
  BY <1>2, TableGoesForward
<1>4. BookingInv /\ Undisturbed /\ [Next]_vars => Undisturbed'
  BY UndisturbedStep
<1> QED
  BY <1>1, <1>3, <1>4, BookingInvariance, PTL DEF Spec, RidesMoveForward

\* Every review in the table is of a completed ride, by one of its people about
\* the other, with a rating the table allows.
THEOREM ReviewsAlwaysEarned == Spec => []ReviewsAreEarned
<1>1. BookingInv => ReviewsAreEarned
  BY DEF BookingInv, Reviews, ReviewsAreEarned, ListBySubjectID
<1> QED
  BY <1>1, BookingInvariance, PTL

\* Transitions, tracking policy and the query of active bookings agree.
THEOREM OverAlwaysMeansTheSame == Spec => []OverMeansTheSame
<1>1. ASSUME BookingInv PROVE OverMeansTheSame
  <2>1. ASSUME NEW b \in DOMAIN booking, NEW u \in Participants(b)
        PROVE  LET changes == \E next \in BookingStates : BookingMayBecome(booking[b], next) IN
               /\ b \in ListActiveByActorID(u) <=> changes
               /\ AllowsDriverTracking(booking[b]) <=> changes
    <3>1. booking[b] \in BookingStates
      BY <1>1 DEF BookingInv, Rows
    <3>2. (\E next \in BookingStates : BookingMayBecome(booking[b], next)) <=> AllowsDriverTracking(booking[b])
      BY <3>1 DEF BookingMayBecome, BookingStates, AllowsDriverTracking
    <3>3. b \in ListActiveByActorID(u) <=> AllowsDriverTracking(booking[b])
      BY <3>1 DEF ListActiveByActorID, BookingStates, AllowsDriverTracking
    <3> QED
      BY <3>2, <3>3
  <2> QED
    BY <2>1 DEF OverMeansTheSame
<1> QED
  BY <1>1, BookingInvariance, PTL

\* What is pushed to a connection or answered concerns its user and was the case;
\* the driver's position goes to the rider alone.
THEOREM PushesAlwaysTrue == Spec => []PushesAreTrue
<1>1. BookingInv => PushesAreTrue
  BY DEF BookingInv, Sendings, Requests, TrulySent, Justified, TrueIn, PushesAreTrue, IsTrue
<1> QED
  BY <1>1, BookingInvariance, PTL

=============================================================================
