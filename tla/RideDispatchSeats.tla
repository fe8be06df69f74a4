----------------------------- MODULE RideDispatchSeats -----------------------------
(***************************************************************************)
(* The seats of RideDispatch: whatever stale rows heartbeats, changes of   *)
(* state and the reconciler write back, a seat is only ever missing for a  *)
(* booking, and an active session has one left.  Where nobody saves a      *)
(* session blindly the bookings and the seats left add up to the vehicle,  *)
(* so that no seat is sold twice.  At the end, the seats being known, that *)
(* dispatch implements the ledger of AtomicAcceptance.                     *)
(***************************************************************************)
EXTENDS RideDispatchSafety, FiniteSetTheorems

-----------------------------------------------------------------------------
(* Bookings only grow *)

\* No step takes a booking from a session.
LEMMA BookingsGrow ==
  ASSUME TypeOK, ForeignKeys, CopiesInFlight, Next, IsFiniteSet(DOMAIN bookings)
  PROVE  /\ IsFiniteSet(DOMAIN bookings')
         /\ \A s : /\ Cardinality(BookingsOf(s)) \in Nat
                   /\ Cardinality(BookingsOf(s)') \in Nat
                   /\ Cardinality(BookingsOf(s)) <= Cardinality(BookingsOf(s)')
<1>1. IsFiniteSet(DOMAIN bookings')
  <2>1. CASE bookings' = bookings
    BY <2>1
  <2>2. ASSUME NEW o \in OfferIds, NEW b \in BookingIds, AcceptOffer(o, b)
        PROVE  IsFiniteSet(DOMAIN bookings')
    <3>1. DOMAIN bookings' = DOMAIN bookings \cup {b}
      BY <2>2, AcceptEffect, Zenon
    <3> QED BY <3>1, FS_AddElement
  <2> QED BY <2>1, <2>2, BookingsAdded
<1>2. ASSUME NEW s
      PROVE  /\ Cardinality(BookingsOf(s)) \in Nat
             /\ Cardinality(BookingsOf(s)') \in Nat
             /\ Cardinality(BookingsOf(s)) <= Cardinality(BookingsOf(s)')
  <2>1. BookingsOf(s)' \subseteq DOMAIN bookings' /\ BookingsOf(s) \subseteq BookingsOf(s)'
    BY RowsStayStep DEF BookingsOf, RowsStay
  <2>2. IsFiniteSet(BookingsOf(s)')
    BY <1>1, <2>1, FS_Subset
  <2> QED BY <2>1, <2>2, FS_Subset, FS_CardinalityType
<1> QED BY <1>1, <1>2

\* A copy that was sound when it was read stays sound.
LEMMA SoundStays ==
  ASSUME TypeOK, ForeignKeys, CopiesInFlight, Next, IsFiniteSet(DOMAIN bookings),
         NEW s \in SessionIds, NEW row \in SessionRow, RowIsSound(s, row)
  PROVE  RowIsSound(s, row)'
<1>1. row.seats \in Nat /\ Capacity[s] \in Nat
  BY CapacityAssumption DEF SessionRow
<1>2. /\ Cardinality(BookingsOf(s)) \in Nat
      /\ Cardinality(BookingsOf(s)') \in Nat
      /\ Cardinality(BookingsOf(s)) <= Cardinality(BookingsOf(s)')
  BY BookingsGrow
<1>3. row.seats + Cardinality(BookingsOf(s)) <= row.seats + Cardinality(BookingsOf(s)')
  BY <1>1, <1>2
<1>4. row.seats + Cardinality(BookingsOf(s)') >= Capacity[s]
  BY <1>1, <1>2, <1>3 DEF RowIsSound
<1> QED BY <1>4 DEF RowIsSound

-----------------------------------------------------------------------------
(* Every row and copy is sound *)

\* The rows a handler or a worker makes from sound ones.
LEMMA SoundRows ==
  ASSUME NEW s \in SessionIds
  PROVE  /\ IsFiniteSet(DOMAIN bookings) =>
              RowIsSound(s, [state |-> "active", seats |-> Capacity[s]])
         /\ \A row \in SessionRow : RowIsSound(s, row) =>
              /\ RowIsSound(s, [row EXCEPT !.state = "paused"])
              /\ \A next \in SessionStates : RowIsSound(s, Moved(row, next))
<1>1. ASSUME IsFiniteSet(DOMAIN bookings)
      PROVE  RowIsSound(s, [state |-> "active", seats |-> Capacity[s]])
  <2>1. Cardinality(BookingsOf(s)) \in Nat
    BY <1>1, FS_Subset, FS_CardinalityType DEF BookingsOf
  <2>2. Capacity[s] \in Nat \ {0}
    BY CapacityAssumption
  <2>3. Capacity[s] + Cardinality(BookingsOf(s)) >= Capacity[s]
    BY <2>1, <2>2
  <2> QED BY <2>2, <2>3 DEF RowIsSound
<1>2. ASSUME NEW row \in SessionRow, RowIsSound(s, row)
      PROVE  /\ RowIsSound(s, [row EXCEPT !.state = "paused"])
             /\ \A next \in SessionStates : RowIsSound(s, Moved(row, next))
  <2>1. [row EXCEPT !.state = "paused"].seats = row.seats
        /\ [row EXCEPT !.state = "paused"].state = "paused"
    BY DEF SessionRow
  <2>2. ASSUME NEW next \in SessionStates
        PROVE  /\ Moved(row, next).seats = row.seats
               /\ Moved(row, next).state = "active" => row.seats # 0
    BY DEF Moved, SessionRow
  <2>3. row.seats \in Nat
    BY DEF SessionRow
  <2> QED BY <1>2, <2>1, <2>2, <2>3 DEF RowIsSound
<1> QED BY <1>1, <1>2

\* The row that an acceptance leaves: one seat less, one booking more.
LEMMA AcceptedRowIsSound ==
  ASSUME DispatchInv, SeatsInv, Next, NEW o \in OfferIds, NEW b \in BookingIds, AcceptOffer(o, b),
         NEW s, s = offers[o].session, NEW row, row = SeatTaken(sessions[s])
  PROVE  RowIsSound(s, row)'
<1>1. /\ s \in DOMAIN sessions /\ s \in SessionIds
      /\ sessions[s] \in SessionRow /\ sessions[s].seats > 0
      /\ RowIsSound(s, sessions[s])
  BY DEF AcceptOffer, DispatchInv, TypeOK, ForeignKeys, RowKeys, SeatsInv
<1>2. /\ row.seats = sessions[s].seats - 1
      /\ row.state = "active" => sessions[s].seats # 1
  BY <1>1 DEF SeatTaken, SessionRow
<1>3. /\ Cardinality(BookingsOf(s)) \in Nat
      /\ Cardinality(BookingsOf(s)') = Cardinality(BookingsOf(s)) + 1
  <2>1. /\ b \notin DOMAIN bookings
        /\ DOMAIN bookings' = DOMAIN bookings \cup {b}
        /\ bookings'[b].session = s
        /\ \A c \in DOMAIN bookings : bookings'[c] = bookings[c]
    BY AcceptEffect, Zenon DEF DispatchInv
  <2>2. BookingsOf(s)' = BookingsOf(s) \cup {b} /\ b \notin BookingsOf(s)
    BY <2>1 DEF BookingsOf
  <2>3. IsFiniteSet(BookingsOf(s))
    BY FS_Subset DEF SeatsInv, BookingsOf
  <2> QED BY <2>2, <2>3, FS_AddElement, FS_CardinalityType
<1>4. sessions[s].seats \in Nat /\ Capacity[s] \in Nat
  BY <1>1, CapacityAssumption DEF SessionRow
<1>5. /\ row.seats <= Capacity[s] /\ (row.state = "active" => row.seats > 0)
      /\ row.seats + Cardinality(BookingsOf(s)') >= Capacity[s]
  BY <1>1, <1>2, <1>3, <1>4 DEF RowIsSound
<1> QED BY <1>5 DEF RowIsSound

\* The rows in Postgres are sound after every step.
LEMMA SessionsSound ==
  ASSUME DispatchInv, SeatsInv, Next
  PROVE  \A s \in DOMAIN sessions' : RowIsSound(s, sessions[s])'
<1> DEFINE Good == \A s \in DOMAIN sessions' : RowIsSound(s, sessions[s])'
<1>0. \A s \in SessionIds, row \in SessionRow : RowIsSound(s, row) => RowIsSound(s, row)'
  BY SoundStays DEF DispatchInv, SeatsInv
<1>1. ASSUME NEW s \in DOMAIN sessions
      PROVE  \A row : row = sessions[s] => RowIsSound(s, row)'
  BY <1>0 DEF SeatsInv, DispatchInv, TypeOK
<1>2. ASSUME sessions' = sessions PROVE Good
  BY <1>1, <1>2 DEF RowIsSound
<1>3. ASSUME NEW s \in SessionIds, NEW row \in SessionRow, RowIsSound(s, row),
             sessions' = Upsert(sessions, s, row)
      PROVE  Good
  <2>1. ASSUME NEW x \in DOMAIN sessions' PROVE RowIsSound(x, sessions[x])'
    <3>1. CASE x = s
      <4>1. sessions'[x] = row
        BY <1>3, <2>1, <3>1 DEF Upsert
      <4>2. RowIsSound(s, row)'
        BY <1>0, <1>3
      <4> QED BY <3>1, <4>1, <4>2 DEF RowIsSound
    <3>2. CASE x # s
      <4>1. x \in DOMAIN sessions /\ sessions'[x] = sessions[x]
        BY <1>3, <2>1, <3>2 DEF Upsert
      <4> QED BY <1>1, <4>1 DEF RowIsSound
    <3> QED BY <3>1, <3>2
  <2> QED BY <2>1
<1>4. ASSUME NEW p \in Requests, RequestArrives(p) \/ RequestGoesOn(p) \/ AbandonRequest(p)
      PROVE  Good
  <2>1. ASSUME NEW s \in SessionIds, Start(p, s) PROVE Good
    <3> DEFINE row == [state |-> "active", seats |-> Capacity[s]]
    <3>1. row \in SessionRow /\ RowIsSound(s, row)
      BY SoundRows, CapacityAssumption DEF SeatsInv, SessionRow, SessionStates
    <3>2. sessions' = Upsert(sessions, s, row)
      BY <2>1 DEF Start
    <3> HIDE DEF row
    <3> QED BY <1>3, <3>1, <3>2
  <2>2. CASE SaveHeartbeat(p) \/ SaveTransition(p)
    <3>1. /\ task[p].session \in SessionIds /\ task[p].row \in SessionRow
          /\ RowIsSound(task[p].session, task[p].row)
      BY <2>2, TaskType DEF SaveHeartbeat, SaveTransition, DispatchInv, SeatsInv
    <3> QED BY <1>3, <2>2, <3>1 DEF SaveHeartbeat, SaveTransition
  <2>3. \/ sessions' = sessions \/ SaveHeartbeat(p) \/ SaveTransition(p)
        \/ \E s \in SessionIds : Start(p, s)
    BY <1>4
       DEF RequestArrives, Heartbeat, TransitionState, CreateDemand, CancelDemand,
           DeclineOffer, RequestGoesOn, SavePresence, DeletePresence,
           ChooseCandidate, NoCandidate, SaveOffered, SaveOffer, SaveDemand, SaveDecline,
           AbandonRequest, store
  <2> QED BY <1>2, <2>1, <2>2, <2>3
<1>5. ASSUME NEW o \in OfferIds, NEW b \in BookingIds, AcceptOffer(o, b) PROVE Good
  <2>1. offers[o].session \in DOMAIN sessions
    BY <1>5 DEF AcceptOffer, DispatchInv, ForeignKeys, RowKeys
  <2>2. /\ DOMAIN sessions' = DOMAIN sessions
        /\ sessions'[offers[o].session] = SeatTaken(sessions[offers[o].session])
        /\ \A x \in DOMAIN sessions \ {offers[o].session} : sessions'[x] = sessions[x]
    BY <1>5, <2>1 DEF AcceptOffer, DispatchInv, TypeOK
  <2>3. \A s, row : s = offers[o].session /\ row = SeatTaken(sessions[s]) => RowIsSound(s, row)'
    BY <1>5, AcceptedRowIsSound
  <2>4. ASSUME NEW x \in DOMAIN sessions' PROVE RowIsSound(x, sessions[x])'
    <3>1. \A row : row = sessions'[x] => RowIsSound(x, row)'
      BY <1>1, <2>2, <2>3
    <3> QED BY <3>1 DEF RowIsSound
  <2> QED BY <2>4
<1>6. CASE Sweeper \/ SweepCrashes \/ \E o \in OfferIds : OfferTTLElapses(o)
  <2>1. sessions' = sessions
    BY <1>6 DEF Sweeper, SweepStart, SweepDone, SweepWithdraws, SweepSkips, SweepReadDemand,
                SweepTransition, SweepTransitionFails, SweepResetsDemand, SweepCrashes,
                OfferTTLElapses, store
  <2> QED BY <1>2, <2>1
<1>7. CASE ReconcilePauses
  <2>1. PICK item \in reconcile.todo :
          sessions' = Upsert(sessions, item.session, [item.row EXCEPT !.state = "paused"])
    BY <1>7 DEF ReconcilePauses
  <2>2. /\ item.session \in SessionIds /\ item.row \in SessionRow
        /\ RowIsSound(item.session, item.row)
    BY <1>7 DEF ReconcilePauses, SeatsInv, DispatchInv, TypeOK, ReconcileState, Asleep, Stale
  <2>3. RowIsSound(item.session, [item.row EXCEPT !.state = "paused"])
    BY <2>2, SoundRows
  <2>4. [item.row EXCEPT !.state = "paused"] \in SessionRow
    BY <2>2 DEF SessionRow, SessionStates
  <2> QED BY <1>3, <2>1, <2>2, <2>3, <2>4
<1>8. CASE ReconcileStart \/ ReconcileDeletes \/ ReconcileFails \/ \E s \in SessionIds : PresenceExpires(s)
  BY <1>2, <1>8 DEF ReconcileStart, ReconcileDeletes, ReconcileFails, PresenceExpires, store
<1> QED BY <1>4, <1>5, <1>6, <1>7, <1>8 DEF Next, Reconciler

\* So are the published rows in Redis, ...
LEMMA PresenceSound ==
  ASSUME DispatchInv, SeatsInv, Next
  PROVE  \A s \in DOMAIN presence' : RowIsSound(s, presence[s])'
<1> DEFINE Good == \A s \in DOMAIN presence' : RowIsSound(s, presence[s])'
<1>0. \A s \in SessionIds, row \in SessionRow : RowIsSound(s, row) => RowIsSound(s, row)'
  BY SoundStays DEF DispatchInv, SeatsInv
<1>1. \A s \in DOMAIN presence : \A row : row = presence[s] => RowIsSound(s, row)'
  BY <1>0 DEF SeatsInv, DispatchInv, TypeOK
<1>2. ASSUME presence' = presence \/ \E s : presence' = Remove(presence, s)
      PROVE  Good
  <2>1. \A x \in DOMAIN presence' : x \in DOMAIN presence /\ presence'[x] = presence[x]
    BY <1>2 DEF Remove
  <2> QED BY <1>1, <2>1 DEF RowIsSound
<1>3. ASSUME NEW p \in Requests, SavePresence(p) PROVE Good
  <2>1. /\ task[p].session \in SessionIds /\ task[p].row \in SessionRow
        /\ RowIsSound(task[p].session, task[p].row)
    BY <1>3, TaskType DEF SavePresence, DispatchInv, SeatsInv
  <2>2. \A s, row : s = task[p].session /\ row = task[p].row => RowIsSound(s, row)'
    BY <1>0, <2>1
  <2>3. ASSUME NEW x \in DOMAIN presence' PROVE RowIsSound(x, presence[x])'
    <3>1. \/ x = task[p].session /\ presence'[x] = task[p].row
          \/ x \in DOMAIN presence /\ presence'[x] = presence[x]
      BY <1>3, <2>3 DEF SavePresence, Upsert
    <3>2. \A row : row = presence'[x] => RowIsSound(x, row)'
      BY <1>1, <2>2, <3>1
    <3> QED BY <3>2 DEF RowIsSound
  <2> QED BY <2>3
<1>4. ASSUME NEW p \in Requests, RequestArrives(p) \/ RequestGoesOn(p) \/ AbandonRequest(p)
      PROVE  SavePresence(p) \/ presence' = presence \/ \E s : presence' = Remove(presence, s)
  BY <1>4
     DEF RequestArrives, Start, Heartbeat, TransitionState, CreateDemand, CancelDemand,
         DeclineOffer, RequestGoesOn, SaveHeartbeat, SaveTransition, DeletePresence,
         ChooseCandidate, NoCandidate, SaveOffered, SaveOffer, SaveDemand, SaveDecline,
         AbandonRequest, store
<1>5. CASE Sweeper \/ SweepCrashes \/ \E o \in OfferIds : OfferTTLElapses(o)
  <2>1. presence' = presence
    BY <1>5 DEF Sweeper, SweepStart, SweepDone, SweepWithdraws, SweepSkips, SweepReadDemand,
                SweepTransition, SweepTransitionFails, SweepResetsDemand, SweepCrashes,
                OfferTTLElapses, store
  <2> QED BY <1>2, <2>1
<1>6. CASE Reconciler \/ ReconcileFails \/ \E s \in SessionIds : PresenceExpires(s)
  <2>1. presence' = presence \/ \E s : presence' = Remove(presence, s)
    BY <1>6 DEF Reconciler, ReconcileStart, ReconcilePauses, ReconcileDeletes, ReconcileFails,
                PresenceExpires, store
  <2> QED BY <1>2, <2>1
<1>7. ASSUME NEW o \in OfferIds, NEW b \in BookingIds, AcceptOffer(o, b) PROVE presence' = presence
  BY <1>7 DEF AcceptOffer
<1> QED BY <1>2, <1>3, <1>4, <1>5, <1>6, <1>7 DEF Next

\* The operations that carry a session row.
RowOps == {"saveHeartbeat", "saveTransition", "savePresence"}

\* ... the rows that requests in flight hold, ...
LEMMA TasksSound ==
  ASSUME DispatchInv, SeatsInv, Next
  PROVE  \A p \in Requests : task'[p].op \in RowOps => RowIsSound(task[p].session, task[p].row)'
<1> DEFINE Good == \A p \in Requests :
             task'[p].op \in RowOps => RowIsSound(task[p].session, task[p].row)'
<1>0. \A s \in SessionIds, row \in SessionRow : RowIsSound(s, row) => RowIsSound(s, row)'
  BY SoundStays DEF DispatchInv, SeatsInv
<1>1. ASSUME NEW p \in Requests, task[p].op \in RowOps
      PROVE  /\ task[p].session \in SessionIds /\ task[p].row \in SessionRow
             /\ RowIsSound(task[p].session, task[p].row)
             /\ \A s, row : s = task[p].session /\ row = task[p].row => RowIsSound(s, row)'
  BY <1>0, <1>1, TaskType DEF RowOps, DispatchInv, SeatsInv
<1>2. ASSUME task' = task PROVE Good
  BY <1>1, <1>2 DEF RowIsSound
<1>3. ASSUME NEW p \in Requests, NEW t, Continue(p, t),
             t.op \in RowOps => /\ t.session \in SessionIds /\ t.row \in SessionRow
                                /\ RowIsSound(t.session, t.row)
      PROVE  Good
  <2>1. task'[p] = t /\ \A q \in Requests \ {p} : task'[q] = task[q]
    BY <1>3, ContinueTask DEF DispatchInv
  <2>2. ASSUME NEW q \in Requests, task'[q].op \in RowOps
        PROVE  RowIsSound(task[q].session, task[q].row)'
    <3>1. \A s, row : s = task'[q].session /\ row = task'[q].row => RowIsSound(s, row)'
      BY <1>0, <1>1, <1>3, <2>1, <2>2
    <3> QED BY <3>1 DEF RowIsSound
  <2> QED BY <2>2
<1>4. ASSUME NEW p \in Requests, NEW t, Continue(p, t), t.op \notin RowOps PROVE Good
  BY <1>3, <1>4
<1>5. ASSUME NEW p \in Requests, NEW s \in SessionIds, Start(p, s) PROVE Good
  <2> DEFINE row == [state |-> "active", seats |-> Capacity[s]]
  <2>1. row \in SessionRow /\ RowIsSound(s, row)
    BY SoundRows, CapacityAssumption DEF SeatsInv, SessionRow, SessionStates
  <2>2. Continue(p, [op |-> "savePresence", session |-> s, row |-> row])
    BY <1>5 DEF Start
  <2> HIDE DEF row
  <2> QED BY <1>3, <2>1, <2>2
<1>6. ASSUME NEW p \in Requests, NEW s \in SessionIds, Heartbeat(p, s) PROVE Good
  <2>1. sessions[s] \in SessionRow /\ RowIsSound(s, sessions[s])
    BY <1>6 DEF Heartbeat, DispatchInv, TypeOK, SeatsInv
  <2> QED BY <1>3, <1>6, <2>1 DEF Heartbeat
<1>7. ASSUME NEW p \in Requests, NEW s \in SessionIds, NEW next \in SessionStates,
             TransitionState(p, s, next)
      PROVE  Good
  <2>1. sessions[s] \in SessionRow /\ RowIsSound(s, sessions[s])
    BY <1>7 DEF TransitionState, DispatchInv, TypeOK, SeatsInv
  <2>2. RowIsSound(s, Moved(sessions[s], next))
    BY <2>1, SoundRows
  <2>3. Moved(sessions[s], next) \in SessionRow
    BY <2>1 DEF Moved, SessionRow, SessionStates
  <2>4. Continue(p, [op |-> "saveTransition", session |-> s, row |-> Moved(sessions[s], next)])
    BY <1>7 DEF TransitionState
  <2> QED BY <1>3, <2>2, <2>3, <2>4
<1>8. ASSUME NEW p \in Requests, SaveHeartbeat(p) \/ SaveTransition(p) PROVE Good
  <2>1. \/ Continue(p, Publish(p))
        \/ Continue(p, [op |-> "deletePresence", session |-> task[p].session])
    BY <1>8 DEF SaveHeartbeat, SaveTransition
  <2>2. task[p].op \in RowOps
    BY <1>8 DEF SaveHeartbeat, SaveTransition, RowOps
  <2>3. CASE Continue(p, Publish(p))
    <3>1. Publish(p).session = task[p].session /\ Publish(p).row = task[p].row
      BY DEF Publish
    <3> QED BY <1>1, <1>3, <2>2, <2>3, <3>1
  <2>4. CASE Continue(p, [op |-> "deletePresence", session |-> task[p].session])
    BY <1>4, <2>4 DEF RowOps
  <2> QED BY <2>1, <2>3, <2>4
<1>9. ASSUME NEW p \in Requests, DemandStep(p) PROVE Good
  BY <1>4, <1>9 DEF DemandStep, CreateDemand, CancelDemand, SaveOffer, DeclineOffer, ChooseCandidate,
                    SaveOffered, SaveDemand, SaveDecline, Idle, RowOps
<1>10. ASSUME NEW p \in Requests,
              SavePresence(p) \/ DeletePresence(p) \/ NoCandidate(p) \/ AbandonRequest(p)
       PROVE  Good
  BY <1>4, <1>10 DEF SavePresence, DeletePresence, NoCandidate, AbandonRequest, Idle, RowOps
<1>11. CASE Sweeper \/ SweepCrashes \/ \E o \in OfferIds : OfferTTLElapses(o)
  <2>1. task' = task
    BY <1>11 DEF Sweeper, SweepStart, SweepDone, SweepWithdraws, SweepSkips, SweepReadDemand,
                 SweepTransition, SweepTransitionFails, SweepResetsDemand, SweepCrashes,
                 OfferTTLElapses, store
  <2> QED BY <1>2, <2>1
<1>12. CASE Reconciler \/ ReconcileFails \/ \E s \in SessionIds : PresenceExpires(s)
  <2>1. task' = task
    BY <1>12 DEF Reconciler, ReconcileStart, ReconcilePauses, ReconcileDeletes, ReconcileFails,
                 PresenceExpires
  <2> QED BY <1>2, <2>1
<1>13. ASSUME NEW o \in OfferIds, NEW b \in BookingIds, AcceptOffer(o, b) PROVE Good
  BY <1>2, <1>13 DEF AcceptOffer
<1> QED BY <1>5, <1>6, <1>7, <1>8, <1>9, <1>10, <1>11, <1>12, <1>13
        DEF Next, RequestArrives, RequestGoesOn, DemandStep

\* ... and those the reconciler has listed.
LEMMA ReconcileSound ==
  ASSUME DispatchInv, SeatsInv, Next
  PROVE  reconcile'.at # "asleep" =>
           \A item \in reconcile'.todo : RowIsSound(item.session, item.row)'
<1> DEFINE Good == reconcile'.at # "asleep" =>
             \A item \in reconcile'.todo : RowIsSound(item.session, item.row)'
<1>0. \A s \in SessionIds, row \in SessionRow : RowIsSound(s, row) => RowIsSound(s, row)'
  BY SoundStays DEF DispatchInv, SeatsInv
<1>1. ASSUME reconcile.at # "asleep", NEW item \in reconcile.todo
      PROVE  RowIsSound(item.session, item.row)'
  <2>1. item.session \in SessionIds /\ item.row \in SessionRow
    BY <1>1 DEF DispatchInv, TypeOK, ReconcileState, Asleep, Stale
  <2> QED BY <1>0, <1>1, <2>1 DEF SeatsInv
<1>2. ASSUME reconcile' = reconcile PROVE Good
  BY <1>1, <1>2
<1>3. CASE ReconcileStart
  <2>1. PICK stale \in SUBSET Listed(sessions) \ {{}} :
          reconcile' = [at |-> "pause",
                        todo |-> {[session |-> s, row |-> sessions[s]] : s \in stale}]
    BY <1>3 DEF ReconcileStart
  <2>2. \A s \in stale : s \in DOMAIN sessions
    BY DEF Listed
  <2>3. \A s \in DOMAIN sessions : \A row : row = sessions[s] => RowIsSound(s, row)'
    BY <1>0 DEF SeatsInv, DispatchInv, TypeOK
  <2>4. \A item \in reconcile'.todo : \E s \in stale : item = [session |-> s, row |-> sessions[s]]
    BY <2>1
  <2> QED BY <2>2, <2>3, <2>4
<1>4. CASE ReconcilePauses
  <2>1. reconcile.at # "asleep" /\ reconcile'.todo \subseteq reconcile.todo
    BY <1>4 DEF ReconcilePauses
  <2> QED BY <1>1, <2>1
<1>5. CASE ReconcileDeletes
  BY <1>1, <1>5 DEF ReconcileDeletes, Asleep
<1>6. CASE ReconcileFails
  BY <1>6 DEF ReconcileFails, Asleep
<1>7. ASSUME NEW p \in Requests, RequestArrives(p) \/ RequestGoesOn(p) \/ AbandonRequest(p)
      PROVE  reconcile' = reconcile
  BY <1>7
     DEF RequestArrives, Start, Heartbeat, TransitionState, CreateDemand, CancelDemand,
         DeclineOffer, RequestGoesOn, SaveHeartbeat, SaveTransition, SavePresence, DeletePresence,
         ChooseCandidate, NoCandidate, SaveOffered, SaveOffer, SaveDemand, SaveDecline,
         AbandonRequest, workers
<1>8. CASE Sweeper \/ SweepCrashes \/ \E o \in OfferIds : OfferTTLElapses(o)
  <2>1. reconcile' = reconcile
    BY <1>8 DEF Sweeper, SweepStart, SweepDone, SweepWithdraws, SweepSkips, SweepReadDemand,
                SweepTransition, SweepTransitionFails, SweepResetsDemand, SweepCrashes,
                OfferTTLElapses, workers
  <2> QED BY <1>2, <2>1
<1>9. ASSUME NEW o \in OfferIds, NEW b \in BookingIds, AcceptOffer(o, b)
      PROVE  reconcile' = reconcile
  BY <1>9 DEF AcceptOffer, workers
<1>10. ASSUME NEW s \in SessionIds, PresenceExpires(s) PROVE reconcile' = reconcile
  BY <1>10 DEF PresenceExpires, workers
<1> QED BY <1>2, <1>3, <1>4, <1>5, <1>6, <1>7, <1>8, <1>9, <1>10 DEF Next, Reconciler

-----------------------------------------------------------------------------
(* Theorems *)

\* SeatsInv is inductive, given DispatchInv.
LEMMA SeatsStep == DispatchInv /\ SeatsInv /\ [Next]_vars => SeatsInv'
<1>1. ASSUME DispatchInv, SeatsInv, Next PROVE SeatsInv'
  <2>1. IsFiniteSet(DOMAIN bookings')
    BY <1>1, BookingsGrow DEF DispatchInv, SeatsInv
  <2> QED BY <1>1, <2>1, SessionsSound, PresenceSound, TasksSound, ReconcileSound
          DEF SeatsInv, RowOps
<1>2. ASSUME SeatsInv, UNCHANGED vars PROVE SeatsInv'
  BY <1>2 DEF SeatsInv, RowIsSound, BookingsOf, vars
<1> QED BY <1>1, <1>2

\* Before the first session starts there is no row to be unsound.
LEMMA SeatsInit == Init => SeatsInv
<1> SUFFICES ASSUME Init PROVE SeatsInv
  OBVIOUS
<1>1. IsFiniteSet(DOMAIN bookings)
  <2>1. DOMAIN bookings = {}
    BY DEF Init, EmptyTable
  <2> QED BY <2>1, FS_EmptySet
<1> QED BY <1>1 DEF Init, EmptyTable, SeatsInv, Idle, Asleep

\* Every row of a session, stored, published or in flight, is always sound.
THEOREM SeatsInvariance == Spec => []SeatsInv
BY SeatsInit, SeatsStep, Invariance, PTL DEF Spec

\* In every reachable state, with any number of sessions and requests, a seat
\* missing in Postgres or in Redis has its booking.
THEOREM NoSeatIsLost == Spec => []SeatsAreAccountedFor
<1>1. SeatsInv => SeatsAreAccountedFor
  BY DEF SeatsInv, SeatsAreAccountedFor, RowIsSound
<1> QED BY <1>1, SeatsInvariance, PTL

\* And a session listed as active has a seat to offer.
THEOREM ActiveSessionsHaveSeats == Spec => []ActiveHasSeat
<1>1. SeatsInv => ActiveHasSeat
  BY DEF SeatsInv, ActiveHasSeat, RowIsSound
<1> QED BY <1>1, SeatsInvariance, PTL

-----------------------------------------------------------------------------
(* Where nobody saves a session blindly *)

\* No copy of a session row is ever taken to be written back.
LEMMA NoSessionCopiesStep ==
  ASSUME Ops \cap BlindSessionSaves = {}, TypeOK, NoSessionCopies, Next
  PROVE  NoSessionCopies'
<1> USE DEF NoSessionCopies
<1>0. "heartbeat" \notin Ops /\ "transition" \notin Ops /\ "reconcile" \notin Ops
  BY DEF BlindSessionSaves
<1>1. ASSUME NEW p \in Requests, NEW t, Continue(p, t), t.op \notin {"saveHeartbeat", "saveTransition"},
             UNCHANGED reconcile
      PROVE  NoSessionCopies'
  BY <1>1, ContinueTask
<1>2. ASSUME UNCHANGED <<task, reconcile>> PROVE NoSessionCopies'
  BY <1>2
<1>3. ASSUME NEW p \in Requests, RequestArrives(p) PROVE NoSessionCopies'
  <2>1. ASSUME NEW s \in SessionIds, Start(p, s) PROVE NoSessionCopies'
    BY <1>1, <2>1 DEF Start, workers
  <2>2. ASSUME NEW s \in SessionIds, Heartbeat(p, s) \/ \E next \in SessionStates : TransitionState(p, s, next)
        PROVE  FALSE
    BY <1>0, <2>2 DEF Heartbeat, TransitionState
  <2>3. ASSUME NEW d \in DemandIds, CreateDemand(p, d) \/ CancelDemand(p, d) PROVE NoSessionCopies'
    BY <1>1, <2>3 DEF CreateDemand, CancelDemand, workers
  <2>4. ASSUME NEW o \in OfferIds, DeclineOffer(p, o) PROVE NoSessionCopies'
    BY <1>1, <2>4 DEF DeclineOffer, workers
  <2> QED BY <1>3, <2>1, <2>2, <2>3, <2>4 DEF RequestArrives
<1>4. ASSUME NEW p \in Requests, RequestGoesOn(p) \/ AbandonRequest(p) PROVE NoSessionCopies'
  <2>1. CASE ChooseCandidate(p)
    BY <1>1, <2>1 DEF ChooseCandidate, workers
  <2>2. ASSUME NEW o \in OfferIds, SaveOffer(p, o) PROVE NoSessionCopies'
    BY <1>1, <2>2 DEF SaveOffer, workers
  <2>3. CASE SavePresence(p) \/ DeletePresence(p) \/ NoCandidate(p) \/ SaveOffered(p) \/ SaveDemand(p)
             \/ SaveDecline(p) \/ AbandonRequest(p)
    <3>1. Continue(p, Idle) /\ UNCHANGED reconcile
      BY <2>3 DEF SavePresence, DeletePresence, NoCandidate, SaveOffered, SaveDemand, SaveDecline,
                  AbandonRequest, workers
    <3> QED BY <1>1, <3>1 DEF Idle
  <2>4. ~SaveHeartbeat(p) /\ ~SaveTransition(p)
    BY DEF SaveHeartbeat, SaveTransition
  <2> QED BY <1>4, <2>1, <2>2, <2>3, <2>4 DEF RequestGoesOn
<1>5. ASSUME NEW o \in OfferIds, NEW b \in BookingIds, AcceptOffer(o, b) PROVE NoSessionCopies'
  BY <1>2, <1>5 DEF AcceptOffer, workers
<1>6. CASE Sweeper \/ SweepCrashes \/ \E o \in OfferIds : OfferTTLElapses(o)
  <2>1. UNCHANGED <<task, reconcile>>
    BY <1>6 DEF Sweeper, SweepStart, SweepDone, SweepWithdraws, SweepSkips, SweepReadDemand,
                SweepTransition, SweepTransitionFails, SweepResetsDemand, SweepCrashes,
                OfferTTLElapses, workers
  <2> QED BY <1>2, <2>1
<1>7. CASE Reconciler \/ ReconcileFails
  BY <1>0, <1>7 DEF Reconciler, ReconcileStart, ReconcilePauses, ReconcileDeletes, ReconcileFails, Asleep
<1>8. ASSUME NEW s \in SessionIds, PresenceExpires(s) PROVE NoSessionCopies'
  BY <1>2, <1>8 DEF PresenceExpires, workers
<1> QED BY <1>3, <1>4, <1>5, <1>6, <1>7, <1>8 DEF Next

\* A session starts without bookings, and an acceptance takes the seat it books.
LEMMA SeatsMatchStep ==
  ASSUME Ops \cap BlindSessionSaves = {}, DispatchInv, SeatsInv, NoSessionCopies, SeatsMatchBookings, Next
  PROVE  SeatsMatchBookings'
<1>1. ASSUME UNCHANGED <<sessions, bookings>> PROVE SeatsMatchBookings'
  BY <1>1 DEF SeatsMatchBookings, BookingsOf
<1>2. ASSUME NEW p \in Requests, NEW s \in SessionIds, Start(p, s) PROVE SeatsMatchBookings'
  <2>1. BookingsOf(s) = {}
    BY <1>2 DEF Start, BookingsOf, DispatchInv, ForeignKeys, RowKeys
  <2>2. Cardinality(BookingsOf(s)) = 0
    BY <2>1, FS_EmptySet
  <2>3. \A x : BookingsOf(x)' = BookingsOf(x)
    BY <1>2 DEF Start, BookingsOf
  <2>4. ASSUME NEW x \in DOMAIN sessions'
        PROVE  sessions'[x].seats + Cardinality(BookingsOf(x)) = Capacity[x]
    <3>1. CASE x = s
      <4>1. sessions'[x].seats = Capacity[x]
        BY <1>2, <3>1 DEF Start, Upsert
      <4> QED BY <2>2, <3>1, <4>1, CapacityAssumption
    <3>2. CASE x # s
      <4>1. x \in DOMAIN sessions /\ sessions'[x] = sessions[x]
        BY <1>2, <2>4, <3>2 DEF Start, Upsert
      <4> QED BY <4>1 DEF SeatsMatchBookings
    <3> QED BY <3>1, <3>2
  <2> QED BY <2>3, <2>4 DEF SeatsMatchBookings
<1>3. ASSUME NEW o \in OfferIds, NEW b \in BookingIds, AcceptOffer(o, b) PROVE SeatsMatchBookings'
  <2>0. PICK s : s = offers[o].session
    OBVIOUS
  <2>1. /\ s \in DOMAIN sessions /\ s \in SessionIds
        /\ sessions[s].seats \in Nat /\ sessions[s].seats > 0
        /\ DOMAIN sessions' = DOMAIN sessions
        /\ sessions'[s].seats = sessions[s].seats - 1
        /\ \A x \in DOMAIN sessions \ {s} : sessions'[x] = sessions[x]
    BY <1>3, <2>0 DEF AcceptOffer, SeatTaken, DispatchInv, TypeOK, SessionRow, ForeignKeys, RowKeys
  <2>2. /\ b \notin DOMAIN bookings
        /\ DOMAIN bookings' = DOMAIN bookings \cup {b}
        /\ bookings'[b].session = s
        /\ \A c \in DOMAIN bookings : bookings'[c] = bookings[c]
    BY <1>3, <2>0, AcceptEffect, Zenon DEF DispatchInv
  <2>3. s \in DOMAIN sessions' /\ sessions[s].seats + Cardinality(BookingsOf(s)) = Capacity[s]
    BY <2>1 DEF SeatsMatchBookings
  <2>4. b \notin BookingsOf(s) /\ BookingsOf(s)' = BookingsOf(s) \cup {b}
    BY <2>2 DEF BookingsOf
  <2>5. ASSUME NEW x, x # s PROVE BookingsOf(x)' = BookingsOf(x)
    BY <2>2, <2>5 DEF BookingsOf
  <2>6. /\ Cardinality(BookingsOf(s)) \in Nat
        /\ Cardinality(BookingsOf(s)') = Cardinality(BookingsOf(s)) + 1
    <3>1. IsFiniteSet(BookingsOf(s))
      BY FS_Subset DEF SeatsInv, BookingsOf
    <3> QED BY <2>4, <3>1, FS_AddElement, FS_CardinalityType
  <2>7. sessions'[s].seats + Cardinality(BookingsOf(s)') = Capacity[s]
    BY <2>1, <2>3, <2>6
  <2>8. ASSUME NEW x \in DOMAIN sessions, x # s
        PROVE  sessions'[x].seats + Cardinality(BookingsOf(x)') = Capacity[x]
    BY <2>1, <2>5, <2>8 DEF SeatsMatchBookings
  <2>9. \A x \in DOMAIN sessions' : sessions'[x].seats + Cardinality(BookingsOf(x)') = Capacity[x]
    BY <2>1, <2>7, <2>8
  <2> QED BY <2>9 DEF SeatsMatchBookings
<1>4. ASSUME NEW p \in Requests, RequestArrives(p) \/ RequestGoesOn(p) \/ AbandonRequest(p),
             \A s \in SessionIds : ~Start(p, s)
      PROVE  UNCHANGED sessions
  <2>1. \A s \in SessionIds : ~Heartbeat(p, s) /\ \A next \in SessionStates : ~TransitionState(p, s, next)
    BY DEF Heartbeat, TransitionState, BlindSessionSaves
  <2>2. ~SaveHeartbeat(p) /\ ~SaveTransition(p)
    BY DEF SaveHeartbeat, SaveTransition, NoSessionCopies
  <2> QED BY <1>4, <2>1, <2>2
          DEF RequestArrives, CreateDemand, CancelDemand, DeclineOffer, RequestGoesOn, SavePresence,
              DeletePresence, ChooseCandidate, NoCandidate, SaveOffered, SaveOffer, SaveDemand, SaveDecline,
              AbandonRequest, store
<1>5. CASE Sweeper \/ SweepCrashes \/ \E o \in OfferIds : OfferTTLElapses(o)
  BY <1>1, <1>5 DEF Sweeper, SweepStart, SweepDone, SweepWithdraws, SweepSkips, SweepReadDemand,
              SweepTransition, SweepTransitionFails, SweepResetsDemand, SweepCrashes,
              OfferTTLElapses, store
<1>6. CASE Reconciler \/ ReconcileFails \/ \E s \in SessionIds : PresenceExpires(s)
  <2>1. ~ReconcilePauses
    BY DEF ReconcilePauses, NoSessionCopies, Asleep
  <2>2. UNCHANGED <<sessions, bookings>>
    BY <1>6, <2>1 DEF Reconciler, ReconcileStart, ReconcileDeletes, ReconcileFails, PresenceExpires, store
  <2> QED BY <1>1, <2>2
<1>7. (\A o \in OfferIds, b \in BookingIds : ~AcceptOffer(o, b)) => bookings' = bookings
  BY BookingsAdded DEF DispatchInv
<1> QED BY <1>1, <1>2, <1>3, <1>4, <1>5, <1>6, <1>7 DEF Next

\* In a deployment where neither heartbeats nor changes of state nor the reconciler
\* write a session row back, its seats and its bookings always add up to the
\* vehicle's, however acceptances, declines, sweeps and failures race, with any
\* number of riders and drivers.
THEOREM SeatsAlwaysMatch ==
  ASSUME Ops \cap BlindSessionSaves = {}
  PROVE  Spec => []SeatsMatchBookings
<1>1. Init => NoSessionCopies /\ SeatsMatchBookings
  BY DEF Init, EmptyTable, Idle, NoSessionCopies, SeatsMatchBookings
<1>2. DispatchInv /\ SeatsInv /\ NoSessionCopies /\ SeatsMatchBookings /\ [Next]_vars
        => NoSessionCopies' /\ SeatsMatchBookings'
  <2>1. ASSUME UNCHANGED vars, NoSessionCopies, SeatsMatchBookings
        PROVE  NoSessionCopies' /\ SeatsMatchBookings'
    BY <2>1 DEF vars, NoSessionCopies, SeatsMatchBookings, BookingsOf
  <2>2. ASSUME Next, DispatchInv, SeatsInv, NoSessionCopies, SeatsMatchBookings
        PROVE  NoSessionCopies' /\ SeatsMatchBookings'
    BY <2>2, NoSessionCopiesStep, SeatsMatchStep DEF DispatchInv
  <2> QED BY <2>1, <2>2
<1> QED BY <1>1, <1>2, Invariance, SeatsInvariance, PTL DEF Spec

\* Overbooking takes a blind save of a session row: in such a deployment no session
\* has more bookings than seats.
THEOREM OverbookingNeedsABlindSave ==
  ASSUME Ops \cap BlindSessionSaves = {}
  PROVE  Spec => []NoOverbooking
<1>1. DispatchInv /\ SeatsInv /\ SeatsMatchBookings => NoOverbooking
  <2> SUFFICES ASSUME DispatchInv, SeatsInv, SeatsMatchBookings, NEW s \in DOMAIN sessions
               PROVE  Cardinality(BookingsOf(s)) <= Capacity[s]
    BY DEF NoOverbooking
  <2>1. sessions[s].seats \in Nat /\ sessions[s].seats + Cardinality(BookingsOf(s)) = Capacity[s]
    BY DEF DispatchInv, TypeOK, SessionRow, SeatsMatchBookings
  <2>2. Cardinality(BookingsOf(s)) \in Nat
    BY FS_Subset, FS_CardinalityType DEF SeatsInv, BookingsOf
  <2> QED BY <2>1, <2>2
<1> QED BY <1>1, SeatsAlwaysMatch, Invariance, SeatsInvariance, PTL

-----------------------------------------------------------------------------
(* The ledger of acceptances *)

\* Apart from an acceptance every step writes at most one row of Postgres: a session
\* with seats of its vehicle, a demand that is not matched, a new offer, or an answer
\* to one that is open or gets declined.
LEMMA OneRowAtATime ==
  ASSUME DispatchInv, SeatsInv, Next
  PROVE  \/ UNCHANGED <<demands, offers, sessions, bookings>>
         \/ \E o \in OfferIds, b \in BookingIds : AcceptOffer(o, b)
         \/ \E p \in Requests, o \in OfferIds : SaveOffer(p, o)
         \/ /\ UNCHANGED <<demands, offers, bookings>>
            /\ \E s \in SessionIds, row \in SessionRow :
                 RowIsSound(s, row) /\ sessions' = Upsert(sessions, s, row)
         \/ /\ UNCHANGED <<offers, sessions, bookings>>
            /\ \E d \in DemandIds, row \in DemandRow :
                 row.state # "matched" /\ demands' = Upsert(demands, d, row)
         \/ /\ UNCHANGED <<demands, sessions, bookings>>
            /\ \E o \in DOMAIN offers, state \in OfferStates \ {"pending", "accepted"} :
                 /\ offers[o].state = "pending" \/ state = "declined"
                 /\ offers' = [offers EXCEPT ![o].state = state]
<1> DEFINE Quiet == UNCHANGED <<demands, offers, sessions, bookings>>
           SessionRowSaved ==
             /\ UNCHANGED <<demands, offers, bookings>>
             /\ \E s \in SessionIds, row \in SessionRow :
                  RowIsSound(s, row) /\ sessions' = Upsert(sessions, s, row)
           DemandRowSaved ==
             /\ UNCHANGED <<offers, sessions, bookings>>
             /\ \E d \in DemandIds, row \in DemandRow :
                  row.state # "matched" /\ demands' = Upsert(demands, d, row)
           OfferAnswered ==
             /\ UNCHANGED <<demands, sessions, bookings>>
             /\ \E o \in DOMAIN offers, state \in OfferStates \ {"pending", "accepted"} :
                  /\ offers[o].state = "pending" \/ state = "declined"
                  /\ offers' = [offers EXCEPT ![o].state = state]
<1>0. TypeOK
  BY DEF DispatchInv
<1>1. ASSUME NEW p \in Requests, RequestArrives(p)
      PROVE  Quiet \/ SessionRowSaved \/ DemandRowSaved
  <2>1. ASSUME NEW s \in SessionIds, Start(p, s) PROVE SessionRowSaved
    <3> DEFINE row == [state |-> "active", seats |-> Capacity[s]]
    <3>1. row \in SessionRow /\ RowIsSound(s, row)
      BY SoundRows, CapacityAssumption DEF SeatsInv, SessionRow, SessionStates
    <3>2. sessions' = Upsert(sessions, s, row) /\ UNCHANGED <<demands, offers, bookings>>
      BY <2>1 DEF Start
    <3> HIDE DEF row
    <3> QED BY <3>1, <3>2
  <2>2. ASSUME NEW d \in DemandIds, CreateDemand(p, d) PROVE DemandRowSaved
    <3>1. [state |-> "searching", matched |-> FALSE] \in DemandRow
      BY DEF DemandRow, DemandStates
    <3> QED BY <2>2, <3>1 DEF CreateDemand
  <2> QED BY <1>1, <2>1, <2>2
          DEF RequestArrives, Heartbeat, TransitionState, CancelDemand, DeclineOffer, store
<1>2. ASSUME NEW p \in Requests, RequestGoesOn(p) \/ AbandonRequest(p), \A o \in OfferIds : ~SaveOffer(p, o)
      PROVE  Quiet \/ SessionRowSaved \/ DemandRowSaved \/ OfferAnswered
  <2>1. CASE SaveHeartbeat(p) \/ SaveTransition(p)
    <3>1. /\ task[p].session \in SessionIds /\ task[p].row \in SessionRow
          /\ RowIsSound(task[p].session, task[p].row)
      BY <1>0, <2>1, TaskType DEF SaveHeartbeat, SaveTransition, SeatsInv
    <3> QED BY <2>1, <3>1 DEF SaveHeartbeat, SaveTransition
  <2>2. CASE SaveOffered(p)
    <3>1. task[p].demand \in DemandIds /\ [state |-> "offered", matched |-> TRUE] \in DemandRow
      BY <1>0, <2>2, TaskType DEF SaveOffered, DemandRow, DemandStates
    <3> QED BY <2>2, <3>1 DEF SaveOffered
  <2>3. CASE SaveDemand(p)
    <3>1. task[p].demand \in DemandIds /\ task[p].row \in DemandRow
      BY <1>0, <2>3, TaskType DEF SaveDemand
    <3>2. task[p].row.state = "canceled"
      BY <2>3 DEF SaveDemand, DispatchInv, CopiesInFlight, CopyIsFaithful
    <3> QED BY <2>3, <3>1, <3>2 DEF SaveDemand
  <2>4. CASE SaveDecline(p)
    <3>1. PICK o \in DOMAIN offers : o = task[p].offer
      BY <2>4 DEF SaveDecline, DispatchInv, ForeignKeys, TaskKeys
    <3>2. task[p].row = [offers[o] EXCEPT !.state = "declined"]
      BY <2>4, <3>1 DEF SaveDecline, DispatchInv, CopiesInFlight, CopyIsFaithful
    <3>3. offers' = [offers EXCEPT ![o].state = "declined"]
      BY <1>0, <2>4, <3>1, <3>2 DEF SaveDecline, Upsert, TypeOK
    <3>4. "declined" \in OfferStates \ {"pending", "accepted"}
      BY DEF OfferStates
    <3> QED BY <2>4, <3>3, <3>4 DEF SaveDecline
  <2> QED BY <1>2, <2>1, <2>2, <2>3, <2>4
          DEF RequestGoesOn, SavePresence, DeletePresence, ChooseCandidate, NoCandidate, AbandonRequest, store
<1>3. CASE SweepTransition
  <2>1. sweep.call.offer \in DOMAIN offers /\ sweep.call.verdict \in {"expired", "withdrawn"}
    BY <1>0, <1>3, SweepCallType DEF SweepTransition, DispatchInv, ForeignKeys, WorkerKeys
  <2>2. {"expired", "withdrawn"} \subseteq OfferStates \ {"pending", "accepted"}
    BY DEF OfferStates
  <2> QED BY <1>3, <2>1, <2>2 DEF SweepTransition, TransitionPending
<1>4. CASE SweepResetsDemand
  <2> DEFINE row == [sweep.call.copy EXCEPT !.state = "searching"]
             d == offers[sweep.call.offer].demand
  <2>1. row \in DemandRow /\ row.state # "matched"
    BY <1>0, <1>4, SweepCallType DEF SweepResetsDemand, DemandRow, DemandStates
  <2>2. d \in DemandIds
    BY <1>0, <1>4, SweepCallType DEF SweepResetsDemand, DispatchInv, ForeignKeys, WorkerKeys, TypeOK, OfferRow
  <2>3. /\ demands' = demands \/ demands' = Upsert(demands, d, row)
        /\ UNCHANGED <<offers, sessions, bookings>>
    BY <1>4 DEF SweepResetsDemand
  <2> HIDE DEF row, d
  <2> QED BY <2>1, <2>2, <2>3
<1>5. CASE (Sweeper /\ ~SweepTransition /\ ~SweepResetsDemand) \/ SweepCrashes \/ \E o \in OfferIds : OfferTTLElapses(o)
  BY <1>5 DEF Sweeper, SweepStart, SweepDone, SweepWithdraws, SweepSkips, SweepReadDemand,
              SweepTransitionFails, SweepCrashes, OfferTTLElapses, store
<1>6. CASE ReconcilePauses
  <2>1. PICK item \in reconcile.todo :
          sessions' = Upsert(sessions, item.session, [item.row EXCEPT !.state = "paused"])
    BY <1>6 DEF ReconcilePauses
  <2>2. /\ item.session \in SessionIds /\ item.row \in SessionRow
        /\ RowIsSound(item.session, item.row)
    BY <1>0, <1>6 DEF ReconcilePauses, SeatsInv, TypeOK, ReconcileState, Asleep, Stale
  <2>3. RowIsSound(item.session, [item.row EXCEPT !.state = "paused"])
    BY <2>2, SoundRows
  <2>4. [item.row EXCEPT !.state = "paused"] \in SessionRow
    BY <2>2 DEF SessionRow, SessionStates
  <2>5. UNCHANGED <<demands, offers, bookings>>
    BY <1>6 DEF ReconcilePauses
  <2> QED BY <2>1, <2>2, <2>3, <2>4, <2>5
<1>7. CASE ReconcileStart \/ ReconcileDeletes \/ ReconcileFails \/ \E s \in SessionIds : PresenceExpires(s)
  BY <1>7 DEF ReconcileStart, ReconcileDeletes, ReconcileFails, PresenceExpires, store
<1> QED BY <1>1, <1>2, <1>3, <1>4, <1>5, <1>6, <1>7 DEF Next, Reconciler

\* The columns the ledger keeps.
SeatsOf(rows) == [s \in DOMAIN rows |-> rows[s].seats]
MatchedIn(rows) == {d \in DOMAIN rows : rows[d].state = "matched"}
BookedIn(rows) == {rows[b].demand : b \in DOMAIN rows}

\* The acceptance of RideDispatch is the ledger's.
LEMMA AcceptIsLedgers ==
  ASSUME DispatchInv, Next, NEW o \in OfferIds, NEW b \in BookingIds, AcceptOffer(o, b)
  PROVE  Ledger!Accept(o)
<1> DEFINE d == offers[o].demand
           s == offers[o].session
<1>0. TypeOK /\ ForeignKeys
  BY DEF DispatchInv
<1>1. /\ o \in DOMAIN offers /\ offers[o].state = "pending"
      /\ DOMAIN bookings' = DOMAIN bookings \cup {b}
      /\ bookings'[b].demand = d
      /\ \A c \in DOMAIN bookings : bookings'[c] = bookings[c]
      /\ DOMAIN demands' = DOMAIN demands
      /\ demands'[d].state = "matched"
      /\ \A x \in DOMAIN demands \ {d} : demands'[x] = demands[x]
  BY <1>0, AcceptEffect, Zenon
<1>2. d \in DOMAIN demands /\ s \in DOMAIN sessions
  BY <1>0, <1>1 DEF ForeignKeys, RowKeys
<1>3. d \notin BookedIn(bookings)
  BY <1>1, PendingIsFree DEF DispatchInv, IsBooked, BookedIn
<1>4. BookedIn(bookings') = BookedIn(bookings) \cup {d}
  BY <1>1 DEF BookedIn
<1>5. MatchedIn(demands') = MatchedIn(demands) \cup {d}
  BY <1>1, <1>2 DEF MatchedIn
<1>6. SeatsOf(sessions)[s] > 0 /\ SeatsOf(sessions') = [SeatsOf(sessions) EXCEPT ![s] = @ - 1]
  BY <1>0, <1>2 DEF AcceptOffer, SeatTaken, SeatsOf, TypeOK, SessionRow
<1>7. offers' = [offers EXCEPT ![o].state = "accepted"]
  BY DEF AcceptOffer
<1> QED
  BY <1>1, <1>3, <1>4, <1>5, <1>6, <1>7 DEF Ledger!Accept, BookedIn, MatchedIn, SeatsOf

LEMMA LedgerStep ==
  ASSUME DispatchInv, SeatsInv, [Next]_vars
  PROVE  [Ledger!Next]_(Ledger!ledger)
<1>0. TypeOK
  BY DEF DispatchInv
<1>1. ASSUME UNCHANGED <<demands, offers, sessions, bookings>>
      PROVE  UNCHANGED Ledger!ledger
  BY <1>1 DEF Ledger!ledger
<1>2. ASSUME Next, NEW o \in OfferIds, NEW b \in BookingIds, AcceptOffer(o, b)
      PROVE  Ledger!Next
  BY <1>2, AcceptIsLedgers DEF Ledger!Next
<1>3. ASSUME NEW p \in Requests, NEW o \in OfferIds, SaveOffer(p, o)
      PROVE  Ledger!Next
  <2> DEFINE d == task[p].demand
             s == task[p].session
  <2>1. d \in DemandIds /\ s \in SessionIds
    BY <1>0, <1>3, TaskType DEF SaveOffer
  <2>2. d \notin BookedIn(bookings)
    BY <1>3 DEF SaveOffer, DispatchInv, OneOfferPerDemand, Matching, BookedOfferIsAnswered, BookedIn
  <2>3. /\ o \notin DOMAIN offers /\ UNCHANGED <<demands, sessions, bookings>>
        /\ offers' = Ledger!With(offers, o, [state |-> "pending", demand |-> d, session |-> s])
    BY <1>3 DEF SaveOffer, Upsert, Ledger!With
  <2>4. Ledger!Make(o, d, s)
    BY <2>2, <2>3 DEF Ledger!Make, BookedIn
  <2> QED BY <2>1, <2>4 DEF Ledger!Next
<1>4. ASSUME NEW s \in SessionIds, NEW row \in SessionRow, RowIsSound(s, row),
             sessions' = Upsert(sessions, s, row), UNCHANGED <<demands, offers, bookings>>
      PROVE  Ledger!Next
  <2>1. row.seats \in 0..Capacity[s]
    BY <1>4, CapacityAssumption DEF RowIsSound, SessionRow
  <2>2. SeatsOf(sessions') = Ledger!With(SeatsOf(sessions), s, row.seats)
    BY <1>4 DEF SeatsOf, Upsert, Ledger!With
  <2>3. Ledger!SaveSession(s, row.seats)
    BY <1>4, <2>2 DEF Ledger!SaveSession, SeatsOf
  <2> QED BY <2>1, <2>3 DEF Ledger!Next
<1>5. ASSUME NEW d \in DemandIds, NEW row \in DemandRow, row.state # "matched",
             demands' = Upsert(demands, d, row), UNCHANGED <<offers, sessions, bookings>>
      PROVE  Ledger!Next
  <2>1. MatchedIn(demands') = MatchedIn(demands) \ {d}
    BY <1>5 DEF MatchedIn, Upsert
  <2>2. Ledger!SaveDemand(d)
    BY <1>5, <2>1 DEF Ledger!SaveDemand, MatchedIn
  <2> QED BY <2>2 DEF Ledger!Next
<1>6. ASSUME NEW o \in DOMAIN offers, NEW state \in OfferStates \ {"pending", "accepted"},
             offers[o].state = "pending" \/ state = "declined",
             offers' = [offers EXCEPT ![o].state = state], UNCHANGED <<demands, sessions, bookings>>
      PROVE  Ledger!Next
  <2>1. Ledger!Answer(o, state) /\ o \in OfferIds
    BY <1>0, <1>6 DEF Ledger!Answer, TypeOK
  <2> QED BY <2>1 DEF Ledger!Next, Ledger!OfferStates, OfferStates
<1>7. CASE UNCHANGED vars
  BY <1>1, <1>7 DEF vars
<1> QED BY <1>1, <1>2, <1>3, <1>4, <1>5, <1>6, <1>7, OneRowAtATime

\* Dispatch implements the same ledger as the statements of the acceptance do: with
\* any number of riders, drivers and requests a demand is booked once, by a step that
\* takes the open offer, a seat of the session and the demand together.
THEOREM DispatchAcceptsAtomically == Spec => AcceptsAtomically
<1>1. Init => Ledger!Init
  BY DEF Init, EmptyTable, Ledger!Init
<1>2. DispatchInv /\ SeatsInv /\ [Next]_vars => [Ledger!Next]_(Ledger!ledger)
  BY LedgerStep
<1> QED BY <1>1, <1>2, Invariance, SeatsInvariance, PTL DEF Spec, AcceptsAtomically, Ledger!Spec
=============================================================================
