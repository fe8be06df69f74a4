---------------------------- MODULE RideDispatchSafety ----------------------------
(***************************************************************************)
(* The inductive invariant of RideDispatch and the safety properties that  *)
(* follow from it, for any number of demands, offers, sessions, bookings   *)
(* and requests, any capacities and any workload; at the end, that a sweep *)
(* settles every offer that is due.                                        *)
(***************************************************************************)
EXTENDS RideDispatchProofs

-----------------------------------------------------------------------------
(* The kinds of steps *)

\* Request p goes on with t, which concerns a driver session or nothing.
StepAside(p, t) ==
  /\ t.op \in {"idle", "saveHeartbeat", "saveTransition", "savePresence", "deletePresence"}
  /\ Continue(p, t)
  /\ UNCHANGED <<demands, offers, bookings, workers>>

\* A worker reads, or time passes.
WorkerStep ==
  /\ UNCHANGED <<demands, offers, bookings, task>>
  /\ UNCHANGED sweep \/ sweep'.call.at # "reset"

\* The steps that touch demands, offers or bookings, or hold a copy of one.
DemandStep(p) ==
  \/ \E d \in DemandIds : CreateDemand(p, d) \/ CancelDemand(p, d)
  \/ \E o \in OfferIds : SaveOffer(p, o) \/ DeclineOffer(p, o)
  \/ ChooseCandidate(p) \/ SaveOffered(p) \/ SaveDemand(p) \/ SaveDecline(p)

\* The sweeper's next call is the one it goes on with.
LEMMA SweepCallsTakesPlace ==
  ASSUME TypeOK, NEW c, SweepCalls(c)
  PROVE  sweep'.call = c /\ sweep'.todo = sweep.todo
BY DEF TypeOK, SweepCalls, SweepState

\* Every other step of a request or a worker is one of these two.
LEMMA StepKinds ==
  ASSUME TypeOK, Next
  PROVE  \/ \E p \in Requests : DemandStep(p) \/ \E t : StepAside(p, t)
         \/ WorkerStep
         \/ \E o \in OfferIds, b \in BookingIds : AcceptOffer(o, b)
         \/ SweepTransition \/ SweepResetsDemand
<1> USE DEF workers, store
<1>1. ASSUME NEW p \in Requests, RequestArrives(p)
      PROVE  DemandStep(p) \/ \E t : StepAside(p, t)
  <2>1. ASSUME NEW s \in SessionIds, Start(p, s) PROVE \E t : StepAside(p, t)
    BY <2>1 DEF Start, StepAside
  <2>2. ASSUME NEW s \in SessionIds, Heartbeat(p, s) PROVE \E t : StepAside(p, t)
    BY <2>2 DEF Heartbeat, StepAside
  <2>3. ASSUME NEW s \in SessionIds, NEW next \in SessionStates, TransitionState(p, s, next)
        PROVE  \E t : StepAside(p, t)
    BY <2>3 DEF TransitionState, StepAside
  <2> QED BY <1>1, <2>1, <2>2, <2>3 DEF RequestArrives, DemandStep
<1>2. ASSUME NEW p \in Requests, RequestGoesOn(p) \/ AbandonRequest(p)
      PROVE  DemandStep(p) \/ \E t : StepAside(p, t)
  <2>1. CASE SaveHeartbeat(p)
    BY <2>1 DEF SaveHeartbeat, StepAside, Publish
  <2>2. CASE SaveTransition(p)
    BY <2>2 DEF SaveTransition, StepAside, Publish
  <2>3. CASE SavePresence(p) \/ DeletePresence(p) \/ NoCandidate(p) \/ AbandonRequest(p)
    <3>1. StepAside(p, Idle)
      BY <2>3 DEF SavePresence, DeletePresence, NoCandidate, AbandonRequest, StepAside, Idle
    <3> QED BY <3>1
  <2> QED BY <1>2, <2>1, <2>2, <2>3 DEF RequestGoesOn, DemandStep
<1>3. CASE Sweeper \/ SweepCrashes \/ \E o \in OfferIds : OfferTTLElapses(o)
  <2>1. CASE \E o \in OfferIds : OfferTTLElapses(o)
    BY <2>1 DEF OfferTTLElapses, WorkerStep
  <2>2. CASE SweepStart \/ SweepDone \/ SweepCrashes
    BY <2>2 DEF SweepStart, SweepDone, SweepCrashes, WorkerStep, Asleep, AtList
  <2>3. CASE SweepWithdraws
    BY <2>3, SweepCallsTakesPlace DEF SweepWithdraws, WorkerStep
  <2>4. CASE SweepSkips \/ SweepTransitionFails
    BY <2>4, SweepCallsTakesPlace DEF SweepSkips, SweepTransitionFails, WorkerStep, AtList
  <2>5. ASSUME NEW o \in OfferIds, SweepReadDemand(o) PROVE WorkerStep
    BY <2>5 DEF SweepReadDemand, WorkerStep
  <2> QED BY <1>3, <2>1, <2>2, <2>3, <2>4, <2>5 DEF Sweeper
<1>4. CASE Reconciler \/ ReconcileFails \/ \E s \in SessionIds : PresenceExpires(s)
  BY <1>4 DEF Reconciler, ReconcileStart, ReconcilePauses, ReconcileDeletes, ReconcileFails,
              PresenceExpires, WorkerStep
<1> QED BY <1>1, <1>2, <1>3, <1>4 DEF Next

-----------------------------------------------------------------------------
(* Rows stay, keys hold *)

\* No step takes a row away from Postgres, moves an offer to another demand or
\* session, or changes a booking, although most of them overwrite whole rows.
RowsStay ==
  /\ DOMAIN demands \subseteq DOMAIN demands'
  /\ DOMAIN offers \subseteq DOMAIN offers'
  /\ \A o \in DOMAIN offers :
       offers'[o].demand = offers[o].demand /\ offers'[o].session = offers[o].session
  /\ \A b \in DOMAIN bookings : b \in DOMAIN bookings' /\ bookings'[b] = bookings[b]

\* Every step keeps the rows.
LEMMA RowsStayStep ==
  ASSUME TypeOK, ForeignKeys, CopiesInFlight, Next
  PROVE  RowsStay
<1>1. ASSUME NEW p \in Requests, DemandStep(p) PROVE RowsStay
  <2>1. ASSUME NEW d \in DemandIds, CreateDemand(p, d) PROVE RowsStay
    BY <2>1 DEF Upsert, CreateDemand, RowsStay
  <2>2. ASSUME NEW d \in DemandIds, CancelDemand(p, d) PROVE RowsStay
    BY <2>2 DEF CancelDemand, RowsStay, store
  <2>3. ASSUME NEW o \in OfferIds, DeclineOffer(p, o) PROVE RowsStay
    BY <2>3 DEF DeclineOffer, RowsStay, store
  <2>4. ASSUME NEW o \in OfferIds, SaveOffer(p, o) PROVE RowsStay
    BY <2>4 DEF Upsert, SaveOffer, RowsStay
  <2>5. CASE ChooseCandidate(p)
    BY <2>5 DEF ChooseCandidate, RowsStay, store
  <2>6. CASE SaveOffered(p) \/ SaveDemand(p)
    BY <2>6 DEF Upsert, SaveOffered, SaveDemand, RowsStay
  <2>7. CASE SaveDecline(p)
    <3>1. /\ task[p].offer \in DOMAIN offers
          /\ offers[task[p].offer] \in OfferRow
          /\ task[p].row = [offers[task[p].offer] EXCEPT !.state = "declined"]
      BY <2>7 DEF SaveDecline, TypeOK, ForeignKeys, TaskKeys, CopiesInFlight, CopyIsFaithful
    <3>2. /\ task[p].row.demand = offers[task[p].offer].demand
          /\ task[p].row.session = offers[task[p].offer].session
      BY <3>1 DEF OfferRow
    <3> QED BY <2>7, <3>1, <3>2 DEF Upsert, SaveDecline, RowsStay
  <2> QED BY <1>1, <2>1, <2>2, <2>3, <2>4, <2>5, <2>6, <2>7 DEF DemandStep
<1>2. ASSUME NEW p \in Requests, NEW t, StepAside(p, t) PROVE RowsStay
  BY <1>2 DEF StepAside, RowsStay
<1>3. CASE WorkerStep
  BY <1>3 DEF WorkerStep, RowsStay
<1>4. ASSUME NEW o \in OfferIds, NEW b \in BookingIds, AcceptOffer(o, b) PROVE RowsStay
  <2>1. o \in DOMAIN offers /\ offers[o] \in OfferRow
    BY <1>4 DEF AcceptOffer, TypeOK
  <2>2. \A q \in DOMAIN offers :
          offers'[q].demand = offers[q].demand /\ offers'[q].session = offers[q].session
    BY <1>4, <2>1 DEF AcceptOffer, OfferRow, TypeOK
  <2>3. DOMAIN demands' = DOMAIN demands /\ DOMAIN offers' = DOMAIN offers
    BY <1>4 DEF AcceptOffer, TypeOK
  <2> QED BY <1>4, <2>2, <2>3 DEF Upsert, AcceptOffer, InsertBooking, RowsStay
<1>5. CASE SweepTransition
  BY <1>5 DEF SweepTransition, TransitionPending, RowsStay, OfferRow, TypeOK
<1>6. CASE SweepResetsDemand
  BY <1>6 DEF Upsert, SweepResetsDemand, RowsStay
<1> QED BY <1>1, <1>2, <1>3, <1>4, <1>5, <1>6, StepKinds

\* No step deletes a session from Postgres; reconciler and requests only upsert.
LEMMA SessionsStay ==
  ASSUME TypeOK, Next
  PROVE  DOMAIN sessions \subseteq DOMAIN sessions'
<1>1. ASSUME NEW p \in Requests, RequestArrives(p) \/ RequestGoesOn(p) \/ AbandonRequest(p)
      PROVE  DOMAIN sessions \subseteq DOMAIN sessions'
  BY <1>1
     DEF Upsert, RequestArrives, Start, Heartbeat, TransitionState, CreateDemand, CancelDemand,
         DeclineOffer, RequestGoesOn, SaveHeartbeat, SaveTransition, SavePresence, DeletePresence,
         ChooseCandidate, NoCandidate, SaveOffered, SaveOffer, SaveDemand, SaveDecline,
         AbandonRequest, store
<1>2. ASSUME NEW o \in OfferIds, NEW b \in BookingIds, AcceptOffer(o, b)
      PROVE  DOMAIN sessions \subseteq DOMAIN sessions'
  BY <1>2 DEF AcceptOffer, TypeOK
<1>3. CASE Sweeper \/ SweepCrashes \/ \E o \in OfferIds : OfferTTLElapses(o)
  BY <1>3 DEF Sweeper, SweepStart, SweepDone, SweepWithdraws, SweepSkips, SweepReadDemand,
              SweepTransition, SweepTransitionFails, SweepResetsDemand, SweepCrashes,
              OfferTTLElapses, store
<1>4. CASE Reconciler \/ ReconcileFails \/ \E s \in SessionIds : PresenceExpires(s)
  BY <1>4
     DEF Upsert, Reconciler, ReconcileStart, ReconcilePauses, ReconcileDeletes, ReconcileFails,
         PresenceExpires, store
<1> QED BY <1>1, <1>2, <1>3, <1>4 DEF Next

\* Tasks keep their keys; what is left to show of a step is its own next task.
LEMMA TaskKeysStay ==
  ASSUME ForeignKeys, RowsStay, DOMAIN sessions \subseteq DOMAIN sessions'
  PROVE  /\ \A t : TaskKeys(t) => TaskKeys(t)'
         /\ task' = task => \A p \in Requests : TaskKeys(task[p])'
         /\ \A p \in Requests : \A t : TypeOK /\ Continue(p, t) /\ TaskKeys(t)'
              => \A q \in Requests : TaskKeys(task[q])'
<1>1. ASSUME NEW t, TaskKeys(t) PROVE TaskKeys(t)'
  BY <1>1 DEF TaskKeys, RowsStay
<1>2. ASSUME task' = task PROVE \A p \in Requests : TaskKeys(task[p])'
  BY <1>2 DEF TaskKeys, RowsStay, ForeignKeys
<1>3. ASSUME NEW p \in Requests, NEW t, TypeOK, Continue(p, t), TaskKeys(t)', NEW q \in Requests
      PROVE  TaskKeys(task[q])'
  <2>1. CASE q = p
    <3>1. task'[q] = t
      BY <1>3, <2>1 DEF Continue, TypeOK
    <3> QED BY <1>3, <3>1 DEF TaskKeys
  <2>2. CASE q # p
    <3>1. task'[q] = task[q] /\ TaskKeys(task[q])
      BY <1>3, <2>2 DEF Continue, TypeOK, ForeignKeys
    <3> QED BY <3>1 DEF TaskKeys, RowsStay
  <2> QED BY <2>1, <2>2
<1> QED BY <1>1, <1>2, <1>3

\* Only a matching run makes offers.
LEMMA OffersAdded ==
  ASSUME TypeOK, ForeignKeys, Next, \A p \in Requests, o \in OfferIds : ~SaveOffer(p, o)
  PROVE  DOMAIN offers' = DOMAIN offers
<1>1. ASSUME NEW p \in Requests, DemandStep(p) PROVE DOMAIN offers' = DOMAIN offers
  BY <1>1 DEF Upsert, DemandStep, CreateDemand, CancelDemand, DeclineOffer, ChooseCandidate,
              SaveOffered, SaveDemand, SaveDecline, store, ForeignKeys, TaskKeys
<1>2. ASSUME NEW o \in OfferIds, NEW b \in BookingIds, AcceptOffer(o, b)
      PROVE  DOMAIN offers' = DOMAIN offers
  BY <1>2 DEF AcceptOffer, TypeOK
<1>3. CASE SweepTransition \/ SweepResetsDemand
  BY <1>3 DEF SweepTransition, TransitionPending, SweepResetsDemand, TypeOK
<1> QED BY <1>1, <1>2, <1>3, StepKinds DEF StepAside, WorkerStep

\* And only an acceptance makes bookings.
LEMMA BookingsAdded ==
  ASSUME TypeOK, Next, \A o \in OfferIds, b \in BookingIds : ~AcceptOffer(o, b)
  PROVE  bookings' = bookings
<1>1. ASSUME NEW p \in Requests, DemandStep(p) PROVE bookings' = bookings
  BY <1>1 DEF DemandStep, CreateDemand, CancelDemand, SaveOffer, DeclineOffer, ChooseCandidate,
              SaveOffered, SaveDemand, SaveDecline, store
<1> QED BY <1>1, StepKinds DEF StepAside, WorkerStep, SweepTransition, SweepResetsDemand

\* New offers, bookings and published rows refer to rows that exist.
LEMMA RowKeysStep ==
  ASSUME TypeOK, ForeignKeys, CopiesInFlight, Next
  PROVE  RowKeys'
<1>0. RowsStay /\ DOMAIN sessions \subseteq DOMAIN sessions'
  BY RowsStayStep, SessionsStay
<1>1. \A o \in DOMAIN offers' :
        offers'[o].demand \in DOMAIN demands' /\ offers'[o].session \in DOMAIN sessions'
  <2>1. ASSUME NEW p \in Requests, NEW o \in OfferIds, SaveOffer(p, o)
        PROVE  /\ DOMAIN offers' = DOMAIN offers \cup {o}
               /\ offers'[o].demand \in DOMAIN demands'
               /\ offers'[o].session \in DOMAIN sessions'
    BY <2>1 DEF Upsert, SaveOffer, ForeignKeys, TaskKeys
  <2> QED BY <1>0, <2>1, OffersAdded DEF RowsStay, ForeignKeys, RowKeys
<1>2. \A b \in DOMAIN bookings' :
        bookings'[b].demand \in DOMAIN demands' /\ bookings'[b].session \in DOMAIN sessions'
  <2>1. ASSUME NEW o \in OfferIds, NEW b \in BookingIds, AcceptOffer(o, b)
        PROVE  /\ DOMAIN bookings' = DOMAIN bookings \cup {b}
               /\ bookings'[b].demand \in DOMAIN demands
               /\ bookings'[b].session \in DOMAIN sessions
    BY <2>1 DEF Upsert, AcceptOffer, InsertBooking, ForeignKeys, RowKeys
  <2> QED BY <1>0, <2>1, BookingsAdded DEF RowsStay, ForeignKeys, RowKeys
<1>3. DOMAIN presence' \subseteq DOMAIN sessions'
  <2>1. ASSUME NEW p \in Requests, RequestArrives(p) \/ RequestGoesOn(p) \/ AbandonRequest(p)
        PROVE  \/ presence' = presence
               \/ \E s \in DOMAIN sessions :
                    presence' = Remove(presence, s) \/ \E row : presence' = Upsert(presence, s, row)
    BY <2>1
       DEF RequestArrives, Start, Heartbeat, TransitionState, CreateDemand, CancelDemand,
           DeclineOffer, RequestGoesOn, SaveHeartbeat, SaveTransition, SavePresence, DeletePresence,
           ChooseCandidate, NoCandidate, SaveOffered, SaveOffer, SaveDemand, SaveDecline,
           AbandonRequest, store, ForeignKeys, TaskKeys
  <2>2. CASE Sweeper \/ SweepCrashes \/ \E o \in OfferIds : OfferTTLElapses(o)
    BY <2>2 DEF Sweeper, SweepStart, SweepDone, SweepWithdraws, SweepSkips, SweepReadDemand,
                SweepTransition, SweepTransitionFails, SweepResetsDemand, SweepCrashes,
                OfferTTLElapses, store, ForeignKeys, RowKeys
  <2>3. CASE Reconciler \/ ReconcileFails \/ \E s \in SessionIds : PresenceExpires(s)
    BY <1>0, <2>3
       DEF Reconciler, ReconcileStart, ReconcilePauses, ReconcileDeletes, ReconcileFails,
           PresenceExpires, store, Remove, ForeignKeys, RowKeys
  <2>4. ASSUME NEW o \in OfferIds, NEW b \in BookingIds, AcceptOffer(o, b)
        PROVE  presence' = presence
    BY <2>4 DEF AcceptOffer
  <2> QED BY <1>0, <2>1, <2>2, <2>3, <2>4 DEF Next, Remove, Upsert, ForeignKeys, RowKeys
<1> QED BY <1>1, <1>2, <1>3 DEF RowKeys

\* A request goes on with ids it has read or saved.
LEMMA TaskKeysStep ==
  ASSUME TypeOK, ForeignKeys, CopiesInFlight, Next
  PROVE  \A p \in Requests : TaskKeys(task[p])'
<1>0. RowsStay /\ DOMAIN sessions \subseteq DOMAIN sessions'
  BY RowsStayStep, SessionsStay
<1>1. SUFFICES \/ task' = task
               \/ \E p \in Requests : \E t : Continue(p, t) /\ TaskKeys(t)'
  BY <1>0, TaskKeysStay
<1>2. TaskKeys(Idle)'
  BY DEF TaskKeys, Idle
<1>3. ASSUME NEW p \in Requests, RequestArrives(p)
      PROVE  \E t : Continue(p, t) /\ TaskKeys(t)'
  <2>1. ASSUME NEW s \in SessionIds, Start(p, s) PROVE \E t : Continue(p, t) /\ TaskKeys(t)'
    BY <2>1 DEF Start, TaskKeys, Upsert
  <2>2. ASSUME NEW s \in SessionIds, Heartbeat(p, s) PROVE \E t : Continue(p, t) /\ TaskKeys(t)'
    BY <1>0, <2>2 DEF Heartbeat, TaskKeys
  <2>6. ASSUME NEW s \in SessionIds, NEW next \in SessionStates, TransitionState(p, s, next)
        PROVE  \E t : Continue(p, t) /\ TaskKeys(t)'
    BY <1>0, <2>6 DEF TransitionState, TaskKeys
  <2>3. ASSUME NEW d \in DemandIds, CreateDemand(p, d) PROVE \E t : Continue(p, t) /\ TaskKeys(t)'
    BY <2>3 DEF CreateDemand, TaskKeys, Upsert
  <2>4. ASSUME NEW d \in DemandIds, CancelDemand(p, d) PROVE \E t : Continue(p, t) /\ TaskKeys(t)'
    BY <1>0, <2>4 DEF CancelDemand, TaskKeys, RowsStay
  <2>5. ASSUME NEW o \in OfferIds, DeclineOffer(p, o) PROVE \E t : Continue(p, t) /\ TaskKeys(t)'
    BY <1>0, <2>5 DEF DeclineOffer, TaskKeys, RowsStay
  <2> QED BY <1>3, <2>1, <2>2, <2>3, <2>4, <2>5, <2>6 DEF RequestArrives
<1>4. ASSUME NEW p \in Requests, RequestGoesOn(p) \/ AbandonRequest(p)
      PROVE  \E t : Continue(p, t) /\ TaskKeys(t)'
  <2>0. TaskKeys(task[p])
    BY DEF ForeignKeys
  <2>1. CASE SaveHeartbeat(p) \/ SaveTransition(p)
    <3>1. \A t : t = Publish(p) => TaskKeys(t)'
      BY <1>0, <2>0, <2>1 DEF SaveHeartbeat, SaveTransition, TaskKeys, Publish
    <3>2. \A t : t = [op |-> "deletePresence", session |-> task[p].session] => TaskKeys(t)'
      BY <1>0, <2>0, <2>1 DEF SaveHeartbeat, SaveTransition, TaskKeys
    <3> QED BY <2>1, <3>1, <3>2 DEF SaveHeartbeat, SaveTransition
  <2>2. CASE ChooseCandidate(p)
    <3>1. PICK table \in {presence, sessions} : \E s \in Listed(table) :
            Continue(p, [op |-> "saveOffer", demand |-> task[p].demand, session |-> s])
      BY <2>2 DEF ChooseCandidate
    <3>2. PICK s \in Listed(table) :
            Continue(p, [op |-> "saveOffer", demand |-> task[p].demand, session |-> s])
      BY <3>1
    <3>3. s \in DOMAIN sessions /\ task[p].demand \in DOMAIN demands
      BY <2>0, <2>2 DEF Listed, ForeignKeys, RowKeys, ChooseCandidate, TaskKeys
    <3>4. \A t : t = [op |-> "saveOffer", demand |-> task[p].demand, session |-> s] => TaskKeys(t)'
      BY <1>0, <3>3 DEF TaskKeys, RowsStay
    <3> QED BY <3>2, <3>4
  <2>3. ASSUME NEW o \in OfferIds, SaveOffer(p, o) PROVE \E t : Continue(p, t) /\ TaskKeys(t)'
    BY <1>0, <2>0, <2>3 DEF SaveOffer, TaskKeys, RowsStay
  <2>4. CASE Continue(p, Idle)
    BY <1>2, <2>4
  <2> QED BY <1>4, <2>1, <2>2, <2>3, <2>4
          DEF RequestGoesOn, AbandonRequest, SavePresence, DeletePresence, NoCandidate,
              SaveOffered, SaveDemand, SaveDecline
<1>5. CASE Sweeper \/ SweepCrashes \/ \E o \in OfferIds : OfferTTLElapses(o)
  BY <1>5 DEF Sweeper, SweepStart, SweepDone, SweepWithdraws, SweepSkips, SweepReadDemand,
              SweepTransition, SweepTransitionFails, SweepResetsDemand, SweepCrashes,
              OfferTTLElapses
<1>6. CASE Reconciler \/ ReconcileFails \/ \E s \in SessionIds : PresenceExpires(s)
  BY <1>6 DEF Reconciler, ReconcileStart, ReconcilePauses, ReconcileDeletes, ReconcileFails,
              PresenceExpires
<1>7. ASSUME NEW o \in OfferIds, NEW b \in BookingIds, AcceptOffer(o, b) PROVE task' = task
  BY <1>7 DEF AcceptOffer
<1> QED BY <1>3, <1>4, <1>5, <1>6, <1>7 DEF Next

\* So do the sweeper and the reconciler.
LEMMA WorkerKeysStep ==
  ASSUME TypeOK, ForeignKeys, CopiesInFlight, Next
  PROVE  WorkerKeys'
<1>0. RowsStay /\ DOMAIN sessions \subseteq DOMAIN sessions' /\ WorkerKeys
  BY RowsStayStep, SessionsStay DEF ForeignKeys
<1>1. ASSUME UNCHANGED workers PROVE WorkerKeys'
  BY <1>0, <1>1 DEF workers, WorkerKeys, RowsStay
<1>2. ASSUME NEW p \in Requests, RequestArrives(p) \/ RequestGoesOn(p) \/ AbandonRequest(p)
      PROVE  UNCHANGED workers
  BY <1>2
     DEF RequestArrives, Start, Heartbeat, TransitionState, CreateDemand, CancelDemand,
         DeclineOffer, RequestGoesOn, SaveHeartbeat, SaveTransition, SavePresence, DeletePresence,
         ChooseCandidate, NoCandidate, SaveOffered, SaveOffer, SaveDemand, SaveDecline,
         AbandonRequest
<1>3. ASSUME NEW o \in OfferIds, NEW b \in BookingIds, AcceptOffer(o, b) PROVE UNCHANGED workers
  BY <1>3 DEF AcceptOffer
<1>4. ASSUME UNCHANGED sweep, Reconciler \/ ReconcileFails
      PROVE  WorkerKeys'
  <2>1. CASE ReconcileStart
    BY <1>0, <1>4, <2>1 DEF ReconcileStart, Listed, WorkerKeys, RowsStay
  <2>2. CASE ReconcilePauses
    BY <1>0, <1>4, <2>2 DEF ReconcilePauses, WorkerKeys, RowsStay
  <2>3. CASE ReconcileDeletes
    BY <1>0, <1>4, <2>3 DEF ReconcileDeletes, WorkerKeys, RowsStay, Asleep
  <2>4. CASE ReconcileFails
    BY <1>0, <1>4, <2>4 DEF ReconcileFails, WorkerKeys, RowsStay, Asleep
  <2> QED BY <1>4, <2>1, <2>2, <2>3, <2>4 DEF Reconciler
<1>5. ASSUME UNCHANGED reconcile, Sweeper \/ SweepCrashes
      PROVE  WorkerKeys'
  <2>1. CASE SweepStart
    BY <1>0, <1>5, <2>1 DEF SweepStart, PendingOffers, AtList, WorkerKeys, RowsStay
  <2>2. CASE SweepDone \/ SweepCrashes
    BY <1>0, <1>5, <2>2 DEF SweepDone, SweepCrashes, Asleep, WorkerKeys, RowsStay
  <2>3. CASE SweepWithdraws
    BY <1>0, <1>5, <2>3, SweepCallsTakesPlace DEF SweepWithdraws, WorkerKeys, RowsStay
  <2>4. CASE SweepSkips \/ SweepTransitionFails \/ SweepResetsDemand
    BY <1>0, <1>5, <2>4, SweepCallsTakesPlace
       DEF SweepSkips, SweepTransitionFails, SweepResetsDemand, AtList, WorkerKeys, RowsStay
  <2>5. ASSUME NEW o \in OfferIds, SweepReadDemand(o) PROVE WorkerKeys'
    <3>1. /\ o \in DOMAIN offers
          /\ sweep'.todo \subseteq sweep.todo
          /\ sweep'.call.offer = o
      BY <1>0, <2>5 DEF SweepReadDemand, WorkerKeys
    <3> QED BY <1>0, <1>5, <3>1 DEF WorkerKeys, RowsStay
  <2>6. CASE SweepTransition
    BY <1>0, <1>5, <2>6, SweepCallsTakesPlace
       DEF SweepTransition, Requeue, AtList, WorkerKeys, RowsStay
  <2> QED BY <1>5, <2>1, <2>2, <2>3, <2>4, <2>5, <2>6 DEF Sweeper
<1>6. Reconciler \/ ReconcileFails => UNCHANGED sweep
  BY DEF Reconciler, ReconcileStart, ReconcilePauses, ReconcileDeletes, ReconcileFails
<1>7. Sweeper \/ SweepCrashes => UNCHANGED reconcile
  BY DEF Sweeper, SweepStart, SweepDone, SweepWithdraws, SweepSkips, SweepReadDemand,
         SweepTransition, SweepTransitionFails, SweepResetsDemand, SweepCrashes
<1> QED BY <1>1, <1>2, <1>3, <1>4, <1>5, <1>6, <1>7
        DEF Next, OfferTTLElapses, PresenceExpires

\* All references hold after every step.
LEMMA ForeignKeysStep ==
  ASSUME TypeOK, ForeignKeys, CopiesInFlight, Next
  PROVE  ForeignKeys'
BY RowKeysStep, TaskKeysStep, WorkerKeysStep DEF ForeignKeys

-----------------------------------------------------------------------------
(* One offer per demand *)

\* A step of one request leaves the tasks of the others alone.
LEMMA ContinueTask ==
  ASSUME TypeOK, NEW p \in Requests, NEW t, Continue(p, t)
  PROVE  task'[p] = t /\ \A q \in Requests \ {p} : task'[q] = task[q]
BY DEF TypeOK, Continue

\* A demand keeps its offers.
LEMMA OffersForStay ==
  ASSUME RowsStay, NEW d
  PROVE  /\ OffersFor(d) \subseteq OffersFor(d)'
         /\ DOMAIN offers' = DOMAIN offers => OffersFor(d)' = OffersFor(d)
BY DEF RowsStay, OffersFor

\* A step that makes no offer and starts no matching run.
LEMMA OneOfferStays ==
  ASSUME OneOfferPerDemand, RowsStay, DOMAIN offers' = DOMAIN offers,
         \A q \in Requests :
           Matching(task'[q]) => Matching(task[q]) /\ task'[q].demand = task[q].demand
  PROVE  OneOfferPerDemand'
<1>1. \A o, q \in DOMAIN offers' : offers'[o].demand = offers'[q].demand => o = q
  BY DEF OneOfferPerDemand, RowsStay
<1>2. ASSUME NEW q \in Requests, Matching(task'[q]) PROVE OffersFor(task[q].demand)' = {}
  <2>1. \A d : OffersFor(d)' = OffersFor(d)
    BY OffersForStay
  <2> QED BY <1>2, <2>1 DEF OneOfferPerDemand, RowsStay, OffersFor
<1>3. \A p, q \in Requests :
        Matching(task'[p]) /\ Matching(task'[q]) /\ task'[p].demand = task'[q].demand => p = q
  BY DEF OneOfferPerDemand
<1> QED BY <1>1, <1>2, <1>3 DEF OneOfferPerDemand

\* The single matching run of a demand is the only one that makes an offer for it.
LEMMA OneOfferStep ==
  ASSUME TypeOK, ForeignKeys, CopiesInFlight, OneOfferPerDemand, Next
  PROVE  OneOfferPerDemand'
<1>0. RowsStay
  BY RowsStayStep
<1>1. ASSUME NEW p \in Requests, NEW t, Continue(p, t), ~Matching(t),
             DOMAIN offers' = DOMAIN offers
      PROVE  OneOfferPerDemand'
  BY <1>0, <1>1, ContinueTask, OneOfferStays
<1>2. ASSUME NEW p \in Requests, NEW d \in DemandIds, CreateDemand(p, d)
      PROVE  OneOfferPerDemand'
  <2>1. /\ offers' = offers /\ d \notin DOMAIN demands
        /\ task'[p] = [op |-> "runMatch", demand |-> d]
        /\ \A q \in Requests \ {p} : task'[q] = task[q]
    BY <1>2, ContinueTask DEF CreateDemand
  <2>2. OffersFor(d) = {}
    BY <2>1 DEF OffersFor, ForeignKeys, RowKeys
  <2>3. \A q \in Requests : Matching(task[q]) => task[q].demand # d
    BY <2>1 DEF Matching, ForeignKeys, TaskKeys
  <2> QED BY <2>1, <2>2, <2>3 DEF OneOfferPerDemand, Matching, OffersFor
<1>3. ASSUME NEW p \in Requests, ChooseCandidate(p) PROVE OneOfferPerDemand'
  <2>1. /\ offers' = offers
        /\ Matching(task[p])
        /\ \E s : Continue(p, [op |-> "saveOffer", demand |-> task[p].demand, session |-> s])
    BY <1>3 DEF ChooseCandidate, store, Matching
  <2>2. task'[p].demand = task[p].demand /\ \A q \in Requests \ {p} : task'[q] = task[q]
    BY <2>1, ContinueTask
  <2> QED BY <1>0, <2>1, <2>2, OneOfferStays
<1>4. ASSUME NEW p \in Requests, NEW o \in OfferIds, SaveOffer(p, o) PROVE OneOfferPerDemand'
  <2> DEFINE d == task[p].demand
  <2>1. /\ Matching(task[p]) /\ OffersFor(d) = {} /\ o \notin DOMAIN offers
        /\ DOMAIN offers' = DOMAIN offers \cup {o}
        /\ offers'[o].demand = d
        /\ \A q \in DOMAIN offers : offers'[q] = offers[q]
    BY <1>4 DEF SaveOffer, Matching, Upsert, OneOfferPerDemand
  <2>2. ~Matching(task'[p]) /\ \A q \in Requests \ {p} : task'[q] = task[q]
    <3>1. Continue(p, [op |-> "saveOffered", demand |-> d])
      BY <1>4 DEF SaveOffer
    <3> QED BY <3>1, ContinueTask DEF Matching
  <2>3. \A q \in Requests : Matching(task'[q]) => q # p /\ task'[q] = task[q] /\ task[q].demand # d
    BY <2>1, <2>2 DEF OneOfferPerDemand
  <2>4. \A q \in Requests : Matching(task'[q]) => OffersFor(task[q].demand)' = {}
    BY <2>1, <2>3 DEF OneOfferPerDemand, OffersFor
  <2>5. \A q, r \in DOMAIN offers' : offers'[q].demand = offers'[r].demand => q = r
    BY <2>1 DEF OneOfferPerDemand, OffersFor
  <2> QED BY <2>3, <2>4, <2>5 DEF OneOfferPerDemand
<1>5. ASSUME NEW p \in Requests, DemandStep(p) PROVE OneOfferPerDemand'
  <2>1. ASSUME NEW d \in DemandIds, CancelDemand(p, d) PROVE OneOfferPerDemand'
    BY <1>1, <2>1 DEF CancelDemand, Matching, store
  <2>2. ASSUME NEW o \in OfferIds, DeclineOffer(p, o) PROVE OneOfferPerDemand'
    BY <1>1, <2>2 DEF DeclineOffer, Matching, store
  <2>3. CASE SaveOffered(p) \/ SaveDemand(p)
    BY <1>1, <2>3 DEF SaveOffered, SaveDemand, Matching, Idle
  <2>4. CASE SaveDecline(p)
    BY <1>1, <2>4 DEF SaveDecline, Upsert, ForeignKeys, TaskKeys, Matching, Idle
  <2> QED BY <1>2, <1>3, <1>4, <1>5, <2>1, <2>2, <2>3, <2>4 DEF DemandStep
<1>6. ASSUME NEW p \in Requests, NEW t, StepAside(p, t) PROVE OneOfferPerDemand'
  BY <1>1, <1>6 DEF StepAside, Matching
<1>7. ASSUME task' = task, DOMAIN offers' = DOMAIN offers PROVE OneOfferPerDemand'
  BY <1>0, <1>7, OneOfferStays
<1>8. ASSUME NEW o \in OfferIds, NEW b \in BookingIds, AcceptOffer(o, b) PROVE OneOfferPerDemand'
  BY <1>7, <1>8 DEF AcceptOffer, TypeOK
<1>9. CASE SweepTransition \/ SweepResetsDemand \/ WorkerStep
  BY <1>7, <1>9 DEF SweepTransition, TransitionPending, SweepResetsDemand, WorkerStep, TypeOK
<1> QED BY <1>5, <1>6, <1>8, <1>9, StepKinds

-----------------------------------------------------------------------------
(* Copies in flight *)

\* Two offers that differ in nothing but their state.
LEMMA DeclinedCopy ==
  ASSUME NEW row \in OfferRow, NEW next \in OfferRow,
         next.demand = row.demand, next.session = row.session
  PROVE  [next EXCEPT !.state = "declined"] = [row EXCEPT !.state = "declined"]
BY DEF OfferRow

\* What another step does to the tables makes no copy unfaithful.
LEMMA FaithfulStays ==
  ASSUME TypeOK, TypeOK', RowsStay, NEW t, TaskKeys(t), CopyIsFaithful(t)
  PROVE  CopyIsFaithful(t)'
<1>1. CASE t.op = "saveDecline"
  <2>1. /\ offers[t.offer] \in OfferRow /\ offers'[t.offer] \in OfferRow
        /\ offers'[t.offer].demand = offers[t.offer].demand
        /\ offers'[t.offer].session = offers[t.offer].session
    BY <1>1 DEF TaskKeys, TypeOK, RowsStay
  <2>2. [offers'[t.offer] EXCEPT !.state = "declined"] = [offers[t.offer] EXCEPT !.state = "declined"]
    BY <2>1, DeclinedCopy
  <2> QED BY <1>1, <2>2 DEF CopyIsFaithful
<1>2. CASE t.op # "saveDecline"
  <2>1. OffersFor(t.demand) # {} => OffersFor(t.demand)' # {}
    BY OffersForStay
  <2> QED BY <1>2, <2>1 DEF CopyIsFaithful
<1> QED BY <1>1, <1>2

\* Copies stay faithful while other requests and the workers write.
LEMMA CopiesStep ==
  ASSUME TypeOK, TypeOK', ForeignKeys, CopiesInFlight, Next
  PROVE  CopiesInFlight'
<1>0. RowsStay
  BY RowsStayStep
<1>1. \A p \in Requests : TaskKeys(task[p]) /\ CopyIsFaithful(task[p])
  BY DEF ForeignKeys, CopiesInFlight
<1>2. \A t : TaskKeys(t) /\ CopyIsFaithful(t) => CopyIsFaithful(t)'
  BY <1>0, FaithfulStays
<1>3. ASSUME NEW p \in Requests, NEW t, Continue(p, t), CopyIsFaithful(t)'
      PROVE  \A q \in Requests : CopyIsFaithful(task[q])'
  <2>1. ASSUME NEW q \in Requests PROVE CopyIsFaithful(task[q])'
    <3>1. CASE q = p
      <4>1. task'[q] = t
        BY <1>3, <3>1, ContinueTask
      <4> QED BY <1>3, <4>1 DEF CopyIsFaithful
    <3>2. CASE q # p
      <4>1. task'[q] = task[q]
        BY <1>3, <3>2, ContinueTask
      <4>2. \A r : r = task[q] => CopyIsFaithful(r)'
        BY <1>1, <1>2
      <4> QED BY <4>1, <4>2 DEF CopyIsFaithful
    <3> QED BY <3>1, <3>2
  <2> QED BY <2>1
<1>4. ASSUME task' = task PROVE \A q \in Requests : CopyIsFaithful(task[q])'
  <2>1. ASSUME NEW q \in Requests PROVE CopyIsFaithful(task[q])'
    <3>1. \A r : r = task[q] => CopyIsFaithful(r)'
      BY <1>1, <1>2
    <3> QED BY <1>4, <3>1 DEF CopyIsFaithful
  <2> QED BY <2>1
<1>5. \A q \in Requests : CopyIsFaithful(task[q])'
  <2>1. ASSUME NEW p \in Requests, NEW d \in DemandIds, CancelDemand(p, d)
        PROVE  \E t : Continue(p, t) /\ CopyIsFaithful(t)'
    <3>1. demands[d] \in DemandRow /\ OffersFor(d)' = OffersFor(d)
      BY <1>0, <2>1, OffersForStay DEF CancelDemand, TypeOK, store
    <3>2. \A t : t = [op |-> "saveDemand", demand |-> d,
                      row |-> [demands[d] EXCEPT !.state = "canceled"]] => CopyIsFaithful(t)'
      BY <2>1, <3>1 DEF CancelDemand, CopyIsFaithful, CopiesInFlight, DemandRow
    <3> QED BY <2>1, <3>2 DEF CancelDemand
  <2>2. ASSUME NEW p \in Requests, NEW o \in OfferIds, DeclineOffer(p, o)
        PROVE  \E t : Continue(p, t) /\ CopyIsFaithful(t)'
    <3>1. \A t : t = [op |-> "saveDecline", offer |-> o,
                      row |-> [offers[o] EXCEPT !.state = "declined"]] => CopyIsFaithful(t)'
      <4>1. offers' = offers
        BY <2>2 DEF DeclineOffer, store
      <4> QED BY <4>1 DEF CopyIsFaithful
    <3> QED BY <2>2, <3>1 DEF DeclineOffer
  <2>3. ASSUME NEW p \in Requests, NEW o \in OfferIds, SaveOffer(p, o)
        PROVE  \E t : Continue(p, t) /\ CopyIsFaithful(t)'
    <3>1. \A t : t = [op |-> "saveOffered", demand |-> task[p].demand] => CopyIsFaithful(t)'
      BY <2>3 DEF SaveOffer, Upsert, CopyIsFaithful, OffersFor
    <3> QED BY <2>3, <3>1 DEF SaveOffer
  <2>4. ASSUME NEW p \in Requests, NEW t, Continue(p, t),
               t.op \notin {"saveDecline", "saveDemand", "saveOffered"}
        PROVE  \A q \in Requests : CopyIsFaithful(task[q])'
    BY <1>3, <2>4 DEF CopyIsFaithful
  <2>5. ASSUME NEW p \in Requests, DemandStep(p)
        PROVE  \A q \in Requests : CopyIsFaithful(task[q])'
    <3>1. CASE \E d \in DemandIds : CreateDemand(p, d)
      BY <2>4, <3>1 DEF CreateDemand
    <3>2. CASE ChooseCandidate(p)
      BY <2>4, <3>2 DEF ChooseCandidate
    <3>3. CASE SaveOffered(p) \/ SaveDemand(p) \/ SaveDecline(p)
      <4>1. Continue(p, Idle) /\ Idle.op = "idle"
        BY <3>3 DEF SaveOffered, SaveDemand, SaveDecline, Idle
      <4> QED BY <2>4, <4>1
    <3> QED BY <1>3, <2>1, <2>2, <2>3, <2>5, <3>1, <3>2, <3>3 DEF DemandStep
  <2>6. ASSUME NEW p \in Requests, NEW t, StepAside(p, t)
        PROVE  \A q \in Requests : CopyIsFaithful(task[q])'
    BY <2>4, <2>6 DEF StepAside
  <2>7. \/ \E p \in Requests : DemandStep(p) \/ \E t : StepAside(p, t)
        \/ task' = task
    BY StepKinds DEF WorkerStep, AcceptOffer, SweepTransition, SweepResetsDemand
  <2> QED BY <1>4, <2>5, <2>6, <2>7
<1>6. \A d \in DOMAIN demands' : demands'[d].matched => OffersFor(d)' # {}
  <2>0. \A d : OffersFor(d) # {} => OffersFor(d)' # {}
    BY <1>0, OffersForStay
  <2>1. CASE demands' = demands
    BY <2>0, <2>1 DEF CopiesInFlight
  <2>2. ASSUME NEW d, NEW row, demands' = Upsert(demands, d, row), row.matched => OffersFor(d) # {}
        PROVE  \A x \in DOMAIN demands' : demands'[x].matched => OffersFor(x)' # {}
    BY <2>0, <2>2 DEF Upsert, CopiesInFlight
  <2>3. ASSUME NEW p \in Requests, DemandStep(p)
        PROVE  \/ demands' = demands
               \/ \E d, row : demands' = Upsert(demands, d, row) /\ (row.matched => OffersFor(d) # {})
    <3>1. CASE \E d \in DemandIds : CreateDemand(p, d)
      BY <3>1 DEF CreateDemand
    <3>2. CASE SaveOffered(p)
      BY <1>1, <3>2 DEF SaveOffered, CopyIsFaithful
    <3>3. CASE SaveDemand(p)
      BY <1>1, <3>3 DEF SaveDemand, CopyIsFaithful
    <3> QED BY <2>3, <3>1, <3>2, <3>3
            DEF DemandStep, CancelDemand, DeclineOffer, SaveOffer, ChooseCandidate, SaveDecline, store
  <2>4. ASSUME NEW o \in OfferIds, NEW b \in BookingIds, AcceptOffer(o, b)
        PROVE  \A d \in DOMAIN demands' : demands'[d].matched => OffersFor(d)' # {}
    <3>1. \A d \in DOMAIN demands' : d \in DOMAIN demands /\ demands'[d].matched = demands[d].matched
      BY <2>4 DEF AcceptOffer, TypeOK, DemandRow
    <3> QED BY <2>0, <3>1 DEF CopiesInFlight
  <2>5. CASE SweepResetsDemand
    <3>1. OffersFor(offers[sweep.call.offer].demand) # {}
      BY <2>5 DEF SweepResetsDemand, ForeignKeys, WorkerKeys, OffersFor
    <3> QED BY <2>1, <2>2, <2>5, <3>1 DEF SweepResetsDemand
  <2> QED BY <2>1, <2>2, <2>3, <2>4, <2>5, StepKinds DEF StepAside, WorkerStep, SweepTransition
<1> QED BY <1>5, <1>6 DEF CopiesInFlight

-----------------------------------------------------------------------------
(* What a step may do to an offer, a booking and a demand *)

\* An offer is answered, swept while pending, or overwritten as declined.
LEMMA OfferSteps ==
  ASSUME TypeOK, ForeignKeys, CopiesInFlight, Next, NEW o \in DOMAIN offers
  PROVE  \/ offers'[o].state = offers[o].state
         \/ offers'[o].state = "declined"
         \/ offers[o].state = "pending" /\ offers'[o].state \in {"expired", "withdrawn"}
         \/ \E b \in BookingIds : AcceptOffer(o, b)
<1>1. ASSUME NEW p \in Requests, DemandStep(p)
      PROVE  offers'[o].state = offers[o].state \/ offers'[o].state = "declined"
  <2>1. CASE SaveDecline(p)
    <3>1. /\ offers[task[p].offer] \in OfferRow
          /\ task[p].row = [offers[task[p].offer] EXCEPT !.state = "declined"]
      BY <2>1 DEF SaveDecline, TypeOK, ForeignKeys, TaskKeys, CopiesInFlight, CopyIsFaithful
    <3>2. task[p].row.state = "declined"
      BY <3>1 DEF OfferRow
    <3> QED BY <2>1, <3>2 DEF SaveDecline, Upsert
  <2>2. CASE ~SaveDecline(p)
    BY <1>1, <2>2 DEF DemandStep, CreateDemand, CancelDemand, DeclineOffer, SaveOffer, Upsert,
                      ChooseCandidate, SaveOffered, SaveDemand, store
  <2> QED BY <2>1, <2>2
<1>2. ASSUME NEW q \in OfferIds, NEW b \in BookingIds, AcceptOffer(q, b)
      PROVE  offers'[o].state = offers[o].state \/ q = o
  BY <1>2 DEF AcceptOffer, TypeOK
<1>3. CASE SweepTransition
  <2>1. sweep.call.verdict \in {"expired", "withdrawn"}
    BY <1>3, SweepCallType DEF SweepTransition
  <2> QED BY <1>3, <2>1 DEF SweepTransition, TransitionPending, TypeOK, OfferRow
<1>4. CASE SweepResetsDemand \/ WorkerStep
  BY <1>4 DEF SweepResetsDemand, WorkerStep
<1> QED BY <1>1, <1>2, <1>3, <1>4, StepKinds DEF StepAside

\* A new offer is pending and comes from the run that matches its demand.
LEMMA NewOffers ==
  ASSUME TypeOK, ForeignKeys, Next, NEW o \in DOMAIN offers', o \notin DOMAIN offers
  PROVE  /\ \E p \in Requests : Matching(task[p]) /\ task[p].demand = offers'[o].demand
         /\ offers'[o].state = "pending"
         /\ bookings' = bookings /\ demands' = demands
<1>1. PICK p \in Requests, q \in OfferIds : SaveOffer(p, q)
  BY OffersAdded
<1>2. q = o
  BY <1>1 DEF SaveOffer, Upsert
<1> QED BY <1>1, <1>2 DEF SaveOffer, Upsert, Matching

\* What one acceptance does to the four tables.
LEMMA AcceptEffect ==
  ASSUME TypeOK, ForeignKeys, NEW o \in OfferIds, NEW b \in BookingIds, AcceptOffer(o, b)
  PROVE  /\ o \in DOMAIN offers /\ offers[o].state = "pending"
         /\ DOMAIN offers' = DOMAIN offers
         /\ offers'[o].state = "accepted"
         /\ b \notin DOMAIN bookings
         /\ DOMAIN bookings' = DOMAIN bookings \cup {b}
         /\ bookings'[b].demand = offers[o].demand
         /\ bookings'[b].session = offers[o].session
         /\ \A c \in DOMAIN bookings : bookings'[c] = bookings[c]
         /\ DOMAIN demands' = DOMAIN demands
         /\ demands'[offers[o].demand].state = "matched"
         /\ \A d \in DOMAIN demands \ {offers[o].demand} : demands'[d] = demands[d]
         /\ UNCHANGED <<task, sweep>>
<1>1. o \in DOMAIN offers /\ offers[o] \in OfferRow /\ offers[o].demand \in DOMAIN demands
  BY DEF AcceptOffer, TypeOK, ForeignKeys, RowKeys
<1>2. offers'[o].state = "accepted" /\ DOMAIN offers' = DOMAIN offers
  BY <1>1 DEF AcceptOffer, TypeOK, OfferRow
<1>3. /\ DOMAIN demands' = DOMAIN demands
      /\ demands'[offers[o].demand].state = "matched"
      /\ \A d \in DOMAIN demands \ {offers[o].demand} : demands'[d] = demands[d]
  BY <1>1 DEF AcceptOffer, TypeOK, DemandRow
<1> QED BY <1>1, <1>2, <1>3 DEF AcceptOffer, OfferMayBecome, InsertBooking, Upsert, workers

\* A demand is booked by an acceptance, and stays booked.
LEMMA BookedSteps ==
  ASSUME TypeOK, ForeignKeys, CopiesInFlight, Next, NEW d
  PROVE  /\ IsBooked(d) => IsBooked(d)'
         /\ IsBooked(d)' => \/ IsBooked(d)
                            \/ \E o \in OfferIds, b \in BookingIds :
                                 AcceptOffer(o, b) /\ offers[o].demand = d
<1>1. IsBooked(d) => IsBooked(d)'
  BY RowsStayStep DEF RowsStay, IsBooked
<1>2. CASE bookings' = bookings
  BY <1>1, <1>2 DEF IsBooked
<1>3. ASSUME NEW o \in OfferIds, NEW b \in BookingIds, AcceptOffer(o, b), IsBooked(d)'
      PROVE  IsBooked(d) \/ offers[o].demand = d
  <2>1. /\ DOMAIN bookings' = DOMAIN bookings \cup {b}
        /\ bookings'[b].demand = offers[o].demand
        /\ \A c \in DOMAIN bookings : bookings'[c] = bookings[c]
    BY <1>3, AcceptEffect, Zenon
  <2> QED BY <1>3, <2>1 DEF IsBooked
<1> QED BY <1>1, <1>2, <1>3, BookingsAdded

\* Who can bring a demand into which state.
LEMMA DemandSteps ==
  ASSUME TypeOK, ForeignKeys, CopiesInFlight, Next, NEW d \in DOMAIN demands'
  PROVE  \/ d \in DOMAIN demands /\ demands'[d] = demands[d]
         \/ demands'[d].state \in {"canceled", "offered"}
         \/ d \notin DOMAIN demands /\ demands'[d] = [state |-> "searching", matched |-> FALSE]
         \/ SweepResetsDemand /\ d = offers[sweep.call.offer].demand /\ demands'[d].state = "searching"
         \/ \E o \in OfferIds, b \in BookingIds : AcceptOffer(o, b) /\ offers[o].demand = d
<1>1. ASSUME NEW p \in Requests, DemandStep(p)
      PROVE  \/ d \in DOMAIN demands /\ demands'[d] = demands[d]
             \/ demands'[d].state \in {"canceled", "offered"}
             \/ d \notin DOMAIN demands /\ demands'[d] = [state |-> "searching", matched |-> FALSE]
  <2>1. CASE \E x \in DemandIds : CreateDemand(p, x)
    BY <2>1 DEF CreateDemand, Upsert
  <2>2. CASE SaveOffered(p)
    BY <2>2 DEF SaveOffered, Upsert
  <2>3. CASE SaveDemand(p)
    BY <2>3 DEF SaveDemand, Upsert, CopiesInFlight, CopyIsFaithful
  <2> QED BY <1>1, <2>1, <2>2, <2>3
          DEF DemandStep, CancelDemand, DeclineOffer, SaveOffer, ChooseCandidate, SaveDecline, store
<1>2. ASSUME NEW o \in OfferIds, NEW b \in BookingIds, AcceptOffer(o, b), offers[o].demand # d
      PROVE  d \in DOMAIN demands /\ demands'[d] = demands[d]
  <2>1. /\ DOMAIN demands' = DOMAIN demands
        /\ \A x \in DOMAIN demands \ {offers[o].demand} : demands'[x] = demands[x]
    BY <1>2, AcceptEffect, Zenon
  <2> QED BY <1>2, <2>1
<1>3. CASE SweepResetsDemand
  <2> DEFINE x == offers[sweep.call.offer].demand
             row == [sweep.call.copy EXCEPT !.state = "searching"]
  <2>1. row.state = "searching"
    BY <1>3, SweepCallType DEF SweepResetsDemand, DemandRow
  <2>2. demands' = demands \/ demands' = Upsert(demands, x, row)
    BY <1>3 DEF SweepResetsDemand
  <2> HIDE DEF row
  <2> QED BY <1>3, <2>1, <2>2 DEF Upsert
<1> QED BY <1>1, <1>2, <1>3, StepKinds DEF StepAside, WorkerStep, SweepTransition

\* A driver who has not answered holds no booking of the demand: its only offer
\* would have been answered.
LEMMA PendingIsFree ==
  ASSUME OneOfferPerDemand, BookedOfferIsAnswered, NEW o \in DOMAIN offers,
         offers[o].state = "pending"
  PROVE  ~IsBooked(offers[o].demand)
BY DEF OneOfferPerDemand, BookedOfferIsAnswered, IsBooked, OffersFor

-----------------------------------------------------------------------------
(* The invariant is inductive *)

\* The offer an acceptance takes is pending, so its demand is not booked yet.
LEMMA OneBookingStep ==
  ASSUME DispatchInv, Next
  PROVE  OneBookingPerDemand'
<1> USE DEF DispatchInv
<1>1. CASE bookings' = bookings
  BY <1>1 DEF OneBookingPerDemand
<1>2. ASSUME NEW o \in OfferIds, NEW b \in BookingIds, AcceptOffer(o, b)
      PROVE  OneBookingPerDemand'
  <2>1. /\ DOMAIN bookings' = DOMAIN bookings \cup {b}
        /\ bookings'[b].demand = offers[o].demand
        /\ \A c \in DOMAIN bookings : bookings'[c] = bookings[c]
        /\ o \in DOMAIN offers /\ offers[o].state = "pending"
    BY <1>2, AcceptEffect, Zenon
  <2>2. ~IsBooked(offers[o].demand)
    BY <2>1, PendingIsFree
  <2> QED BY <2>1, <2>2 DEF OneBookingPerDemand, IsBooked
<1> QED BY <1>1, <1>2, BookingsAdded

\* An answered offer is out of the sweeper's reach.
LEMMA BookedOfferStep ==
  ASSUME DispatchInv, Next
  PROVE  BookedOfferIsAnswered'
<1> USE DEF DispatchInv
<1>1. ASSUME NEW b \in DOMAIN bookings
      PROVE  \E o \in DOMAIN offers' :
               /\ offers'[o].demand = bookings[b].demand
               /\ offers'[o].session = bookings[b].session
               /\ offers'[o].state \in {"accepted", "declined"}
  <2>1. PICK o \in OffersFor(bookings[b].demand) :
          /\ offers[o].session = bookings[b].session
          /\ offers[o].state \in {"accepted", "declined"}
    BY DEF BookedOfferIsAnswered
  <2>2. o \in DOMAIN offers /\ offers[o].demand = bookings[b].demand
    BY DEF OffersFor
  <2>3. offers'[o].state \in {"accepted", "declined"}
    <3>1. \A c \in BookingIds : ~AcceptOffer(o, c)
      BY <2>1 DEF AcceptOffer, OfferMayBecome
    <3> QED BY <2>1, <2>2, <3>1, OfferSteps
  <2>4. /\ o \in DOMAIN offers' /\ offers'[o].demand = offers[o].demand
        /\ offers'[o].session = offers[o].session
    BY <2>2, RowsStayStep DEF RowsStay
  <2> QED BY <2>1, <2>2, <2>3, <2>4
<1>2. CASE bookings' = bookings
  BY <1>1, <1>2 DEF BookedOfferIsAnswered, OffersFor
<1>3. ASSUME NEW o \in OfferIds, NEW b \in BookingIds, AcceptOffer(o, b)
      PROVE  BookedOfferIsAnswered'
  <2>1. /\ DOMAIN bookings' = DOMAIN bookings \cup {b}
        /\ bookings'[b].demand = offers[o].demand
        /\ bookings'[b].session = offers[o].session
        /\ \A c \in DOMAIN bookings : bookings'[c] = bookings[c]
        /\ o \in DOMAIN offers /\ offers'[o].state = "accepted"
    BY <1>3, AcceptEffect, Zenon
  <2>2. /\ o \in DOMAIN offers' /\ offers'[o].demand = offers[o].demand
        /\ offers'[o].session = offers[o].session
    BY <2>1, RowsStayStep DEF RowsStay
  <2> QED BY <1>1, <2>1, <2>2 DEF BookedOfferIsAnswered, OffersFor
<1> QED BY <1>2, <1>3, BookingsAdded

\* Only an acceptance writes accepted or matched, and it writes the booking too.
LEMMA AcceptedStep ==
  ASSUME DispatchInv, Next
  PROVE  AcceptedIsBooked'
<1> USE DEF DispatchInv
<1>0. \A d : IsBooked(d) => IsBooked(d)'
  BY BookedSteps
<1>1. ASSUME NEW o \in OfferIds, NEW b \in BookingIds, AcceptOffer(o, b)
      PROVE  IsBooked(offers[o].demand)'
  <2>1. DOMAIN bookings' = DOMAIN bookings \cup {b} /\ bookings'[b].demand = offers[o].demand
    BY <1>1, AcceptEffect, Zenon
  <2>2. \A d : d = offers[o].demand => IsBooked(d)'
    BY <2>1 DEF IsBooked
  <2>3. offers'[o].demand = offers[o].demand
    BY <1>1, RowsStayStep DEF RowsStay, AcceptOffer
  <2> QED BY <2>2, <2>3
<1>2. ASSUME NEW o \in DOMAIN offers', offers'[o].state = "accepted"
      PROVE  IsBooked(offers[o].demand)'
  <2>1. o \in DOMAIN offers
    BY <1>2, NewOffers
  <2>2. offers[o].state = "accepted" \/ \E b \in BookingIds : AcceptOffer(o, b)
    BY <1>2, <2>1, OfferSteps
  <2>3. CASE offers[o].state = "accepted"
    <3>1. IsBooked(offers[o].demand) /\ offers'[o].demand = offers[o].demand
      BY <2>1, <2>3, RowsStayStep DEF AcceptedIsBooked, RowsStay
    <3>2. \A d : d = offers[o].demand => IsBooked(d)'
      BY <1>0, <3>1
    <3> QED BY <3>1, <3>2
  <2> QED BY <1>1, <2>1, <2>2, <2>3 DEF TypeOK
<1>3. ASSUME NEW d \in DOMAIN demands', demands'[d].state = "matched"
      PROVE  IsBooked(d)'
  <2>1. CASE \E o \in OfferIds, b \in BookingIds : AcceptOffer(o, b) /\ offers[o].demand = d
    <3>1. PICK o \in OfferIds, b \in BookingIds : AcceptOffer(o, b) /\ offers[o].demand = d
      BY <2>1
    <3>2. DOMAIN bookings' = DOMAIN bookings \cup {b} /\ bookings'[b].demand = offers[o].demand
      BY <3>1, AcceptEffect, Zenon
    <3> QED BY <3>1, <3>2 DEF IsBooked
  <2>2. CASE d \in DOMAIN demands /\ demands'[d] = demands[d]
    BY <1>0, <1>3, <2>2 DEF AcceptedIsBooked
  <2> QED BY <1>3, <2>1, <2>2, DemandSteps
<1> QED BY <1>2, <1>3 DEF AcceptedIsBooked

\* A demand enters searching when it is new or when the sweeper has won its offer.
LEMMA SearchingStep ==
  ASSUME DispatchInv, Next
  PROVE  SearchingIsFree'
<1> USE DEF DispatchInv
<1> SUFFICES ASSUME NEW d \in DOMAIN demands', demands'[d].state = "searching"
             PROVE  /\ ~IsBooked(d)'
                    /\ demands'[d].matched =>
                         \A o \in OffersFor(d)' : offers'[o].state # "pending"
  BY DEF SearchingIsFree
<1>0. ASSUME NEW o \in OfferIds, NEW b \in BookingIds, AcceptOffer(o, b)
      PROVE  demands'[offers[o].demand].state = "matched"
  BY <1>0, AcceptEffect, Zenon
<1>1. IsBooked(d)' => IsBooked(d)
  BY <1>0, BookedSteps
<1>2. ASSUME NEW o \in OffersFor(d), offers[o].state # "pending"
      PROVE  offers'[o].state # "pending"
  <2>1. o \in DOMAIN offers
    BY DEF OffersFor
  <2>2. offers'[o].state = "accepted" \/ \A b \in BookingIds : ~AcceptOffer(o, b)
    BY <1>2 DEF AcceptOffer, OfferMayBecome
  <2> QED BY <1>2, <2>1, <2>2, OfferSteps
<1>3. CASE d \in DOMAIN demands /\ demands'[d] = demands[d]
  <2>1. ASSUME NEW o \in OffersFor(d)', demands[d].matched, o \notin DOMAIN offers
        PROVE  FALSE
    <3>1. o \in DOMAIN offers' /\ offers'[o].demand = d
      BY DEF OffersFor
    <3>2. OffersFor(d) = {}
      BY <2>1, <3>1, NewOffers DEF OneOfferPerDemand
    <3> QED BY <1>3, <2>1, <3>2 DEF CopiesInFlight
  <2>2. \A o \in OffersFor(d)' : o \in DOMAIN offers => o \in OffersFor(d)
    BY RowsStayStep DEF RowsStay, OffersFor
  <2> QED BY <1>1, <1>2, <1>3, <2>1, <2>2 DEF SearchingIsFree, OffersFor
<1>4. CASE d \notin DOMAIN demands /\ demands'[d] = [state |-> "searching", matched |-> FALSE]
  <2>1. ~IsBooked(d)
    BY <1>4 DEF IsBooked, ForeignKeys, RowKeys
  <2> QED BY <1>1, <1>4, <2>1
<1>5. CASE SweepResetsDemand /\ d = offers[sweep.call.offer].demand
  <2> DEFINE o == sweep.call.offer
  <2>1. /\ o \in DOMAIN offers /\ offers[o].state # "pending" /\ ~IsBooked(d)
        /\ offers' = offers
    BY <1>5 DEF SweepResetsDemand, ResetIsDeserved, ForeignKeys, WorkerKeys
  <2>2. \A q \in OffersFor(d)' : q = o
    BY <1>5, <2>1 DEF OffersFor, OneOfferPerDemand
  <2> QED BY <1>1, <2>1, <2>2
<1> QED BY <1>0, <1>3, <1>4, <1>5, DemandSteps

\* Between winning the offer and resetting the demand nobody books the demand.
LEMMA ResetStep ==
  ASSUME DispatchInv, Next
  PROVE  ResetIsDeserved'
<1> USE DEF DispatchInv
<1> DEFINE o == sweep.call.offer
<1>1. ASSUME sweep.call.at = "reset", sweep' = sweep PROVE ResetIsDeserved'
  <2>1. o \in DOMAIN offers /\ offers[o].state # "pending" /\ ~IsBooked(offers[o].demand)
    BY <1>1 DEF ForeignKeys, WorkerKeys, ResetIsDeserved
  <2>2. offers'[o].demand = offers[o].demand
    BY <2>1, RowsStayStep DEF RowsStay
  <2>3. offers'[o].state # "pending"
    <3>1. \A b \in BookingIds : ~AcceptOffer(o, b)
      BY <2>1 DEF AcceptOffer, OfferMayBecome
    <3> QED BY <2>1, <3>1, OfferSteps
  <2>4. ASSUME NEW q \in OfferIds, NEW b \in BookingIds, AcceptOffer(q, b)
        PROVE  offers[q].demand # offers[o].demand
    <3>1. q \in DOMAIN offers /\ offers[q].state = "pending"
      BY <2>4 DEF AcceptOffer, OfferMayBecome
    <3> QED BY <2>1, <3>1 DEF OneOfferPerDemand
  <2>5. \A d : d = offers[o].demand => ~IsBooked(d)'
    BY <2>1, <2>4, BookedSteps
  <2> QED BY <1>1, <2>2, <2>3, <2>5 DEF ResetIsDeserved, IsBooked
<1>2. CASE SweepTransition
  <2>1. /\ o \in DOMAIN offers /\ offers[o].state = "pending" /\ offers'[o].state # "pending"
        /\ bookings' = bookings /\ offers'[o].demand = offers[o].demand
    <3>1. sweep.call.verdict \in {"expired", "withdrawn"}
      BY <1>2, SweepCallType DEF SweepTransition
    <3> QED BY <1>2, <3>1 DEF SweepTransition, TransitionPending, ForeignKeys, WorkerKeys, TypeOK, OfferRow
  <2>2. ~IsBooked(offers[o].demand)
    BY <2>1, PendingIsFree
  <2>3. sweep'.call.at = "reset" => sweep'.call.offer = o
    BY <1>2, SweepCallsTakesPlace DEF SweepTransition, Requeue, AtList
  <2>4. \A d : d = offers[o].demand => ~IsBooked(d)'
    BY <2>1, <2>2 DEF IsBooked
  <2> QED BY <2>1, <2>3, <2>4 DEF ResetIsDeserved, IsBooked
<1>3. CASE SweepResetsDemand
  <2>1. sweep'.call.at # "reset"
    BY <1>3, SweepCallsTakesPlace DEF SweepResetsDemand, AtList
  <2> QED BY <2>1 DEF ResetIsDeserved
<1>4. \/ sweep' = sweep \/ sweep'.call.at # "reset"
      \/ SweepTransition \/ SweepResetsDemand
  <2>1. ASSUME NEW p \in Requests, DemandStep(p) PROVE sweep' = sweep
    BY <2>1 DEF DemandStep, CreateDemand, CancelDemand, SaveOffer, DeclineOffer, ChooseCandidate,
                SaveOffered, SaveDemand, SaveDecline, workers
  <2> QED BY <2>1, StepKinds DEF StepAside, WorkerStep, AcceptOffer, workers
<1> QED BY <1>1, <1>2, <1>3, <1>4 DEF ResetIsDeserved

\* Every step keeps the types.
LEMMA TypeStep ==
  ASSUME TypeOK, ForeignKeys, Next
  PROVE  TypeOK'
BY SessionHandlersType, DemandHandlersType, AcceptType, SweeperType, ReconcilerType
   DEF Next, RequestArrives, RequestGoesOn

\* The invariant holds of the empty store, ...
LEMMA InitInv == Init => DispatchInv
<1>1. Init => TypeOK
  BY InitType
<1>2. Init => ForeignKeys
  BY DEF Init, EmptyTable, ForeignKeys, RowKeys, TaskKeys, WorkerKeys, Idle, Asleep
<1>3. Init => OneOfferPerDemand /\ CopiesInFlight
  BY DEF Init, EmptyTable, OneOfferPerDemand, CopiesInFlight, CopyIsFaithful, Matching, Idle
<1>4. Init => /\ OneBookingPerDemand /\ BookedOfferIsAnswered /\ AcceptedIsBooked
              /\ SearchingIsFree /\ ResetIsDeserved
  BY DEF Init, EmptyTable, OneBookingPerDemand, BookedOfferIsAnswered, AcceptedIsBooked,
         SearchingIsFree, ResetIsDeserved, Asleep
<1> QED BY <1>1, <1>2, <1>3, <1>4 DEF DispatchInv

\* ... when nothing happens, ...
LEMMA InvStutters ==
  ASSUME DispatchInv, UNCHANGED vars
  PROVE  DispatchInv'
<1>1. TypeOK' /\ ForeignKeys'
  BY DEF vars, DispatchInv, TypeOK, ForeignKeys, RowKeys, TaskKeys, WorkerKeys
<1>2. OneOfferPerDemand' /\ CopiesInFlight'
  BY DEF vars, DispatchInv, OneOfferPerDemand, CopiesInFlight, CopyIsFaithful, Matching, OffersFor
<1>3. /\ OneBookingPerDemand' /\ BookedOfferIsAnswered' /\ AcceptedIsBooked'
      /\ SearchingIsFree' /\ ResetIsDeserved'
  BY DEF vars, DispatchInv, OneBookingPerDemand, BookedOfferIsAnswered, AcceptedIsBooked,
         SearchingIsFree, ResetIsDeserved, IsBooked, OffersFor
<1> QED BY <1>1, <1>2, <1>3 DEF DispatchInv

\* ... and after every step.
LEMMA InvStep == DispatchInv /\ [Next]_vars => DispatchInv'
<1>1. ASSUME DispatchInv, Next PROVE DispatchInv'
  <2>1. TypeOK /\ ForeignKeys /\ CopiesInFlight /\ OneOfferPerDemand
    BY <1>1 DEF DispatchInv
  <2>2. TypeOK' /\ ForeignKeys' /\ CopiesInFlight' /\ OneOfferPerDemand'
    BY <1>1, <2>1, TypeStep, ForeignKeysStep, CopiesStep, OneOfferStep
  <2>3. /\ OneBookingPerDemand' /\ BookedOfferIsAnswered' /\ AcceptedIsBooked'
        /\ SearchingIsFree' /\ ResetIsDeserved'
    BY <1>1, OneBookingStep, BookedOfferStep, AcceptedStep, SearchingStep, ResetStep
  <2> QED BY <2>2, <2>3 DEF DispatchInv
<1> QED BY <1>1, InvStutters

\* The inductive invariant holds in every reachable state.
THEOREM Invariance == Spec => []DispatchInv
BY InitInv, InvStep, PTL DEF Spec

-----------------------------------------------------------------------------
(* Theorems *)

\* Every table, request and worker always holds rows of its kind: no handler
\* saves a row it failed to read, and seats never go below zero.
THEOREM TypeCorrect == Spec => []TypeOK
<1>1. DispatchInv => TypeOK
  BY DEF DispatchInv
<1> QED BY <1>1, Invariance, PTL

\* No demand is ever booked twice, whatever accept, decline, sweep and the
\* blind saves of offers and demands do to each other.
THEOREM NoDoubleBooking == Spec => []OneBookingPerDemand
<1>1. DispatchInv => OneBookingPerDemand
  BY DEF DispatchInv
<1> QED BY <1>1, Invariance, PTL

\* The sweeper never expires or withdraws the offer behind a booking.
THEOREM SweeperSparesBookings == Spec => []BookedOfferIsAnswered
<1>1. DispatchInv => BookedOfferIsAnswered
  BY DEF DispatchInv
<1> QED BY <1>1, Invariance, PTL

\* No offer stays accepted and no demand matched without a booking.
THEOREM AnswersAreBacked == Spec => []AcceptedIsBooked
<1>1. DispatchInv => AcceptedIsBooked
  BY DEF DispatchInv
<1> QED BY <1>1, Invariance, PTL

\* A demand back in searching is unbooked, and its old offer is over.
THEOREM SearchingDemandsAreFree == Spec => []SearchingIsFree
<1>1. DispatchInv => SearchingIsFree
  BY DEF DispatchInv
<1> QED BY <1>1, Invariance, PTL

-----------------------------------------------------------------------------
(* Dispatch implements the contract *)

\* A demand whose bookings and offers stay as they are stays in its phase.
LEMMA PhaseStays ==
  ASSUME NEW d, IsBooked(d)' = IsBooked(d), OffersFor(d)' = OffersFor(d),
         \A o \in OffersFor(d) : offers'[o].state = "pending" <=> offers[o].state = "pending"
  PROVE  Phase(d)' = Phase(d)
BY DEF Phase

\* A step that moves one demand, in one of the ways of the contract, is one of its steps.
LEMMA PhaseMoves ==
  ASSUME NEW d \in DemandIds, \A x \in DemandIds \ {d} : Phase(x)' = Phase(x)
  PROVE  /\ Phase(d)' = Phase(d) => phase' = phase
         /\ Phase(d) = "none" /\ Phase(d)' = "open" => Contract!Next
         /\ Phase(d) = "open" /\ Phase(d)' \in {"booked", "lost"} => Contract!Next
BY DEF phase, Contract!Next, Contract!Offer, Contract!Book, Contract!Lose, Contract!Move

\* Settling an open offer without booking it loses its demand; overwriting a
\* settled one changes nothing.
LEMMA OfferSettled ==
  ASSUME DispatchInv, RowsStay, DOMAIN offers' = DOMAIN offers, bookings' = bookings,
         NEW o \in DOMAIN offers, offers'[o].state # "pending",
         \A q \in DOMAIN offers \ {o} : offers'[q] = offers[q]
  PROVE  [Contract!Next]_phase
<1> DEFINE d == offers[o].demand
<1>1. d \in DemandIds /\ o \in OffersFor(d) /\ \A q \in OffersFor(d) : q = o
  BY DEF DispatchInv, TypeOK, OfferRow, OneOfferPerDemand, OffersFor
<1>2. \A x : IsBooked(x)' = IsBooked(x) /\ OffersFor(x)' = OffersFor(x)
  BY OffersForStay DEF IsBooked
<1>3. \A x \in DemandIds \ {d} : Phase(x)' = Phase(x)
  <2> SUFFICES ASSUME NEW x \in DemandIds \ {d} PROVE Phase(x)' = Phase(x)
    OBVIOUS
  <2>1. \A q \in OffersFor(x) : offers'[q] = offers[q]
    BY DEF OffersFor
  <2> QED BY <1>2, <2>1, PhaseStays
<1>4. \A x : x = d => \/ Phase(x)' = Phase(x)
                      \/ Phase(x) = "open" /\ Phase(x)' = "lost"
  <2>1. \A x : x = d => o \in OffersFor(x)' /\ \A q \in OffersFor(x)' : q = o
    BY <1>1, <1>2
  <2> QED BY <1>1, <1>2, <2>1 DEF Phase
<1> HIDE DEF d
<1> QED BY <1>1, <1>3, <1>4, PhaseMoves

\* Every step of dispatch is a step of the contract or leaves it alone.
LEMMA ContractStep ==
  ASSUME DispatchInv, [Next]_vars
  PROVE  [Contract!Next]_phase
<1>1. ASSUME offers' = offers, bookings' = bookings PROVE phase' = phase
  BY <1>1 DEF phase, Phase, IsBooked, OffersFor
<1>2. ASSUME Next, NEW o \in OfferIds, NEW b \in BookingIds, AcceptOffer(o, b)
      PROVE  [Contract!Next]_phase
  <2> DEFINE d == offers[o].demand
  <2>0. RowsStay
    BY <1>2, RowsStayStep DEF DispatchInv
  <2>1. /\ o \in DOMAIN offers /\ offers[o].state = "pending"
        /\ DOMAIN offers' = DOMAIN offers
        /\ DOMAIN bookings' = DOMAIN bookings \cup {b}
        /\ bookings'[b].demand = d
        /\ \A c \in DOMAIN bookings : bookings'[c] = bookings[c]
    BY <1>2, AcceptEffect, Zenon DEF DispatchInv
  <2>2. \A q \in DOMAIN offers \ {o} : offers'[q] = offers[q]
    BY <1>2 DEF AcceptOffer, DispatchInv, TypeOK
  <2>3. \A x \in DemandIds \ {d} : Phase(x)' = Phase(x)
    <3> SUFFICES ASSUME NEW x \in DemandIds \ {d} PROVE Phase(x)' = Phase(x)
      OBVIOUS
    <3>1. IsBooked(x)' = IsBooked(x)
      BY <2>0, <2>1 DEF IsBooked, RowsStay
    <3>2. OffersFor(x)' = OffersFor(x)
      BY <2>0, <2>1, OffersForStay
    <3>3. \A q \in OffersFor(x) : offers'[q] = offers[q]
      BY <2>2 DEF OffersFor
    <3> QED BY <3>1, <3>2, <3>3, PhaseStays
  <2>4. Phase(d) = "open"
    BY <2>1, PendingIsFree DEF DispatchInv, Phase, OffersFor
  <2>5. \A x : x = d => Phase(x)' = "booked"
    BY <2>1 DEF Phase, IsBooked
  <2>6. d \in DemandIds
    BY <2>1 DEF DispatchInv, TypeOK, OfferRow
  <2> HIDE DEF d
  <2> QED BY <2>3, <2>4, <2>5, <2>6, PhaseMoves
<1>3. ASSUME Next, NEW p \in Requests, NEW o \in OfferIds, SaveOffer(p, o)
      PROVE  [Contract!Next]_phase
  <2> DEFINE d == task[p].demand
  <2>1. /\ OffersFor(d) = {} /\ o \notin DOMAIN offers /\ bookings' = bookings
        /\ DOMAIN offers' = DOMAIN offers \cup {o}
        /\ offers'[o].demand = d /\ offers'[o].state = "pending"
        /\ \A q \in DOMAIN offers : offers'[q] = offers[q]
    BY <1>3 DEF SaveOffer, Upsert, DispatchInv, OneOfferPerDemand, Matching
  <2>2. ~IsBooked(d)
    BY <2>1 DEF IsBooked, DispatchInv, BookedOfferIsAnswered
  <2>3. \A x \in DemandIds \ {d} : Phase(x)' = Phase(x)
    <3> SUFFICES ASSUME NEW x \in DemandIds \ {d} PROVE Phase(x)' = Phase(x)
      OBVIOUS
    <3>1. IsBooked(x)' = IsBooked(x) /\ OffersFor(x)' = OffersFor(x)
      BY <2>1 DEF IsBooked, OffersFor
    <3>2. \A q \in OffersFor(x) : offers'[q] = offers[q]
      BY <2>1 DEF OffersFor
    <3> QED BY <3>1, <3>2, PhaseStays
  <2>4. Phase(d) = "none"
    BY <2>1, <2>2 DEF Phase
  <2>5. \A x : x = d => Phase(x)' = "open"
    BY <2>1, <2>2 DEF Phase, IsBooked, OffersFor
  <2>6. d \in DemandIds
    BY <1>3, TaskType DEF SaveOffer, DispatchInv
  <2> HIDE DEF d
  <2> QED BY <2>3, <2>4, <2>5, <2>6, PhaseMoves
<1>4. ASSUME Next, NEW p \in Requests, SaveDecline(p) PROVE [Contract!Next]_phase
  <2> DEFINE o == task[p].offer
  <2>1. /\ o \in DOMAIN offers
        /\ task[p].row = [offers[o] EXCEPT !.state = "declined"]
        /\ offers[o] \in OfferRow
    BY <1>4 DEF SaveDecline, DispatchInv, TypeOK, ForeignKeys, TaskKeys, CopiesInFlight, CopyIsFaithful
  <2>2. task[p].row.state = "declined"
    BY <2>1 DEF OfferRow
  <2>3. /\ DOMAIN offers' = DOMAIN offers /\ bookings' = bookings
        /\ offers'[o].state # "pending"
        /\ \A q \in DOMAIN offers \ {o} : offers'[q] = offers[q]
    BY <1>4, <2>1, <2>2 DEF SaveDecline, Upsert
  <2>4. RowsStay
    BY <1>4, RowsStayStep DEF DispatchInv
  <2> QED BY <2>1, <2>3, <2>4, OfferSettled
<1>5. ASSUME Next, SweepTransition PROVE [Contract!Next]_phase
  <2> DEFINE o == sweep.call.offer
  <2>1. /\ o \in DOMAIN offers /\ offers[o] \in OfferRow
        /\ sweep.call.verdict \in {"expired", "withdrawn"}
    BY <1>5, SweepCallType DEF SweepTransition, DispatchInv, TypeOK, ForeignKeys, WorkerKeys
  <2>2. /\ DOMAIN offers' = DOMAIN offers /\ bookings' = bookings
        /\ offers'[o].state # "pending"
        /\ \A q \in DOMAIN offers \ {o} : offers'[q] = offers[q]
    BY <1>5, <2>1 DEF SweepTransition, TransitionPending, OfferRow, DispatchInv, TypeOK
  <2>3. RowsStay
    BY <1>5, RowsStayStep DEF DispatchInv
  <2> QED BY <2>1, <2>2, <2>3, OfferSettled
<1>6. ASSUME NEW p \in Requests, DemandStep(p)
      PROVE  \/ offers' = offers /\ bookings' = bookings
             \/ SaveDecline(p) \/ \E o \in OfferIds : SaveOffer(p, o)
  BY <1>6 DEF DemandStep, CreateDemand, CancelDemand, DeclineOffer, ChooseCandidate,
              SaveOffered, SaveDemand, store
<1>7. CASE Next
  BY <1>1, <1>2, <1>3, <1>4, <1>5, <1>6, <1>7, StepKinds
     DEF DispatchInv, StepAside, WorkerStep, SweepResetsDemand
<1>8. CASE UNCHANGED vars
  BY <1>1, <1>8 DEF vars
<1> QED BY <1>7, <1>8

\* Without demands, offers and bookings every demand is in phase none.
LEMMA ContractInit == Init => Contract!Init
BY DEF Init, EmptyTable, Contract!Init, phase, Phase, IsBooked, OffersFor

\* Dispatch implements RideContract: a demand is offered at most once, its offer
\* is settled once, and a booking is never taken back.
THEOREM Refinement == Spec => KeepsContract
<1>1. DispatchInv /\ [Next]_vars => [Contract!Next]_phase
  BY ContractStep
<1> QED BY <1>1, Invariance, ContractInit, PTL DEF Spec, KeepsContract, Contract!Spec

-----------------------------------------------------------------------------
(* The sweeper and what is due *)

\* The offers a sweep found past their TTL are among those it still has to visit.
DueIsListed == sweep.due \subseteq sweep.todo /\ (sweep.call = Asleep => sweep.due = {})

LEMMA DueIsListedStep ==
  ASSUME TypeOK, ForeignKeys, DueIsListed, [Next]_vars
  PROVE  DueIsListed'
<1>1. ASSUME UNCHANGED sweep PROVE DueIsListed'
  BY <1>1 DEF DueIsListed
<1>2. ASSUME NEW c, SweepCalls(c), c # Asleep PROVE DueIsListed'
  BY <1>2 DEF SweepCalls, TypeOK, SweepState, DueIsListed
<1>3. CASE Sweeper \/ SweepCrashes
  <2>1. CASE SweepStart \/ SweepDone \/ SweepCrashes
    BY <2>1 DEF SweepStart, SweepDone, SweepCrashes, DueOffers, DueIsListed, AtList, Asleep
  <2>2. CASE SweepWithdraws
    BY <1>2, <2>2 DEF SweepWithdraws, Asleep
  <2>3. CASE SweepSkips \/ SweepTransitionFails \/ SweepResetsDemand
    BY <1>2, <2>3 DEF SweepSkips, SweepTransitionFails, SweepResetsDemand, AtList, Asleep
  <2>4. CASE SweepTransition
    BY <1>2, <2>4 DEF SweepTransition, Requeue, AtList, Asleep
  <2>5. ASSUME NEW o \in OfferIds, SweepReadDemand(o) PROVE DueIsListed'
    BY <2>5 DEF SweepReadDemand, DueIsListed, Asleep
  <2> QED BY <1>3, <2>1, <2>2, <2>3, <2>4, <2>5 DEF Sweeper
<1>4. ASSUME Next, ~Sweeper, ~SweepCrashes PROVE UNCHANGED sweep
  BY <1>4 DEF Next, RequestArrives, RequestGoesOn, AbandonRequest, AcceptOffer, Reconciler, ReconcileFails,
      OfferTTLElapses, PresenceExpires, Start, Heartbeat, TransitionState, CreateDemand, CancelDemand,
      DeclineOffer, SaveHeartbeat, SaveTransition, SavePresence, DeletePresence, ChooseCandidate,
      NoCandidate, SaveOffered, SaveOffer, SaveDemand, SaveDecline, ReconcileStart, ReconcilePauses,
      ReconcileDeletes, workers
<1> QED BY <1>1, <1>3, <1>4 DEF vars

\* An offer leaves the sweep expired, or found answered by somebody else: only a
\* failed update or the death of the process ends the sweep of an open one.
LEMMA DueOfferStep ==
  ASSUME "fault" \notin Ops, TypeOK, ForeignKeys, DueIsListed, [Next]_vars,
         NEW o \in OfferIds, Expiring(o), ~Expiring(o)'
  PROVE  offers'[o].state # "pending"
<1>1. Sweeper
  <2>1. ~UNCHANGED sweep
    BY DEF Expiring
  <2> QED
    BY <2>1 DEF vars, SweepCrashes, Next, RequestArrives, RequestGoesOn, AbandonRequest, AcceptOffer, Reconciler,
      ReconcileFails, OfferTTLElapses, PresenceExpires, Start, Heartbeat, TransitionState, CreateDemand,
      CancelDemand, DeclineOffer, SaveHeartbeat, SaveTransition, SavePresence, DeletePresence, ChooseCandidate,
      NoCandidate, SaveOffered, SaveOffer, SaveDemand, SaveDecline, ReconcileStart, ReconcilePauses,
      ReconcileDeletes, workers
<1>2. ASSUME NEW c, SweepCalls(c)
      PROVE  sweep.call.at = "transition" /\ sweep.call.offer = o
  BY <1>2 DEF SweepCalls, TypeOK, SweepState, Expiring
<1>3. CASE SweepStart \/ SweepDone
  BY <1>3 DEF SweepStart, SweepDone, DueIsListed, Expiring, Asleep, AtList
<1>4. CASE SweepWithdraws \/ SweepSkips \/ SweepResetsDemand
  BY <1>2, <1>4 DEF SweepWithdraws, SweepSkips, SweepResetsDemand
<1>5. CASE SweepTransition
  <2>1. sweep.call.offer = o /\ sweep.call.verdict \in {"expired", "withdrawn"}
    BY <1>2, <1>5, SweepCallType DEF SweepTransition
  <2>2. o \in DOMAIN offers /\ offers[o] \in OfferRow
    BY <1>5, <2>1 DEF SweepTransition, ForeignKeys, WorkerKeys, TypeOK
  <2> QED BY <1>5, <2>1, <2>2 DEF SweepTransition, TransitionPending, OfferRow
<1>6. CASE SweepTransitionFails
  BY <1>2, <1>6 DEF SweepTransitionFails, store
<1>7. ASSUME NEW q \in OfferIds, SweepReadDemand(q) PROVE FALSE
  <2>1. sweep'.due = sweep.due \ {q} /\ sweep.call = AtList
    BY <1>7 DEF SweepReadDemand
  <2>2. q = o /\ o \in sweep.due
    BY <2>1 DEF Expiring, AtList
  <2>3. /\ sweep'.call.at = "transition" /\ sweep'.call.offer = o
        /\ sweep'.call.verdict = "expired"
    BY <1>7, <2>2 DEF SweepReadDemand, AsksForDriver
  <2> QED BY <2>3 DEF Expiring
<1> QED BY <1>1, <1>3, <1>4, <1>5, <1>6, <1>7 DEF Sweeper

\* An offer that is past its TTL when a sweep begins is answered, expired
\* or withdrawn when the sweep is done with it, with any number of offers, whatever
\* happens in between, as long as no update fails and the process lives.
THEOREM DueOffersNeverSlip ==
  ASSUME "fault" \notin Ops
  PROVE  Spec => DueOffersDoNotSlip
<1>1. Init => DueIsListed
  BY DEF Init, DueIsListed
<1>2. DispatchInv /\ DueIsListed /\ [Next]_vars => DueIsListed'
  BY DueIsListedStep DEF DispatchInv
<1>3. DispatchInv /\ DueIsListed /\ [Next]_vars =>
        [\A o \in OfferIds : Expiring(o) /\ ~Expiring(o)' => offers'[o].state # "pending"]_vars
  BY DueOfferStep DEF DispatchInv
<1> QED BY <1>1, <1>2, <1>3, Invariance, PTL DEF Spec, DueOffersDoNotSlip
=============================================================================
