---------------------------- MODULE RideDispatchProofs ----------------------------
(***************************************************************************)
(* Proofs about RideDispatch, for any number of demands, offers, sessions, *)
(* bookings and requests, any capacities and any workload.                 *)
(***************************************************************************)
EXTENDS RideDispatch, TLAPS

-----------------------------------------------------------------------------
(* Tables *)

\* A table stays a table of rows of its kind.
LEMMA UpsertType ==
  ASSUME NEW Ids, NEW Row, NEW table, NEW id \in Ids, NEW row \in Row,
         table \in [DOMAIN table -> Row], DOMAIN table \subseteq Ids
  PROVE  /\ Upsert(table, id, row) \in [DOMAIN Upsert(table, id, row) -> Row]
         /\ DOMAIN Upsert(table, id, row) \subseteq Ids
BY DEF Upsert

\* So does a table that loses an id.
LEMMA RemoveType ==
  ASSUME NEW Ids, NEW Row, NEW table, NEW id,
         table \in [DOMAIN table -> Row], DOMAIN table \subseteq Ids
  PROVE  /\ Remove(table, id) \in [DOMAIN Remove(table, id) -> Row]
         /\ DOMAIN Remove(table, id) \subseteq Ids
         /\ DOMAIN Remove(table, id) = DOMAIN table \ {id}
         /\ \A x \in DOMAIN table \ {id} : Remove(table, id)[x] = table[x]
BY DEF Remove

-----------------------------------------------------------------------------
(* Type correctness *)

\* The empty store and the idle workers are well-typed.
LEMMA InitType == Init => TypeOK
BY DEF Init, TypeOK, EmptyTable, Task, Idle, SweepState, SweepCall, Asleep, ReconcileState

\* The pending write of a request is of the kind its name says.
LEMMA TaskType ==
  ASSUME TypeOK, NEW p \in Requests
  PROVE  /\ task[p] \in Task
         /\ task[p].op \in {"runMatch", "saveOffered"} => task[p].demand \in DemandIds
         /\ task[p].op = "saveOffer" => task[p].demand \in DemandIds /\ task[p].session \in SessionIds
         /\ task[p].op = "saveDemand" => task[p].demand \in DemandIds /\ task[p].row \in DemandRow
         /\ task[p].op = "saveDecline" => task[p].offer \in OfferIds /\ task[p].row \in OfferRow
         /\ task[p].op \in {"saveHeartbeat", "saveTransition", "savePresence"} =>
              /\ task[p].session \in SessionIds
              /\ task[p].row \in SessionRow
              /\ Publish(p) \in Task
         /\ task[p].op = "deletePresence" => task[p].session \in SessionIds
BY DEF TypeOK, Task, Idle, Publish

\* A request that goes on with a task holds a task.
LEMMA ContinueType ==
  ASSUME TypeOK, NEW p \in Requests, NEW t \in Task, Continue(p, t)
  PROVE  task' \in [Requests -> Task]
BY DEF TypeOK, Continue

\* A saved row keeps its table well-typed, and nothing leaves the table.
LEMMA SaveTypes ==
  ASSUME TypeOK
  PROVE  /\ \A d \in DemandIds, row \in DemandRow : demands' = Upsert(demands, d, row) =>
              /\ demands' \in [DOMAIN demands' -> DemandRow]
              /\ DOMAIN demands' \subseteq DemandIds
         /\ \A o \in OfferIds, row \in OfferRow : offers' = Upsert(offers, o, row) =>
              /\ offers' \in [DOMAIN offers' -> OfferRow]
              /\ DOMAIN offers' \subseteq OfferIds
         /\ \A s \in SessionIds, row \in SessionRow : sessions' = Upsert(sessions, s, row) =>
              /\ sessions' \in [DOMAIN sessions' -> SessionRow]
              /\ DOMAIN sessions' \subseteq SessionIds
         /\ \A b \in BookingIds, row \in BookingRow : bookings' = Upsert(bookings, b, row) =>
              /\ bookings' \in [DOMAIN bookings' -> BookingRow]
              /\ DOMAIN bookings' \subseteq BookingIds
         /\ \A s \in SessionIds, row \in SessionRow : presence' = Upsert(presence, s, row) =>
              /\ presence' \in [DOMAIN presence' -> SessionRow]
              /\ DOMAIN presence' \subseteq SessionIds
         /\ \A s : presence' = Remove(presence, s) =>
              /\ presence' \in [DOMAIN presence' -> SessionRow]
              /\ DOMAIN presence' \subseteq SessionIds
<1>1. ASSUME NEW d \in DemandIds, NEW row \in DemandRow, demands' = Upsert(demands, d, row)
      PROVE  demands' \in [DOMAIN demands' -> DemandRow] /\ DOMAIN demands' \subseteq DemandIds
  BY <1>1, UpsertType DEF TypeOK
<1>2. ASSUME NEW o \in OfferIds, NEW row \in OfferRow, offers' = Upsert(offers, o, row)
      PROVE  offers' \in [DOMAIN offers' -> OfferRow] /\ DOMAIN offers' \subseteq OfferIds
  BY <1>2, UpsertType DEF TypeOK
<1>3. ASSUME NEW s \in SessionIds, NEW row \in SessionRow, sessions' = Upsert(sessions, s, row)
      PROVE  sessions' \in [DOMAIN sessions' -> SessionRow] /\ DOMAIN sessions' \subseteq SessionIds
  BY <1>3, UpsertType DEF TypeOK
<1>4. ASSUME NEW b \in BookingIds, NEW row \in BookingRow, bookings' = Upsert(bookings, b, row)
      PROVE  bookings' \in [DOMAIN bookings' -> BookingRow] /\ DOMAIN bookings' \subseteq BookingIds
  BY <1>4, UpsertType DEF TypeOK
<1>5. ASSUME NEW s \in SessionIds, NEW row \in SessionRow, presence' = Upsert(presence, s, row)
      PROVE  presence' \in [DOMAIN presence' -> SessionRow] /\ DOMAIN presence' \subseteq SessionIds
  BY <1>5, UpsertType DEF TypeOK
<1>6. ASSUME NEW s, presence' = Remove(presence, s)
      PROVE  presence' \in [DOMAIN presence' -> SessionRow] /\ DOMAIN presence' \subseteq SessionIds
  BY <1>6, RemoveType DEF TypeOK
<1> QED BY <1>1, <1>2, <1>3, <1>4, <1>5, <1>6

\* An acceptance writes rows of the right kind.
LEMMA AcceptType ==
  ASSUME TypeOK, ForeignKeys, NEW o \in OfferIds, NEW b \in BookingIds, AcceptOffer(o, b)
  PROVE  TypeOK'
<1> DEFINE d == offers[o].demand
           s == offers[o].session
<1>1. /\ o \in DOMAIN offers /\ d \in DemandIds /\ s \in SessionIds
      /\ d \in DOMAIN demands /\ s \in DOMAIN sessions
      /\ offers[o] \in OfferRow /\ demands[d] \in DemandRow /\ sessions[s] \in SessionRow
  BY DEF AcceptOffer, TypeOK, ForeignKeys, RowKeys, OfferRow
<1>2. offers' \in [DOMAIN offers' -> OfferRow] /\ DOMAIN offers' \subseteq OfferIds
  <2>1. [offers[o] EXCEPT !.state = "accepted"] \in OfferRow
    BY <1>1 DEF OfferRow, OfferStates
  <2> QED BY <1>1, <2>1 DEF AcceptOffer, TypeOK
<1>3. demands' \in [DOMAIN demands' -> DemandRow] /\ DOMAIN demands' \subseteq DemandIds
  <2>1. [demands[d] EXCEPT !.state = "matched"] \in DemandRow
    BY <1>1 DEF DemandRow, DemandStates
  <2> QED BY <1>1, <2>1 DEF AcceptOffer, TypeOK
<1>4. sessions' \in [DOMAIN sessions' -> SessionRow] /\ DOMAIN sessions' \subseteq SessionIds
  <2>1. SeatTaken(sessions[s]) \in SessionRow
    BY <1>1 DEF AcceptOffer, SeatTaken, SessionRow, SessionStates
  <2> QED BY <1>1, <2>1 DEF AcceptOffer, TypeOK
<1>5. bookings' \in [DOMAIN bookings' -> BookingRow] /\ DOMAIN bookings' \subseteq BookingIds
  <2>1. [demand |-> d, session |-> s, matched |-> demands[d].matched] \in BookingRow
    BY <1>1 DEF DemandRow, BookingRow
  <2> QED BY <1>1, <2>1, SaveTypes DEF AcceptOffer, InsertBooking
<1> QED BY <1>2, <1>3, <1>4, <1>5 DEF AcceptOffer, TypeOK, workers

\* The session handlers.
LEMMA SessionHandlersType ==
  ASSUME TypeOK, NEW p \in Requests,
         \/ \E s \in SessionIds : Start(p, s) \/ Heartbeat(p, s)
                                  \/ \E next \in SessionStates : TransitionState(p, s, next)
         \/ SaveHeartbeat(p) \/ SaveTransition(p) \/ SavePresence(p) \/ DeletePresence(p)
  PROVE  TypeOK'
<1>1. ASSUME NEW s \in SessionIds, Start(p, s) PROVE TypeOK'
  <2> DEFINE row == [state |-> "active", seats |-> Capacity[s]]
  <2>1. row \in SessionRow
    BY CapacityAssumption DEF SessionRow, SessionStates
  <2>2. [op |-> "savePresence", session |-> s, row |-> row] \in Task
    BY <2>1 DEF Task
  <2> QED BY <1>1, <2>1, <2>2, ContinueType, SaveTypes DEF Start, TypeOK, workers
<1>2. ASSUME NEW s \in SessionIds, Heartbeat(p, s) PROVE TypeOK'
  <2>1. [op |-> "saveHeartbeat", session |-> s, row |-> sessions[s]] \in Task
    BY <1>2 DEF Heartbeat, TypeOK, Task
  <2> QED BY <1>2, <2>1, ContinueType DEF Heartbeat, TypeOK, store, workers
<1>3. ASSUME NEW s \in SessionIds, NEW next \in SessionStates, TransitionState(p, s, next)
      PROVE  TypeOK'
  <2>1. Moved(sessions[s], next) \in SessionRow
    BY <1>3 DEF TransitionState, TypeOK, Moved, SessionRow, SessionStates
  <2>2. [op |-> "saveTransition", session |-> s, row |-> Moved(sessions[s], next)] \in Task
    BY <2>1 DEF Task
  <2> QED BY <1>3, <2>2, ContinueType DEF TransitionState, TypeOK, store, workers
<1>4. CASE SaveHeartbeat(p)
  BY <1>4, TaskType, ContinueType, SaveTypes DEF SaveHeartbeat, TypeOK, workers
<1>5. CASE SaveTransition(p)
  <2>1. task[p].session \in SessionIds /\ [op |-> "deletePresence", session |-> task[p].session] \in Task
    BY <1>5, TaskType DEF SaveTransition, Task
  <2> QED BY <1>5, <2>1, TaskType, ContinueType, SaveTypes DEF SaveTransition, TypeOK, workers
<1>6. Idle \in Task
  BY DEF Task
<1>7. CASE SavePresence(p)
  BY <1>6, <1>7, TaskType, ContinueType, SaveTypes DEF SavePresence, TypeOK, workers
<1>8. CASE DeletePresence(p)
  BY <1>6, <1>8, ContinueType, SaveTypes DEF DeletePresence, TypeOK, workers
<1> QED BY <1>1, <1>2, <1>3, <1>4, <1>5, <1>7, <1>8

\* The demand handlers and the decline.
LEMMA DemandHandlersType ==
  ASSUME TypeOK, NEW p \in Requests,
         \/ \E d \in DemandIds : CreateDemand(p, d) \/ CancelDemand(p, d)
         \/ \E o \in OfferIds : DeclineOffer(p, o) \/ SaveOffer(p, o)
         \/ ChooseCandidate(p) \/ NoCandidate(p) \/ SaveOffered(p)
         \/ SaveDemand(p) \/ SaveDecline(p) \/ AbandonRequest(p)
  PROVE  TypeOK'
<1>0. Idle \in Task
  BY DEF Task
<1>1. ASSUME NEW d \in DemandIds, CreateDemand(p, d) PROVE TypeOK'
  <2>1. /\ [state |-> "searching", matched |-> FALSE] \in DemandRow
        /\ [op |-> "runMatch", demand |-> d] \in Task
    BY DEF DemandRow, DemandStates, Task
  <2> QED BY <1>1, <2>1, ContinueType, SaveTypes DEF CreateDemand, TypeOK, workers
<1>2. ASSUME NEW d \in DemandIds, CancelDemand(p, d) PROVE TypeOK'
  <2>1. [demands[d] EXCEPT !.state = "canceled"] \in DemandRow
    BY <1>2 DEF CancelDemand, TypeOK, DemandRow, DemandStates
  <2>2. [op |-> "saveDemand", demand |-> d, row |-> [demands[d] EXCEPT !.state = "canceled"]] \in Task
    BY <2>1 DEF Task
  <2> QED BY <1>2, <2>2, ContinueType DEF CancelDemand, TypeOK, store, workers
<1>3. ASSUME NEW o \in OfferIds, DeclineOffer(p, o) PROVE TypeOK'
  <2>1. [offers[o] EXCEPT !.state = "declined"] \in OfferRow
    BY <1>3 DEF DeclineOffer, TypeOK, OfferRow, OfferStates
  <2>2. [op |-> "saveDecline", offer |-> o, row |-> [offers[o] EXCEPT !.state = "declined"]] \in Task
    BY <2>1 DEF Task
  <2> QED BY <1>3, <2>2, ContinueType DEF DeclineOffer, TypeOK, store, workers
<1>4. ASSUME NEW o \in OfferIds, SaveOffer(p, o) PROVE TypeOK'
  <2>1. task[p].demand \in DemandIds /\ task[p].session \in SessionIds
    BY <1>4, TaskType DEF SaveOffer
  <2>2. /\ [state |-> "pending", demand |-> task[p].demand, session |-> task[p].session] \in OfferRow
        /\ [op |-> "saveOffered", demand |-> task[p].demand] \in Task
    BY <2>1 DEF OfferRow, OfferStates, Task
  <2> QED BY <1>4, <2>2, ContinueType, SaveTypes DEF SaveOffer, TypeOK, workers
<1>5. CASE ChooseCandidate(p)
  <2>1. PICK table \in {presence, sessions} : \E s \in Listed(table) :
          Continue(p, [op |-> "saveOffer", demand |-> task[p].demand, session |-> s])
    BY <1>5 DEF ChooseCandidate
  <2>2. PICK s \in Listed(table) :
          Continue(p, [op |-> "saveOffer", demand |-> task[p].demand, session |-> s])
    BY <2>1
  <2>3. s \in SessionIds /\ task[p].demand \in DemandIds
    BY <1>5, TaskType DEF Listed, TypeOK, ChooseCandidate
  <2>4. [op |-> "saveOffer", demand |-> task[p].demand, session |-> s] \in Task
    BY <2>3 DEF Task
  <2> QED BY <1>5, <2>2, <2>4, ContinueType DEF ChooseCandidate, TypeOK, store, workers
<1>6. CASE NoCandidate(p) \/ AbandonRequest(p)
  BY <1>0, <1>6, ContinueType DEF NoCandidate, AbandonRequest, TypeOK, store, workers
<1>7. CASE SaveOffered(p)
  <2>1. [state |-> "offered", matched |-> TRUE] \in DemandRow
    BY DEF DemandRow, DemandStates
  <2> QED BY <1>0, <1>7, <2>1, TaskType, ContinueType, SaveTypes DEF SaveOffered, TypeOK, workers
<1>8. CASE SaveDemand(p)
  BY <1>0, <1>8, TaskType, ContinueType, SaveTypes DEF SaveDemand, TypeOK, workers
<1>9. CASE SaveDecline(p)
  BY <1>0, <1>9, TaskType, ContinueType, SaveTypes DEF SaveDecline, TypeOK, workers
<1> QED BY <1>1, <1>2, <1>3, <1>4, <1>5, <1>6, <1>7, <1>8, <1>9

\* What the sweeper holds is of the kind its next call says.
LEMMA SweepCallType ==
  ASSUME TypeOK
  PROVE  /\ sweep.todo \subseteq OfferIds /\ sweep.due \subseteq OfferIds
         /\ sweep.call \in SweepCall
         /\ sweep.call.at \in {"session", "transition", "reset"} => sweep.call.offer \in OfferIds
         /\ sweep.call.at \in {"session", "reset"} => sweep.call.copy \in DemandRow
         /\ sweep.call.at = "transition" =>
              /\ sweep.call.verdict \in {"expired", "withdrawn"}
              /\ sweep.call.copy \in DemandRow \cup {NoDemand}
BY DEF TypeOK, SweepState, SweepCall

\* A sweeper that goes on with a call is in a state of its own.
LEMMA SweepCallsType ==
  ASSUME TypeOK, NEW c \in SweepCall, SweepCalls(c)
  PROVE  sweep' \in SweepState
BY DEF TypeOK, SweepCalls, SweepState

\* The offer sweeper.
LEMMA SweeperType ==
  ASSUME TypeOK, ForeignKeys,
         Sweeper \/ SweepCrashes \/ \E o \in OfferIds : OfferTTLElapses(o)
  PROVE  TypeOK'
<1>0. Asleep \in SweepCall /\ AtList \in SweepCall
  BY DEF SweepCall, Asleep, AtList
<1>1. CASE SweepStart
  <2>1. PendingOffers \subseteq OfferIds /\ DueOffers \subseteq OfferIds
    BY DEF PendingOffers, DueOffers, TypeOK
  <2> QED BY <1>0, <1>1, <2>1 DEF SweepStart, TypeOK, store, SweepState
<1>2. CASE SweepDone \/ SweepCrashes
  BY <1>0, <1>2 DEF SweepDone, SweepCrashes, TypeOK, store, SweepState
<1>3. CASE SweepWithdraws
  <2>1. [at |-> "transition", offer |-> sweep.call.offer, verdict |-> "withdrawn",
         copy |-> sweep.call.copy] \in SweepCall
    BY <1>3, SweepCallType DEF SweepWithdraws, SweepCall
  <2> QED BY <1>3, <2>1, SweepCallsType DEF SweepWithdraws, TypeOK, store
<1>4. CASE SweepSkips \/ SweepTransitionFails
  BY <1>0, <1>4, SweepCallsType DEF SweepSkips, SweepTransitionFails, TypeOK, store
<1>5. ASSUME NEW o \in OfferIds, SweepReadDemand(o) PROVE TypeOK'
  <2> DEFINE live(copy) == copy.state \in {"draft", "searching", "offered"}
             session(copy) == [at |-> "session", offer |-> o, copy |-> copy]
             transition(copy) == [at |-> "transition", offer |-> o, copy |-> copy,
                                  verdict |-> IF o \in sweep.due THEN "expired" ELSE "withdrawn"]
  <2>1. PICK copy \in {demands[offers[o].demand], NoDemand} :
          sweep' = [todo |-> sweep.todo \ {o}, due |-> sweep.due \ {o},
                    call |-> IF o \notin sweep.due /\ live(copy) THEN session(copy)
                                                                 ELSE transition(copy)]
    BY <1>5 DEF SweepReadDemand, AsksForDriver
  <2>2. copy \in DemandRow \cup {NoDemand} /\ (live(copy) => copy \in DemandRow)
    BY <1>5, <2>1 DEF SweepReadDemand, ForeignKeys, RowKeys, WorkerKeys, TypeOK, NoDemand
  <2>3. transition(copy) \in SweepCall /\ (live(copy) => session(copy) \in SweepCall)
    BY <2>2 DEF SweepCall
  <2>4. sweep' \in SweepState
    BY <2>1, <2>3, SweepCallType DEF SweepState
  <2> QED BY <1>5, <2>4 DEF SweepReadDemand, TypeOK, store
<1>6. CASE SweepTransition
  <2>1. /\ sweep.call.offer \in DOMAIN offers
        /\ sweep.call.verdict \in OfferStates
        /\ offers[sweep.call.offer] \in OfferRow
    BY <1>6, SweepCallType DEF SweepTransition, ForeignKeys, WorkerKeys, TypeOK, OfferStates
  <2>2. [offers[sweep.call.offer] EXCEPT !.state = sweep.call.verdict] \in OfferRow
    BY <2>1 DEF OfferRow
  <2>3. offers' \in [DOMAIN offers' -> OfferRow] /\ DOMAIN offers' \subseteq OfferIds
    BY <1>6, <2>1, <2>2 DEF SweepTransition, TransitionPending, TypeOK
  <2>4. Requeue \in SweepCall
    <3>1. Requeues(sweep.call.copy) => sweep.call.copy \in DemandRow
      BY <1>6, SweepCallType DEF SweepTransition, Requeues, NoDemand
    <3> QED BY <1>0, <1>6, <3>1, SweepCallType DEF SweepTransition, Requeue, SweepCall
  <2> QED BY <1>6, <2>3, <2>4, SweepCallsType DEF SweepTransition, TypeOK
<1>7. CASE SweepResetsDemand
  <2>1. /\ [sweep.call.copy EXCEPT !.state = "searching"] \in DemandRow
        /\ offers[sweep.call.offer].demand \in DemandIds
    BY <1>7, SweepCallType
       DEF SweepResetsDemand, ForeignKeys, WorkerKeys, TypeOK, DemandRow, DemandStates, OfferRow
  <2> QED BY <1>0, <1>7, <2>1, SweepCallsType, SaveTypes DEF SweepResetsDemand, TypeOK
<1>8. ASSUME NEW o \in OfferIds, OfferTTLElapses(o) PROVE TypeOK'
  BY <1>8 DEF OfferTTLElapses, TypeOK, store, workers
<1> QED BY <1>1, <1>2, <1>3, <1>4, <1>5, <1>6, <1>7, <1>8 DEF Sweeper

\* The presence reconciler and the expiry of keys.
LEMMA ReconcilerType ==
  ASSUME TypeOK, Reconciler \/ ReconcileFails \/ \E s \in SessionIds : PresenceExpires(s)
  PROVE  TypeOK'
<1>0. Asleep \in ReconcileState
  BY DEF ReconcileState
<1>1. CASE ReconcileStart
  <2>1. PICK stale \in SUBSET Listed(sessions) \ {{}} :
          reconcile' = [at |-> "pause",
                        todo |-> {[session |-> s, row |-> sessions[s]] : s \in stale}]
    BY <1>1 DEF ReconcileStart
  <2>2. {[session |-> s, row |-> sessions[s]] : s \in stale} \subseteq Stale
    BY DEF Listed, TypeOK, Stale
  <2> QED BY <1>1, <2>1, <2>2 DEF ReconcileStart, ReconcileState, TypeOK, store
<1>2. CASE ReconcilePauses
  <2>1. PICK item \in reconcile.todo :
          /\ sessions' = Upsert(sessions, item.session, [item.row EXCEPT !.state = "paused"])
          /\ reconcile' = [at |-> "delete", todo |-> reconcile.todo \ {item},
                           session |-> item.session]
    BY <1>2 DEF ReconcilePauses
  <2>2. reconcile.todo \subseteq Stale
    BY <1>2 DEF ReconcilePauses, TypeOK, ReconcileState, Asleep
  <2>3. item.session \in SessionIds /\ [item.row EXCEPT !.state = "paused"] \in SessionRow
    BY <2>2 DEF Stale, SessionRow, SessionStates
  <2>4. reconcile' \in ReconcileState
    BY <2>1, <2>2, <2>3 DEF ReconcileState
  <2> QED BY <1>2, <2>1, <2>3, <2>4, SaveTypes DEF ReconcilePauses, TypeOK
<1>3. CASE ReconcileDeletes
  <2>1. reconcile.todo \subseteq Stale
    BY <1>3 DEF ReconcileDeletes, TypeOK, ReconcileState, Asleep
  <2>2. reconcile' \in ReconcileState
    BY <1>0, <1>3, <2>1 DEF ReconcileDeletes, ReconcileState
  <2> QED BY <1>3, <2>2, SaveTypes DEF ReconcileDeletes, TypeOK
<1>4. CASE ReconcileFails
  BY <1>0, <1>4 DEF ReconcileFails, TypeOK, store
<1>5. ASSUME NEW s \in SessionIds, PresenceExpires(s) PROVE TypeOK'
  BY <1>5, SaveTypes DEF PresenceExpires, TypeOK, workers
<1> QED BY <1>1, <1>2, <1>3, <1>4, <1>5 DEF Reconciler
=============================================================================
