-------------------------- MODULE OfferAcceptorProofs --------------------------
(***************************************************************************)
(* The acceptance is atomic, for any number of offers, sessions, demands   *)
(* and requests.  The argument: who is past a FOR UPDATE owns the row, and *)
(* no other writer touches an owned row, so that what the transaction read *)
(* is what the row still says when it commits.                             *)
(***************************************************************************)
EXTENDS OfferAcceptor, TLAPS

HoldsOffer   == {"lockSession", "lockDemand", "write", "commit"}
HoldsSession == {"lockDemand", "write", "commit"}
Inserting    == {"shareDemand", "shareSession"}

\* A demand is saved in one of these states, matched only by the acceptance.
SavedStates == {"canceled", "offered", "searching"}

\* What a worker remembers at each of its statements.
JobRow ==
  {Idle, Done}
  \cup [at : {"lockOffer", "lockSession", "saveDecline"} \cup Inserting, offer : Offers]
  \cup [at : HoldsSession, offer : Offers, session : SessionRow]
  \cup [at : {"saveSession"}, id : Sessions, session : SessionRow]
  \cup [at : {"saveDemand"}, demand : Demands, state : SavedStates]
  \cup [at : {"transition"}, offer : Offers, reset : BOOLEAN]

\* Who has read a row FOR UPDATE owns it, and found a seat in it.
OwnsWhatItRead == \A w \in Workers :
  /\ job[w].at \in HoldsOffer => owner[job[w].offer] = w
  /\ job[w].at \in HoldsSession =>
       owner[SessionOf[job[w].offer]] = w /\ job[w].session.seats > 0

\* An offer that somebody inserts is new, and nobody else's; one that somebody
\* declines is not.
OffersAreNew == \A w \in Workers :
  /\ job[w].at \in Inserting =>
       /\ offers[job[w].offer] = "none"
       /\ \A v \in Workers : job[v].at \in Inserting /\ job[v].offer = job[w].offer => v = w
  /\ At(w, "saveDecline") => offers[job[w].offer] # "none"

AcceptorInv ==
  /\ TypeOK /\ job \in [Workers -> JobRow]
  /\ OwnsWhatItRead /\ OffersAreNew /\ CopiesAreCurrent /\ OfferBookedOnce

\* The fields a job has, by the statement it is at.
JobShape(w) ==
  /\ job[w] \in JobRow
  /\ job[w].at \in {"lockOffer", "saveDecline", "transition"} \cup HoldsOffer \cup Inserting => job[w].offer \in Offers
  /\ job[w].at \in HoldsSession \cup {"saveSession"} => job[w].session \in SessionRow
  /\ At(w, "saveSession") => job[w].id \in Sessions
  /\ At(w, "saveDemand") => job[w].demand \in Demands /\ job[w].state \in SavedStates

LEMMA JobShapes ==
  ASSUME job \in [Workers -> JobRow], NEW w \in Workers
  PROVE  JobShape(w)
  BY DEF JobShape, JobRow, Idle, Done, At, HoldsOffer, HoldsSession, Inserting

-----------------------------------------------------------------------------
(* The steps *)

\* Who commits lets go of his own rows only.
LEMMA GoOnKeepsOwners ==
  ASSUME AcceptorInv, NEW w \in Workers, NEW then, GoOn(w, then), then.at \notin HoldsOffer
  PROVE  OwnsWhatItRead'
<1>1. \A v \in Workers : JobShape(v)
  BY JobShapes DEF AcceptorInv
<1>0. HoldsSession \subseteq HoldsOffer
  BY DEF HoldsSession, HoldsOffer
<1>2. SUFFICES ASSUME NEW v \in Workers
               PROVE  /\ job'[v].at \in HoldsOffer => owner'[job'[v].offer] = v
                      /\ job'[v].at \in HoldsSession =>
                           owner'[SessionOf[job'[v].offer]] = v /\ job'[v].session.seats > 0
  BY DEF OwnsWhatItRead
<1>3. CASE v = w
  <2>1. job'[v] = then
    BY <1>3 DEF GoOn, AcceptorInv
  <2> QED
    BY <1>0, <2>1
<1>4. CASE v # w
  <2>1. job'[v] = job[v]
    BY <1>4 DEF GoOn, AcceptorInv
  <2>2. \A r \in Rows : owner[r] = v => owner'[r] = v
    BY <1>4 DEF GoOn, Release
  <2>3. job[v].at \in HoldsOffer => job[v].offer \in Rows /\ SessionOf[job[v].offer] \in Rows
    BY <1>1, AcceptorAssumption DEF JobShape, Rows
  <2> QED
    BY <1>0, <2>1, <2>2, <2>3 DEF AcceptorInv, OwnsWhatItRead
<1> QED
  BY <1>3, <1>4

LEMMA EndKeepsOwners ==
  ASSUME AcceptorInv, NEW w \in Workers, End(w)
  PROVE  OwnsWhatItRead'
  BY GoOnKeepsOwners DEF End, Done, HoldsOffer

\* A request that saves a demand next is at a statement like any other.
LEMMA DemandSaveIsJob ==
  ASSUME NEW d \in Demands, NEW state \in SavedStates
  PROVE  /\ DemandSave(d, state) \in JobRow
         /\ DemandSave(d, state).at = "saveDemand"
  BY DEF DemandSave, JobRow

LEMMA BeginAcceptKeeps ==
  ASSUME AcceptorInv, NEW w \in Workers, NEW o \in Offers, BeginAccept(w, o)
  PROVE  AcceptorInv'
<1> USE AcceptorAssumption DEF AcceptorInv
<1>a. \A v \in Workers : JobShape(v)
  BY JobShapes
<1>b. /\ job'[w] \in JobRow
      /\ job' \in [Workers -> JobRow]
      /\ \A v \in Workers : v # w => job'[v] = job[v]
  BY <1>a DEF BeginAccept, At, tables, locks, JobRow, JobShape, Idle, Done, TypeOK, HoldsOffer, HoldsSession, Inserting
<1>1. TypeOK'
  BY <1>a, <1>b DEF BeginAccept, At, tables, locks, TypeOK, Rows, SessionRow, OfferStates, SessionStates, DemandStates, Steps, JobRow, JobShape, Idle, Done, HoldsOffer, HoldsSession, Inserting
<1>2. OwnsWhatItRead'
  BY <1>a, <1>b DEF BeginAccept, At, tables, locks, OwnsWhatItRead, JobShape, Idle, Done, TypeOK, Rows, HoldsOffer, HoldsSession, Inserting
<1>3. OffersAreNew'
  BY <1>a, <1>b DEF BeginAccept, At, tables, locks, OffersAreNew, JobShape, Idle, Done, TypeOK, HoldsOffer, HoldsSession, Inserting
<1>4. CopiesAreCurrent'
  BY <1>a, <1>b DEF BeginAccept, At, tables, locks, CopiesAreCurrent, OwnsWhatItRead, JobShape, Idle, Done, TypeOK, Rows, HoldsOffer, HoldsSession, Inserting
<1>5. OfferBookedOnce'
  BY <1>a, <1>b DEF BeginAccept, At, tables, locks, OfferBookedOnce, CopiesAreCurrent, OffersAreNew, JobShape, Idle, Done, TypeOK, HoldsOffer, HoldsSession, Inserting
<1> QED
  BY <1>b, <1>1, <1>2, <1>3, <1>4, <1>5

LEMMA LockOfferKeeps ==
  ASSUME AcceptorInv, NEW w \in Workers, LockOffer(w)
  PROVE  AcceptorInv'
<1> USE AcceptorAssumption DEF AcceptorInv
<1>a. \A v \in Workers : JobShape(v)
  BY JobShapes
<1>b. /\ job'[w] \in JobRow
      /\ job' \in [Workers -> JobRow]
      /\ \A v \in Workers : v # w => job'[v] = job[v]
  BY <1>a DEF LockOffer, Lock, MayLock, At, tables, locks, JobRow, JobShape, Idle, Done, TypeOK, HoldsOffer, HoldsSession, Inserting
<1>1. TypeOK'
  BY <1>a, <1>b DEF LockOffer, Lock, MayLock, At, tables, locks, TypeOK, Rows, SessionRow, OfferStates, SessionStates, DemandStates, Steps, JobRow, JobShape, Idle, Done, HoldsOffer, HoldsSession, Inserting, OfferMayBecome
<1>2. OwnsWhatItRead'
  BY <1>a, <1>b DEF LockOffer, Lock, MayLock, At, tables, locks, OwnsWhatItRead, JobShape, Idle, Done, TypeOK, Rows, HoldsOffer, HoldsSession, Inserting
<1>3. OffersAreNew'
  BY <1>a, <1>b DEF LockOffer, Lock, MayLock, At, tables, locks, OffersAreNew, JobShape, Idle, Done, TypeOK, HoldsOffer, HoldsSession, Inserting, OfferMayBecome
<1>4. CopiesAreCurrent'
  BY <1>a, <1>b DEF LockOffer, Lock, MayLock, At, tables, locks, CopiesAreCurrent, OwnsWhatItRead, JobShape, Idle, Done, TypeOK, Rows, HoldsOffer, HoldsSession, Inserting, OfferMayBecome
<1>5. OfferBookedOnce'
  BY <1>a, <1>b DEF LockOffer, Lock, MayLock, At, tables, locks, OfferBookedOnce, CopiesAreCurrent, OffersAreNew, JobShape, Idle, Done, TypeOK, HoldsOffer, HoldsSession, Inserting, OfferMayBecome
<1> QED
  BY <1>b, <1>1, <1>2, <1>3, <1>4, <1>5

LEMMA LockSessionKeeps ==
  ASSUME AcceptorInv, NEW w \in Workers, LockSession(w)
  PROVE  AcceptorInv'
<1> USE AcceptorAssumption DEF AcceptorInv
<1>a. \A v \in Workers : JobShape(v)
  BY JobShapes
<1>b. /\ job'[w] \in JobRow
      /\ job' \in [Workers -> JobRow]
      /\ \A v \in Workers : v # w => job'[v] = job[v]
  BY <1>a DEF LockSession, Lock, MayLock, At, tables, locks, JobRow, JobShape, Idle, Done, TypeOK, HoldsOffer, HoldsSession, Inserting
<1>1. TypeOK'
  BY <1>a, <1>b DEF LockSession, Lock, MayLock, At, tables, locks, TypeOK, Rows, SessionRow, OfferStates, SessionStates, DemandStates, Steps, JobRow, JobShape, Idle, Done, HoldsOffer, HoldsSession, Inserting
<1>2. OwnsWhatItRead'
  BY <1>a, <1>b DEF LockSession, Lock, MayLock, At, tables, locks, OwnsWhatItRead, JobShape, Idle, Done, TypeOK, Rows, HoldsOffer, HoldsSession, Inserting
<1>3. OffersAreNew'
  BY <1>a, <1>b DEF LockSession, Lock, MayLock, At, tables, locks, OffersAreNew, JobShape, Idle, Done, TypeOK, HoldsOffer, HoldsSession, Inserting
<1>4. CopiesAreCurrent'
  BY <1>a, <1>b DEF LockSession, Lock, MayLock, At, tables, locks, CopiesAreCurrent, OwnsWhatItRead, JobShape, Idle, Done, TypeOK, Rows, HoldsOffer, HoldsSession, Inserting
<1>5. OfferBookedOnce'
  BY <1>a, <1>b DEF LockSession, Lock, MayLock, At, tables, locks, OfferBookedOnce, CopiesAreCurrent, OffersAreNew, JobShape, Idle, Done, TypeOK, HoldsOffer, HoldsSession, Inserting
<1> QED
  BY <1>b, <1>1, <1>2, <1>3, <1>4, <1>5

LEMMA LockDemandKeeps ==
  ASSUME AcceptorInv, NEW w \in Workers, LockDemand(w)
  PROVE  AcceptorInv'
<1> USE AcceptorAssumption DEF AcceptorInv
<1>a. \A v \in Workers : JobShape(v)
  BY JobShapes
<1>b. /\ job'[w] \in JobRow
      /\ job' \in [Workers -> JobRow]
      /\ \A v \in Workers : v # w => job'[v] = job[v]
  BY <1>a DEF LockDemand, Lock, MayLock, At, tables, locks, JobRow, JobShape, Idle, Done, TypeOK, HoldsOffer, HoldsSession, Inserting
<1>1. TypeOK'
  BY <1>a, <1>b DEF LockDemand, Lock, MayLock, At, tables, locks, TypeOK, Rows, SessionRow, OfferStates, SessionStates, DemandStates, Steps, JobRow, JobShape, Idle, Done, HoldsOffer, HoldsSession, Inserting
<1>2. OwnsWhatItRead'
  BY <1>a, <1>b DEF LockDemand, Lock, MayLock, At, tables, locks, OwnsWhatItRead, JobShape, Idle, Done, TypeOK, Rows, HoldsOffer, HoldsSession, Inserting
<1>3. OffersAreNew'
  BY <1>a, <1>b DEF LockDemand, Lock, MayLock, At, tables, locks, OffersAreNew, JobShape, Idle, Done, TypeOK, HoldsOffer, HoldsSession, Inserting
<1>4. CopiesAreCurrent'
  BY <1>a, <1>b DEF LockDemand, Lock, MayLock, At, tables, locks, CopiesAreCurrent, OwnsWhatItRead, JobShape, Idle, Done, TypeOK, Rows, HoldsOffer, HoldsSession, Inserting
<1>5. OfferBookedOnce'
  BY <1>a, <1>b DEF LockDemand, Lock, MayLock, At, tables, locks, OfferBookedOnce, CopiesAreCurrent, OffersAreNew, JobShape, Idle, Done, TypeOK, HoldsOffer, HoldsSession, Inserting
<1> QED
  BY <1>b, <1>1, <1>2, <1>3, <1>4, <1>5

LEMMA WriteKeeps ==
  ASSUME AcceptorInv, NEW w \in Workers, Write(w)
  PROVE  AcceptorInv'
<1> USE AcceptorAssumption DEF AcceptorInv
<1>a. \A v \in Workers : JobShape(v)
  BY JobShapes
<1>b. /\ job'[w] \in JobRow
      /\ job' \in [Workers -> JobRow]
      /\ \A v \in Workers : v # w => job'[v] = job[v]
  BY <1>a DEF Write, At, tables, locks, JobRow, JobShape, Idle, Done, TypeOK, HoldsOffer, HoldsSession, Inserting
<1>1. TypeOK'
  BY <1>a, <1>b DEF Write, At, tables, locks, TypeOK, Rows, SessionRow, OfferStates, SessionStates, DemandStates, Steps, JobRow, JobShape, Idle, Done, HoldsOffer, HoldsSession, Inserting
<1>2. OwnsWhatItRead'
  BY <1>a, <1>b DEF Write, At, tables, locks, OwnsWhatItRead, JobShape, Idle, Done, TypeOK, Rows, HoldsOffer, HoldsSession, Inserting
<1>3. OffersAreNew'
  BY <1>a, <1>b DEF Write, At, tables, locks, OffersAreNew, JobShape, Idle, Done, TypeOK, HoldsOffer, HoldsSession, Inserting
<1>4. CopiesAreCurrent'
  BY <1>a, <1>b DEF Write, At, tables, locks, CopiesAreCurrent, OwnsWhatItRead, JobShape, Idle, Done, TypeOK, Rows, HoldsOffer, HoldsSession, Inserting
<1>5. OfferBookedOnce'
  BY <1>a, <1>b DEF Write, At, tables, locks, OfferBookedOnce, CopiesAreCurrent, OffersAreNew, JobShape, Idle, Done, TypeOK, HoldsOffer, HoldsSession, Inserting
<1> QED
  BY <1>b, <1>1, <1>2, <1>3, <1>4, <1>5

LEMMA CommitKeeps ==
  ASSUME AcceptorInv, NEW w \in Workers, Commit(w)
  PROVE  AcceptorInv'
<1> USE AcceptorAssumption DEF AcceptorInv
<1>a. \A v \in Workers : JobShape(v)
  BY JobShapes
<1>b. /\ job'[w] \in JobRow
      /\ job' \in [Workers -> JobRow]
      /\ \A v \in Workers : v # w => job'[v] = job[v]
  BY <1>a DEF Commit, At, End, GoOn, Release, JobRow, JobShape, Idle, Done, TypeOK, HoldsOffer, HoldsSession, Inserting
<1>c. Taken(job[w].session) \in SessionRow
  BY <1>a DEF Commit, Taken, At, JobShape, OwnsWhatItRead, HoldsSession, SessionRow, SessionStates
<1>d. job[w].offer \in Offers /\ SessionOf[job[w].offer] \in Sessions /\ DemandOf[job[w].offer] \in Demands
  BY <1>a DEF Commit, At, JobShape, HoldsOffer
<1>1. TypeOK'
  BY <1>a, <1>b, <1>c, <1>d DEF Commit, At, End, GoOn, Release, TypeOK, Rows, SessionRow, OfferStates, SessionStates, DemandStates, Steps, JobRow, JobShape, Idle, Done, HoldsOffer, HoldsSession, Inserting
<1>2. OwnsWhatItRead'
  BY EndKeepsOwners DEF Commit
<1>3. OffersAreNew'
  BY <1>a, <1>b DEF Commit, At, End, GoOn, Release, OffersAreNew, CopiesAreCurrent, JobShape, Idle, Done, TypeOK, HoldsOffer, HoldsSession, Inserting
<1>4. CopiesAreCurrent'
  BY <1>a, <1>b DEF Commit, At, End, GoOn, Release, CopiesAreCurrent, OwnsWhatItRead, JobShape, Idle, Done, TypeOK, Rows, HoldsOffer, HoldsSession, Inserting
<1>5. OfferBookedOnce'
  BY <1>a, <1>b DEF Commit, At, End, GoOn, Release, OfferBookedOnce, CopiesAreCurrent, OffersAreNew, JobShape, Idle, Done, TypeOK, HoldsOffer, HoldsSession, Inserting
<1> QED
  BY <1>b, <1>1, <1>2, <1>3, <1>4, <1>5

LEMMA RollbackKeeps ==
  ASSUME AcceptorInv, NEW w \in Workers, Rollback(w)
  PROVE  AcceptorInv'
<1> USE AcceptorAssumption DEF AcceptorInv
<1>a. \A v \in Workers : JobShape(v)
  BY JobShapes
<1>b. /\ job'[w] \in JobRow
      /\ job' \in [Workers -> JobRow]
      /\ \A v \in Workers : v # w => job'[v] = job[v]
  BY <1>a DEF Rollback, At, End, GoOn, Release, tables, JobRow, JobShape, Idle, Done, TypeOK, HoldsOffer, HoldsSession, Inserting
<1>1. TypeOK'
  BY <1>a, <1>b DEF Rollback, At, End, GoOn, Release, tables, TypeOK, Rows, SessionRow, OfferStates, SessionStates, DemandStates, Steps, JobRow, JobShape, Idle, Done, HoldsOffer, HoldsSession, Inserting
<1>2. OwnsWhatItRead'
  BY <1>a, <1>b DEF Rollback, At, End, GoOn, Release, tables, OwnsWhatItRead, JobShape, Idle, Done, TypeOK, Rows, HoldsOffer, HoldsSession, Inserting
<1>3. OffersAreNew'
  BY <1>a, <1>b DEF Rollback, At, End, GoOn, Release, tables, OffersAreNew, JobShape, Idle, Done, TypeOK, HoldsOffer, HoldsSession, Inserting
<1>4. CopiesAreCurrent'
  BY <1>a, <1>b DEF Rollback, At, End, GoOn, Release, tables, CopiesAreCurrent, OwnsWhatItRead, JobShape, Idle, Done, TypeOK, Rows, HoldsOffer, HoldsSession, Inserting
<1>5. OfferBookedOnce'
  BY <1>a, <1>b DEF Rollback, At, End, GoOn, Release, tables, OfferBookedOnce, CopiesAreCurrent, OffersAreNew, JobShape, Idle, Done, TypeOK, HoldsOffer, HoldsSession, Inserting
<1> QED
  BY <1>b, <1>1, <1>2, <1>3, <1>4, <1>5

LEMMA ReadSessionKeeps ==
  ASSUME AcceptorInv, NEW w \in Workers, NEW s \in Sessions, ReadSession(w, s)
  PROVE  AcceptorInv'
<1> USE AcceptorAssumption DEF AcceptorInv
<1>a. \A v \in Workers : JobShape(v)
  BY JobShapes
<1>b. /\ job'[w] \in JobRow
      /\ job' \in [Workers -> JobRow]
      /\ \A v \in Workers : v # w => job'[v] = job[v]
  BY <1>a DEF ReadSession, At, tables, locks, JobRow, JobShape, Idle, Done, TypeOK, HoldsOffer, HoldsSession, Inserting
<1>1. TypeOK'
  BY <1>a, <1>b DEF ReadSession, At, tables, locks, TypeOK, Rows, SessionRow, OfferStates, SessionStates, DemandStates, Steps, JobRow, JobShape, Idle, Done, HoldsOffer, HoldsSession, Inserting
<1>2. OwnsWhatItRead'
  BY <1>a, <1>b DEF ReadSession, At, tables, locks, OwnsWhatItRead, JobShape, Idle, Done, TypeOK, Rows, HoldsOffer, HoldsSession, Inserting
<1>3. OffersAreNew'
  BY <1>a, <1>b DEF ReadSession, At, tables, locks, OffersAreNew, JobShape, Idle, Done, TypeOK, HoldsOffer, HoldsSession, Inserting
<1>4. CopiesAreCurrent'
  BY <1>a, <1>b DEF ReadSession, At, tables, locks, CopiesAreCurrent, OwnsWhatItRead, JobShape, Idle, Done, TypeOK, Rows, HoldsOffer, HoldsSession, Inserting
<1>5. OfferBookedOnce'
  BY <1>a, <1>b DEF ReadSession, At, tables, locks, OfferBookedOnce, CopiesAreCurrent, OffersAreNew, JobShape, Idle, Done, TypeOK, HoldsOffer, HoldsSession, Inserting
<1> QED
  BY <1>b, <1>1, <1>2, <1>3, <1>4, <1>5

LEMMA SaveSessionKeeps ==
  ASSUME AcceptorInv, NEW w \in Workers, SaveSession(w)
  PROVE  AcceptorInv'
<1> USE AcceptorAssumption DEF AcceptorInv
<1>a. \A v \in Workers : JobShape(v)
  BY JobShapes
<1>b. /\ job'[w] \in JobRow
      /\ job' \in [Workers -> JobRow]
      /\ \A v \in Workers : v # w => job'[v] = job[v]
  BY <1>a DEF SaveSession, MayUpdate, At, End, GoOn, Release, JobRow, JobShape, Idle, Done, TypeOK, HoldsOffer, HoldsSession, Inserting
<1>c. sessions' \in [Sessions -> SessionRow]
  BY <1>a DEF SaveSession, At, JobShape, TypeOK, SessionRow, SessionStates
<1>1. TypeOK'
  BY <1>a, <1>b, <1>c DEF SaveSession, MayUpdate, At, End, GoOn, Release, TypeOK, Rows, SessionRow, OfferStates, SessionStates, DemandStates, Steps, JobRow, JobShape, Idle, Done, HoldsOffer, HoldsSession, Inserting
<1>2. OwnsWhatItRead'
  BY <1>a, <1>b DEF SaveSession, MayUpdate, At, End, GoOn, Release, OwnsWhatItRead, JobShape, Idle, Done, TypeOK, Rows, HoldsOffer, HoldsSession, Inserting
<1>3. OffersAreNew'
  BY <1>a, <1>b DEF SaveSession, MayUpdate, At, End, GoOn, Release, OffersAreNew, JobShape, Idle, Done, TypeOK, HoldsOffer, HoldsSession, Inserting
<1>4. CopiesAreCurrent'
  BY <1>a, <1>b DEF SaveSession, MayUpdate, At, End, GoOn, Release, CopiesAreCurrent, OwnsWhatItRead, JobShape, Idle, Done, TypeOK, Rows, HoldsOffer, HoldsSession, Inserting
<1>5. OfferBookedOnce'
  BY <1>a, <1>b DEF SaveSession, MayUpdate, At, End, GoOn, Release, OfferBookedOnce, CopiesAreCurrent, OffersAreNew, JobShape, Idle, Done, TypeOK, HoldsOffer, HoldsSession, Inserting
<1> QED
  BY <1>b, <1>1, <1>2, <1>3, <1>4, <1>5

LEMMA ReadOfferKeeps ==
  ASSUME AcceptorInv, NEW w \in Workers, NEW o \in Offers, ReadOffer(w, o)
  PROVE  AcceptorInv'
<1> USE AcceptorAssumption DEF AcceptorInv
<1>a. \A v \in Workers : JobShape(v)
  BY JobShapes
<1>b. /\ job'[w] \in JobRow
      /\ job' \in [Workers -> JobRow]
      /\ \A v \in Workers : v # w => job'[v] = job[v]
  BY <1>a DEF ReadOffer, At, tables, locks, JobRow, JobShape, Idle, Done, TypeOK, HoldsOffer, HoldsSession, Inserting
<1>1. TypeOK'
  BY <1>a, <1>b DEF ReadOffer, At, tables, locks, TypeOK, Rows, SessionRow, OfferStates, SessionStates, DemandStates, Steps, JobRow, JobShape, Idle, Done, HoldsOffer, HoldsSession, Inserting, OfferMayBecome
<1>2. OwnsWhatItRead'
  BY <1>a, <1>b DEF ReadOffer, At, tables, locks, OwnsWhatItRead, JobShape, Idle, Done, TypeOK, Rows, HoldsOffer, HoldsSession, Inserting
<1>3. OffersAreNew'
  BY <1>a, <1>b DEF ReadOffer, At, tables, locks, OffersAreNew, JobShape, Idle, Done, TypeOK, HoldsOffer, HoldsSession, Inserting, OfferMayBecome
<1>4. CopiesAreCurrent'
  BY <1>a, <1>b DEF ReadOffer, At, tables, locks, CopiesAreCurrent, OwnsWhatItRead, JobShape, Idle, Done, TypeOK, Rows, HoldsOffer, HoldsSession, Inserting, OfferMayBecome
<1>5. OfferBookedOnce'
  BY <1>a, <1>b DEF ReadOffer, At, tables, locks, OfferBookedOnce, CopiesAreCurrent, OffersAreNew, JobShape, Idle, Done, TypeOK, HoldsOffer, HoldsSession, Inserting, OfferMayBecome
<1> QED
  BY <1>b, <1>1, <1>2, <1>3, <1>4, <1>5

LEMMA SaveDeclineKeeps ==
  ASSUME AcceptorInv, NEW w \in Workers, SaveDecline(w)
  PROVE  AcceptorInv'
<1> USE AcceptorAssumption DEF AcceptorInv
<1>a. \A v \in Workers : JobShape(v)
  BY JobShapes
<1>b. /\ job'[w] \in JobRow
      /\ job' \in [Workers -> JobRow]
      /\ \A v \in Workers : v # w => job'[v] = job[v]
  BY <1>a DEF SaveDecline, MayUpdate, At, End, GoOn, Release, JobRow, JobShape, Idle, Done, TypeOK, HoldsOffer, HoldsSession, Inserting
<1>1. TypeOK'
  BY <1>a, <1>b DEF SaveDecline, MayUpdate, At, End, GoOn, Release, TypeOK, Rows, SessionRow, OfferStates, SessionStates, DemandStates, Steps, JobRow, JobShape, Idle, Done, HoldsOffer, HoldsSession, Inserting
<1>2. OwnsWhatItRead'
  BY EndKeepsOwners DEF SaveDecline
<1>3. OffersAreNew'
  BY <1>a, <1>b DEF SaveDecline, MayUpdate, At, End, GoOn, Release, OffersAreNew, JobShape, Idle, Done, TypeOK, HoldsOffer, HoldsSession, Inserting
<1>4. CopiesAreCurrent'
  BY <1>a, <1>b DEF SaveDecline, MayUpdate, At, End, GoOn, Release, CopiesAreCurrent, OwnsWhatItRead, JobShape, Idle, Done, TypeOK, Rows, HoldsOffer, HoldsSession, Inserting
<1>5. OfferBookedOnce'
  BY <1>a, <1>b DEF SaveDecline, MayUpdate, At, End, GoOn, Release, OfferBookedOnce, CopiesAreCurrent, OffersAreNew, JobShape, Idle, Done, TypeOK, HoldsOffer, HoldsSession, Inserting
<1> QED
  BY <1>b, <1>1, <1>2, <1>3, <1>4, <1>5

LEMMA ReadDemandKeeps ==
  ASSUME AcceptorInv, NEW w \in Workers, NEW d \in Demands, ReadDemand(w, d)
  PROVE  AcceptorInv'
<1> USE AcceptorAssumption DEF AcceptorInv
<1>a. \A v \in Workers : JobShape(v)
  BY JobShapes
<1>b. /\ job'[w] \in JobRow
      /\ job' \in [Workers -> JobRow]
      /\ \A v \in Workers : v # w => job'[v] = job[v]
  BY <1>a DEF ReadDemand, DemandSave, At, tables, locks, JobRow, JobShape, Idle, Done, TypeOK, HoldsOffer, HoldsSession, Inserting, SavedStates
<1>1. TypeOK'
  BY <1>a, <1>b DEF ReadDemand, DemandSave, At, tables, locks, TypeOK, Rows, SessionRow, OfferStates, SessionStates, DemandStates, Steps, JobRow, JobShape, Idle, Done, HoldsOffer, HoldsSession, Inserting
<1>2. OwnsWhatItRead'
  BY <1>a, <1>b DEF ReadDemand, DemandSave, At, tables, locks, OwnsWhatItRead, JobShape, Idle, Done, TypeOK, Rows, HoldsOffer, HoldsSession, Inserting
<1>3. OffersAreNew'
  BY <1>a, <1>b DEF ReadDemand, DemandSave, At, tables, locks, OffersAreNew, JobShape, Idle, Done, TypeOK, HoldsOffer, HoldsSession, Inserting
<1>4. CopiesAreCurrent'
  BY <1>a, <1>b DEF ReadDemand, DemandSave, At, tables, locks, CopiesAreCurrent, OwnsWhatItRead, JobShape, Idle, Done, TypeOK, Rows, HoldsOffer, HoldsSession, Inserting
<1>5. OfferBookedOnce'
  BY <1>a, <1>b DEF ReadDemand, DemandSave, At, tables, locks, OfferBookedOnce, CopiesAreCurrent, OffersAreNew, JobShape, Idle, Done, TypeOK, HoldsOffer, HoldsSession, Inserting
<1> QED
  BY <1>b, <1>1, <1>2, <1>3, <1>4, <1>5

LEMMA SaveDemandKeeps ==
  ASSUME AcceptorInv, NEW w \in Workers, SaveDemand(w)
  PROVE  AcceptorInv'
<1> USE AcceptorAssumption DEF AcceptorInv
<1>a. \A v \in Workers : JobShape(v)
  BY JobShapes
<1>b. /\ job'[w] \in JobRow
      /\ job' \in [Workers -> JobRow]
      /\ \A v \in Workers : v # w => job'[v] = job[v]
  BY <1>a DEF SaveDemand, MayUpdate, At, End, GoOn, Release, JobRow, JobShape, Idle, Done, TypeOK, HoldsOffer, HoldsSession, Inserting
<1>1. TypeOK'
  BY <1>a, <1>b DEF SaveDemand, MayUpdate, At, End, GoOn, Release, TypeOK, Rows, SessionRow, OfferStates, SessionStates, DemandStates, SavedStates, Steps, JobRow, JobShape, Idle, Done, HoldsOffer, HoldsSession, Inserting
<1>2. OwnsWhatItRead'
  BY <1>a, <1>b DEF SaveDemand, MayUpdate, At, End, GoOn, Release, OwnsWhatItRead, JobShape, Idle, Done, TypeOK, Rows, HoldsOffer, HoldsSession, Inserting
<1>3. OffersAreNew'
  BY <1>a, <1>b DEF SaveDemand, MayUpdate, At, End, GoOn, Release, OffersAreNew, JobShape, Idle, Done, TypeOK, HoldsOffer, HoldsSession, Inserting
<1>4. CopiesAreCurrent'
  BY <1>a, <1>b DEF SaveDemand, MayUpdate, At, End, GoOn, Release, CopiesAreCurrent, OwnsWhatItRead, JobShape, Idle, Done, TypeOK, Rows, HoldsOffer, HoldsSession, Inserting
<1>5. OfferBookedOnce'
  BY <1>a, <1>b DEF SaveDemand, MayUpdate, At, End, GoOn, Release, OfferBookedOnce, CopiesAreCurrent, OffersAreNew, JobShape, Idle, Done, TypeOK, HoldsOffer, HoldsSession, Inserting
<1> QED
  BY <1>b, <1>1, <1>2, <1>3, <1>4, <1>5

LEMMA ReadPendingKeeps ==
  ASSUME AcceptorInv, NEW w \in Workers, NEW o \in Offers, ReadPending(w, o)
  PROVE  AcceptorInv'
<1> USE AcceptorAssumption DEF AcceptorInv
<1>a. \A v \in Workers : JobShape(v)
  BY JobShapes
<1>b. /\ job'[w] \in JobRow
      /\ job' \in [Workers -> JobRow]
      /\ \A v \in Workers : v # w => job'[v] = job[v]
  BY <1>a DEF ReadPending, At, tables, locks, JobRow, JobShape, Idle, Done, TypeOK, HoldsOffer, HoldsSession, Inserting
<1>1. TypeOK'
  BY <1>a, <1>b DEF ReadPending, At, tables, locks, TypeOK, Rows, SessionRow, OfferStates, SessionStates, DemandStates, Steps, JobRow, JobShape, Idle, Done, HoldsOffer, HoldsSession, Inserting
<1>2. OwnsWhatItRead'
  BY <1>a, <1>b DEF ReadPending, At, tables, locks, OwnsWhatItRead, JobShape, Idle, Done, TypeOK, Rows, HoldsOffer, HoldsSession, Inserting
<1>3. OffersAreNew'
  BY <1>a, <1>b DEF ReadPending, At, tables, locks, OffersAreNew, JobShape, Idle, Done, TypeOK, HoldsOffer, HoldsSession, Inserting
<1>4. CopiesAreCurrent'
  BY <1>a, <1>b DEF ReadPending, At, tables, locks, CopiesAreCurrent, OwnsWhatItRead, JobShape, Idle, Done, TypeOK, Rows, HoldsOffer, HoldsSession, Inserting
<1>5. OfferBookedOnce'
  BY <1>a, <1>b DEF ReadPending, At, tables, locks, OfferBookedOnce, CopiesAreCurrent, OffersAreNew, JobShape, Idle, Done, TypeOK, HoldsOffer, HoldsSession, Inserting
<1> QED
  BY <1>b, <1>1, <1>2, <1>3, <1>4, <1>5

LEMMA TransitionPendingKeeps ==
  ASSUME AcceptorInv, NEW w \in Workers, TransitionPending(w)
  PROVE  AcceptorInv'
<1> USE AcceptorAssumption DEF AcceptorInv
<1>a. \A v \in Workers : JobShape(v)
  BY JobShapes
<1>c. job[w].offer \in Offers /\ DemandOf[job[w].offer] \in Demands
  BY <1>a DEF TransitionPending, At, JobShape, Inserting
<1> DEFINE then == IF job[w].reset THEN DemandSave(DemandOf[job[w].offer], "searching") ELSE Done
<1>d. /\ GoOn(w, then) /\ then \in JobRow
      /\ then.at \in {"done", "saveDemand"}
  BY <1>c, DemandSaveIsJob DEF TransitionPending, Done, JobRow, SavedStates
<1> HIDE DEF then
<1>b. /\ job'[w] = then
      /\ job' \in [Workers -> JobRow]
      /\ \A v \in Workers : v # w => job'[v] = job[v]
  BY <1>d DEF GoOn
<1>1. TypeOK'
  BY <1>a, <1>b, <1>d DEF TransitionPending, GoOn, Release, At, TypeOK, Rows, OfferStates, Steps, JobShape, Inserting
<1>2. OwnsWhatItRead'
  BY <1>d, GoOnKeepsOwners DEF HoldsOffer
<1>3. OffersAreNew'
  BY <1>a, <1>b, <1>d DEF TransitionPending, At, OffersAreNew, JobShape, TypeOK, Inserting
<1>4. CopiesAreCurrent'
  BY <1>a, <1>b, <1>d DEF TransitionPending, MayUpdate, At, CopiesAreCurrent, OwnsWhatItRead, OffersAreNew, JobShape, TypeOK, HoldsOffer,
     HoldsSession, Inserting
<1>5. OfferBookedOnce'
  BY <1>a, <1>b, <1>d DEF TransitionPending, At, OfferBookedOnce, OffersAreNew, JobShape, TypeOK, Inserting
<1> QED
  BY <1>b, <1>1, <1>2, <1>3, <1>4, <1>5

LEMMA TransitionMissesKeeps ==
  ASSUME AcceptorInv, NEW w \in Workers, TransitionMisses(w)
  PROVE  AcceptorInv'
<1> USE AcceptorAssumption DEF AcceptorInv
<1>a. \A v \in Workers : JobShape(v)
  BY JobShapes
<1>b. /\ job'[w] \in JobRow
      /\ job' \in [Workers -> JobRow]
      /\ \A v \in Workers : v # w => job'[v] = job[v]
  BY <1>a DEF TransitionMisses, MayUpdate, At, tables, End, GoOn, Release, JobRow, JobShape, Idle, Done, TypeOK, HoldsOffer, HoldsSession, Inserting
<1>1. TypeOK'
  BY <1>a, <1>b DEF TransitionMisses, MayUpdate, At, tables, End, GoOn, Release, TypeOK, Rows, SessionRow, OfferStates, SessionStates, DemandStates, Steps, JobRow, JobShape, Idle, Done, HoldsOffer, HoldsSession, Inserting
<1>2. OwnsWhatItRead'
  BY <1>a, <1>b DEF TransitionMisses, MayUpdate, At, tables, End, GoOn, Release, OwnsWhatItRead, JobShape, Idle, Done, TypeOK, Rows, HoldsOffer, HoldsSession, Inserting
<1>3. OffersAreNew'
  BY <1>a, <1>b DEF TransitionMisses, MayUpdate, At, tables, End, GoOn, Release, OffersAreNew, JobShape, Idle, Done, TypeOK, HoldsOffer, HoldsSession, Inserting
<1>4. CopiesAreCurrent'
  BY <1>a, <1>b DEF TransitionMisses, MayUpdate, At, tables, End, GoOn, Release, CopiesAreCurrent, OwnsWhatItRead, JobShape, Idle, Done, TypeOK, Rows, HoldsOffer, HoldsSession, Inserting
<1>5. OfferBookedOnce'
  BY <1>a, <1>b DEF TransitionMisses, MayUpdate, At, tables, End, GoOn, Release, OfferBookedOnce, CopiesAreCurrent, OffersAreNew, JobShape, Idle, Done, TypeOK, HoldsOffer, HoldsSession, Inserting
<1> QED
  BY <1>b, <1>1, <1>2, <1>3, <1>4, <1>5

LEMMA BeginInsertKeeps ==
  ASSUME AcceptorInv, NEW w \in Workers, NEW o \in Offers, BeginInsert(w, o)
  PROVE  AcceptorInv'
<1> USE AcceptorAssumption DEF AcceptorInv
<1>a. \A v \in Workers : JobShape(v)
  BY JobShapes
<1>b. /\ job'[w] \in JobRow
      /\ job' \in [Workers -> JobRow]
      /\ \A v \in Workers : v # w => job'[v] = job[v]
  BY <1>a DEF BeginInsert, At, tables, locks, JobRow, JobShape, Idle, Done, TypeOK, HoldsOffer, HoldsSession, Inserting
<1>1. TypeOK'
  BY <1>a, <1>b DEF BeginInsert, At, tables, locks, TypeOK, Rows, SessionRow, OfferStates, SessionStates, DemandStates, Steps, JobRow, JobShape, Idle, Done, HoldsOffer, HoldsSession, Inserting
<1>2. OwnsWhatItRead'
  BY <1>a, <1>b DEF BeginInsert, At, tables, locks, OwnsWhatItRead, JobShape, Idle, Done, TypeOK, Rows, HoldsOffer, HoldsSession, Inserting
<1>3. OffersAreNew'
  BY <1>a, <1>b DEF BeginInsert, At, tables, locks, OffersAreNew, JobShape, Idle, Done, TypeOK, HoldsOffer, HoldsSession, Inserting
<1>4. CopiesAreCurrent'
  BY <1>a, <1>b DEF BeginInsert, At, tables, locks, CopiesAreCurrent, OwnsWhatItRead, JobShape, Idle, Done, TypeOK, Rows, HoldsOffer, HoldsSession, Inserting
<1>5. OfferBookedOnce'
  BY <1>a, <1>b DEF BeginInsert, At, tables, locks, OfferBookedOnce, CopiesAreCurrent, OffersAreNew, JobShape, Idle, Done, TypeOK, HoldsOffer, HoldsSession, Inserting
<1> QED
  BY <1>b, <1>1, <1>2, <1>3, <1>4, <1>5

LEMMA ShareDemandKeeps ==
  ASSUME AcceptorInv, NEW w \in Workers, ShareDemand(w)
  PROVE  AcceptorInv'
<1> USE AcceptorAssumption DEF AcceptorInv
<1>a. \A v \in Workers : JobShape(v)
  BY JobShapes
<1>b. /\ job'[w] \in JobRow
      /\ job' \in [Workers -> JobRow]
      /\ \A v \in Workers : v # w => job'[v] = job[v]
  BY <1>a DEF ShareDemand, Share, MayUpdate, At, tables, JobRow, JobShape, Idle, Done, TypeOK, HoldsOffer, HoldsSession, Inserting
<1>1. TypeOK'
  BY <1>a, <1>b DEF ShareDemand, Share, MayUpdate, At, tables, TypeOK, Rows, SessionRow, OfferStates, SessionStates, DemandStates, Steps, JobRow, JobShape, Idle, Done, HoldsOffer, HoldsSession, Inserting
<1>2. OwnsWhatItRead'
  BY <1>a, <1>b DEF ShareDemand, Share, MayUpdate, At, tables, OwnsWhatItRead, JobShape, Idle, Done, TypeOK, Rows, HoldsOffer, HoldsSession, Inserting
<1>3. OffersAreNew'
  BY <1>a, <1>b DEF ShareDemand, Share, MayUpdate, At, tables, OffersAreNew, JobShape, Idle, Done, TypeOK, HoldsOffer, HoldsSession, Inserting
<1>4. CopiesAreCurrent'
  BY <1>a, <1>b DEF ShareDemand, Share, MayUpdate, At, tables, CopiesAreCurrent, OwnsWhatItRead, JobShape, Idle, Done, TypeOK, Rows, HoldsOffer, HoldsSession, Inserting
<1>5. OfferBookedOnce'
  BY <1>a, <1>b DEF ShareDemand, Share, MayUpdate, At, tables, OfferBookedOnce, CopiesAreCurrent, OffersAreNew, JobShape, Idle, Done, TypeOK, HoldsOffer, HoldsSession, Inserting
<1> QED
  BY <1>b, <1>1, <1>2, <1>3, <1>4, <1>5

LEMMA InsertOfferKeeps ==
  ASSUME AcceptorInv, NEW w \in Workers, InsertOffer(w)
  PROVE  AcceptorInv'
<1> USE AcceptorAssumption DEF AcceptorInv
<1>a. \A v \in Workers : JobShape(v)
  BY JobShapes
<1>c. job[w].offer \in Offers /\ DemandOf[job[w].offer] \in Demands
  BY <1>a DEF InsertOffer, At, JobShape, Inserting
<1> DEFINE then == DemandSave(DemandOf[job[w].offer], "offered")
<1>d. /\ GoOn(w, then) /\ then \in JobRow
      /\ then.at \in {"done", "saveDemand"}
  BY <1>c, DemandSaveIsJob DEF InsertOffer, Done, JobRow, SavedStates
<1> HIDE DEF then
<1>b. /\ job'[w] = then
      /\ job' \in [Workers -> JobRow]
      /\ \A v \in Workers : v # w => job'[v] = job[v]
  BY <1>d DEF GoOn
<1>1. TypeOK'
  BY <1>a, <1>b, <1>d DEF InsertOffer, GoOn, Release, At, TypeOK, Rows, OfferStates, Steps, JobShape, Inserting
<1>2. OwnsWhatItRead'
  BY <1>d, GoOnKeepsOwners DEF HoldsOffer
<1>3. OffersAreNew'
  BY <1>a, <1>b, <1>d DEF InsertOffer, At, OffersAreNew, JobShape, TypeOK, Inserting
<1>4. CopiesAreCurrent'
  BY <1>a, <1>b, <1>d DEF InsertOffer, MayUpdate, At, CopiesAreCurrent, OwnsWhatItRead, OffersAreNew, JobShape, TypeOK, HoldsOffer,
     HoldsSession, Inserting
<1>5. OfferBookedOnce'
  BY <1>a, <1>b, <1>d DEF InsertOffer, At, OfferBookedOnce, OffersAreNew, JobShape, TypeOK, Inserting
<1> QED
  BY <1>b, <1>1, <1>2, <1>3, <1>4, <1>5


LEMMA InitKeeps ==
  ASSUME Init
  PROVE  AcceptorInv
<1>1. TypeOK
  BY DEF Init, TypeOK, Idle, Steps, SessionRow, SessionStates, DemandStates, OfferStates
<1>2. job \in [Workers -> JobRow] /\ \A w \in Workers : job[w].at = "idle"
  BY DEF Init, Idle, JobRow
<1>3. OwnsWhatItRead /\ OffersAreNew /\ CopiesAreCurrent
  BY <1>2 DEF OwnsWhatItRead, OffersAreNew, CopiesAreCurrent, At, HoldsOffer, HoldsSession, Inserting
<1>4. OfferBookedOnce
  BY DEF Init, OfferBookedOnce
<1> QED
  BY <1>1, <1>2, <1>3, <1>4 DEF AcceptorInv

LEMMA NextKeeps ==
  ASSUME AcceptorInv, [Next]_vars
  PROVE  AcceptorInv'
<1>1. CASE UNCHANGED vars
  BY <1>1 DEF vars, tables, locks, AcceptorInv, TypeOK, OwnsWhatItRead, OffersAreNew, CopiesAreCurrent,
              OfferBookedOnce, At
<1>2. ASSUME NEW w \in Workers, Begin(w)
      PROVE  AcceptorInv'
  <2>1. ASSUME NEW o \in Offers, BeginAccept(w, o) \/ ReadOffer(w, o) \/ ReadPending(w, o) \/ BeginInsert(w, o)
        PROVE  AcceptorInv'
    BY <2>1, BeginAcceptKeeps, ReadOfferKeeps, ReadPendingKeeps, BeginInsertKeeps
  <2>2. ASSUME NEW s \in Sessions, ReadSession(w, s)
        PROVE  AcceptorInv'
    BY <2>2, ReadSessionKeeps
  <2>3. ASSUME NEW d \in Demands, ReadDemand(w, d)
        PROVE  AcceptorInv'
    BY <2>3, ReadDemandKeeps
  <2> QED
    BY <1>2, <2>1, <2>2, <2>3 DEF Begin
<1>3. ASSUME NEW w \in Workers, Step(w)
      PROVE  AcceptorInv'
  <2>1. CASE Refuse(w)
    BY <2>1, RollbackKeeps DEF Refuse
  <2> QED
    BY <1>3, <2>1, LockOfferKeeps, LockSessionKeeps, LockDemandKeeps, WriteKeeps, CommitKeeps, SaveSessionKeeps,
       SaveDeclineKeeps, SaveDemandKeeps, ShareDemandKeeps, InsertOfferKeeps,
       TransitionPendingKeeps, TransitionMissesKeeps DEF Step
<1>4. ASSUME NEW w \in Workers, AcceptFails(w)
      PROVE  AcceptorInv'
  BY <1>4, RollbackKeeps DEF AcceptFails
<1> QED
  BY <1>1, <1>2, <1>3, <1>4 DEF Next

-----------------------------------------------------------------------------
(* The theorems *)

\* Whatever acceptances, sweeps, saves and inserts run at once, and wherever one of
\* them fails, the strengthening holds.
THEOREM AcceptorInvariance == Spec => []AcceptorInv
<1>1. Init => AcceptorInv
  BY InitKeeps
<1>2. AcceptorInv /\ [Next]_vars => AcceptorInv'
  BY NextKeeps
<1> QED
  BY <1>1, <1>2, PTL DEF Spec

\* offer_acceptor.go: what the transaction has read is what the rows say until it
\* commits; the FOR UPDATEs are enough.
THEOREM ReadsStayCurrent == Spec => []CopiesAreCurrent
<1>1. AcceptorInv => CopiesAreCurrent
  BY DEF AcceptorInv
<1> QED
  BY <1>1, AcceptorInvariance, PTL

\* No offer is booked twice or offered again once it is booked.
THEOREM NoOfferBookedTwice == Spec => []OfferBookedOnce
<1>1. AcceptorInv => OfferBookedOnce
  BY DEF AcceptorInv
<1> QED
  BY <1>1, AcceptorInvariance, PTL

\* The seats stay between none and the vehicle's, and every table holds its rows.
THEOREM AcceptorTypes == Spec => []TypeOK
<1>1. AcceptorInv => TypeOK
  BY DEF AcceptorInv
<1> QED
  BY <1>1, AcceptorInvariance, PTL

\* The offers as the ledger has them: the made ones, with what they refer to.
Made(rows) == [o \in {o \in Offers : rows[o] # "none"} |->
                 [state |-> rows[o], demand |-> DemandOf[o], session |-> SessionOf[o]]]

BookedDemands(count) == {DemandOf[o] : o \in {o \in Offers : count[o] > 0}}

SeatsOf(rows) == [s \in Sessions |-> rows[s].seats]

MatchedIn(rows) == {d \in Demands : rows[d] = "matched"}

LEMMA InitRefines ==
  ASSUME Init
  PROVE  Ledger!Init
<1>1. \A s \in Sessions : sessions[s].seats \in 0..Capacity
  BY AcceptorAssumption DEF Init
<1>2. MatchedIn(demands) = {} /\ BookedDemands(bookings) = {}
  BY DEF Init, MatchedIn, BookedDemands
<1>3. \A o \in DOMAIN Made(offers) : Made(offers)[o].state = "pending"
  BY DEF Init, Made
<1>4. \A s \in DOMAIN SeatsOf(sessions) : SeatsOf(sessions)[s] \in 0..[t \in Sessions |-> Capacity][s]
  BY <1>1 DEF SeatsOf
<1> QED
  BY <1>2, <1>3, <1>4 DEF Ledger!Init, MatchedIn, BookedDemands, Made, SeatsOf

\* A made offer that changes its state changes it in the ledger.
LEMMA MadeChanges ==
  ASSUME offers \in [Offers -> OfferStates \cup {"none"}], NEW o \in Offers, offers[o] # "none",
         NEW state \in OfferStates, offers' = [offers EXCEPT ![o] = state]
  PROVE  Made(offers') = [Made(offers) EXCEPT ![o].state = state]
<1>1. state # "none"
  BY DEF OfferStates
<1>2. {x \in Offers : offers'[x] # "none"} = {x \in Offers : offers[x] # "none"}
  BY <1>1
<1>3. ASSUME NEW x \in Offers, offers[x] # "none"
      PROVE  Made(offers')[x] = [Made(offers) EXCEPT ![o].state = state][x]
  BY <1>2, <1>3 DEF Made
<1>4. DOMAIN Made(offers') = DOMAIN Made(offers)
  BY <1>2 DEF Made
<1> QED
  BY <1>2, <1>3, <1>4 DEF Made

\* Only the commit moves more than one row, and it is the ledger's Accept.
LEMMA CommitRefines ==
  ASSUME AcceptorInv, NEW w \in Workers, Commit(w)
  PROVE  \E o \in Offers : Ledger!Accept(o)
<1>a. JobShape(w)
  BY JobShapes DEF AcceptorInv
<1>1. PICK o \in Offers : o = job[w].offer
  BY <1>a DEF Commit, At, JobShape, HoldsOffer
<1>2. /\ SessionOf[o] \in Sessions /\ DemandOf[o] \in Demands
      /\ offers[o] = "pending" /\ sessions[SessionOf[o]] = job[w].session /\ job[w].session.seats > 0
  BY <1>a, <1>1, AcceptorAssumption DEF Commit, At, JobShape, AcceptorInv, CopiesAreCurrent, OwnsWhatItRead, HoldsOffer, HoldsSession
<1>3. SeatsOf(sessions') = [SeatsOf(sessions) EXCEPT ![SessionOf[o]] = @ - 1]
  BY <1>1, <1>2 DEF Commit, Taken, AcceptorInv, TypeOK, SeatsOf
<1>4. MatchedIn(demands') = MatchedIn(demands) \cup {DemandOf[o]}
  BY <1>1, <1>2 DEF Commit, AcceptorInv, TypeOK, MatchedIn
<1>5. Made(offers') = [Made(offers) EXCEPT ![o].state = "accepted"]
  BY <1>1, <1>2, MadeChanges DEF Commit, AcceptorInv, TypeOK, OfferStates
<1>6. o \in DOMAIN Made(offers) /\ Made(offers)[o] = [state |-> "pending", demand |-> DemandOf[o], session |-> SessionOf[o]]
  BY <1>2 DEF Made
<1>7. DemandOf[o] \notin BookedDemands(bookings)
  <2>1. ASSUME NEW q \in Offers, bookings[q] > 0, DemandOf[q] = DemandOf[o]
        PROVE  FALSE
    <3>1. q = o
      BY <2>1, AcceptorAssumption
    <3>2. bookings[o] \in Nat /\ bookings[o] <= 1
      BY DEF AcceptorInv, TypeOK, OfferBookedOnce
    <3> QED
      BY <1>2, <2>1, <3>1, <3>2 DEF AcceptorInv, OfferBookedOnce
  <2> QED
    BY <2>1 DEF BookedDemands
<1>8. BookedDemands(bookings') = BookedDemands(bookings) \cup {DemandOf[o]}
  <2>1. bookings \in [Offers -> Nat] /\ bookings' = [bookings EXCEPT ![o] = @ + 1]
    BY <1>1 DEF Commit, AcceptorInv, TypeOK
  <2>2. {q \in Offers : bookings'[q] > 0} = {q \in Offers : bookings[q] > 0} \cup {o}
    BY <2>1
  <2> QED
    BY <2>2 DEF BookedDemands
<1>9. SeatsOf(sessions)[SessionOf[o]] > 0
  BY <1>2 DEF SeatsOf
<1>10. Ledger!Accept(o)
  BY <1>3, <1>4, <1>5, <1>6, <1>7, <1>8, <1>9 DEF Ledger!Accept, Made, SeatsOf, MatchedIn, BookedDemands
<1> QED
  BY <1>10

LEMMA NextRefines ==
  ASSUME AcceptorInv, [Next]_vars
  PROVE  [Ledger!Next]_(Ledger!ledger)
<1>1. ASSUME UNCHANGED tables
      PROVE  UNCHANGED Ledger!ledger
  BY <1>1 DEF tables, Ledger!ledger
<1>0. ASSUME NEW o \in Offers, NEW state \in OfferStates \ {"pending", "accepted"}, offers[o] # "none",
             offers[o] = "pending" \/ state = "declined", offers' = [offers EXCEPT ![o] = state],
             UNCHANGED <<sessions, demands, bookings>>
      PROVE  Ledger!Next
  <2>1. Made(offers') = [Made(offers) EXCEPT ![o].state = state]
    BY <1>0, MadeChanges DEF AcceptorInv, TypeOK
  <2>2. o \in DOMAIN Made(offers) /\ Made(offers)[o].state = offers[o]
    BY <1>0 DEF Made
  <2>3. Ledger!Answer(o, state)
    BY <1>0, <2>1, <2>2 DEF Ledger!Answer, Made
  <2> QED
    BY <2>3 DEF Ledger!Next, Ledger!OfferStates, OfferStates
<1>2. ASSUME NEW w \in Workers, Begin(w)
      PROVE  [Ledger!Next]_(Ledger!ledger)
  BY <1>1, <1>2 DEF Begin, BeginAccept, ReadOffer, ReadPending, BeginInsert, ReadSession, ReadDemand
<1>3. ASSUME NEW w \in Workers, Step(w)
      PROVE  [Ledger!Next]_(Ledger!ledger)
  <2>a. JobShape(w)
    BY JobShapes DEF AcceptorInv
  <2>1. CASE Commit(w)
    BY <2>1, CommitRefines DEF Ledger!Next
  <2>2. CASE SaveSession(w)
    <3>1. PICK t \in Sessions, n \in 0..Capacity : t = job[w].id /\ n = job[w].session.seats
      BY <2>a, <2>2 DEF SaveSession, At, JobShape, SessionRow
    <3>2. SeatsOf(sessions') = Ledger!With(SeatsOf(sessions), t, n)
      BY <2>a, <2>2, <3>1 DEF SaveSession, At, JobShape, SessionRow, AcceptorInv, TypeOK, SeatsOf, Ledger!With
    <3>3. Ledger!SaveSession(t, n)
      BY <2>2, <3>2 DEF SaveSession, Ledger!SaveSession, SeatsOf
    <3> QED
      BY <3>1, <3>3 DEF Ledger!Next
  <2>3. CASE SaveDecline(w)
    <3>1. PICK o \in Offers : o = job[w].offer
      BY <2>a, <2>3 DEF SaveDecline, At, JobShape
    <3>2. offers[o] # "none" /\ offers' = [offers EXCEPT ![o] = "declined"] /\ UNCHANGED <<sessions, demands, bookings>>
      BY <2>3, <3>1 DEF SaveDecline, At, AcceptorInv, OffersAreNew
    <3> QED
      BY <1>0, <3>2 DEF OfferStates
  <2>4. CASE SaveDemand(w)
    <3>1. PICK e \in Demands : e = job[w].demand
      BY <2>a, <2>4 DEF SaveDemand, At, JobShape
    <3>2. MatchedIn(demands') = MatchedIn(demands) \ {e}
      BY <2>a, <2>4, <3>1 DEF SaveDemand, At, JobShape, AcceptorInv, TypeOK, SavedStates, MatchedIn
    <3>3. Ledger!SaveDemand(e)
      BY <2>4, <3>2 DEF SaveDemand, Ledger!SaveDemand, MatchedIn
    <3> QED
      BY <3>3 DEF Ledger!Next
  <2>5. CASE InsertOffer(w)
    <3>1. PICK o \in Offers : o = job[w].offer
      BY <2>a, <2>5 DEF InsertOffer, At, JobShape, Inserting
    <3>2. /\ offers[o] = "none" /\ offers' = [offers EXCEPT ![o] = "pending"]
          /\ UNCHANGED <<sessions, demands, bookings>>
      BY <2>5, <3>1 DEF InsertOffer, At, AcceptorInv, OffersAreNew, Inserting
    <3>3. DOMAIN Made(offers') = DOMAIN Made(offers) \cup {o} /\ o \notin DOMAIN Made(offers)
      BY <3>2 DEF Made, AcceptorInv, TypeOK
    <3>4. Made(offers') = Ledger!With(Made(offers), o,
                            [state |-> "pending", demand |-> DemandOf[o], session |-> SessionOf[o]])
      BY <3>2, <3>3 DEF Made, Ledger!With, AcceptorInv, TypeOK
    <3>5. DemandOf[o] \notin BookedDemands(bookings)
      <4>1. \A q \in Offers : bookings[q] > 0 /\ DemandOf[q] = DemandOf[o] => q = o /\ bookings[o] = 1
        BY AcceptorAssumption DEF AcceptorInv, TypeOK, OfferBookedOnce
      <4> QED
        BY <3>2, <4>1 DEF BookedDemands, AcceptorInv, OfferBookedOnce
    <3>6. Ledger!Make(o, DemandOf[o], SessionOf[o])
      BY <3>2, <3>3, <3>4, <3>5 DEF Ledger!Make, Made, BookedDemands
    <3> QED
      BY <3>6, AcceptorAssumption DEF Ledger!Next
  <2>6. CASE TransitionPending(w)
    <3>1. PICK o \in Offers : o = job[w].offer
      BY <2>a, <2>6 DEF TransitionPending, At, JobShape
    <3>2. /\ offers[o] = "pending" /\ UNCHANGED <<sessions, demands, bookings>>
          /\ \E state \in {"expired", "withdrawn"} : offers' = [offers EXCEPT ![o] = state]
      BY <2>6, <3>1 DEF TransitionPending
    <3> QED
      BY <1>0, <3>2 DEF OfferStates
  <2>7. CASE LockOffer(w) \/ LockSession(w) \/ Refuse(w) \/ LockDemand(w) \/ Write(w) \/ ShareDemand(w) \/ TransitionMisses(w)
    BY <1>1, <2>7 DEF LockOffer, LockSession, Refuse, Rollback, LockDemand, Write, ShareDemand, TransitionMisses
  <2> QED
    BY <1>3, <2>1, <2>2, <2>3, <2>4, <2>5, <2>6, <2>7 DEF Step
<1>4. ASSUME NEW w \in Workers, AcceptFails(w)
      PROVE  [Ledger!Next]_(Ledger!ledger)
  BY <1>1, <1>4 DEF AcceptFails, Rollback
<1>5. CASE UNCHANGED vars
  BY <1>1, <1>5 DEF vars
<1> QED
  BY <1>2, <1>3, <1>4, <1>5 DEF Next

\* offer_acceptor.go: statement by statement, with everything that interleaves and
\* fails, the acceptance implements one atomic step; nothing else books a ride or
\* opens an offer again.
THEOREM AcceptanceRefines == Spec => AcceptanceIsAtomic
<1>1. Init => Ledger!Init
  BY InitRefines
<1>2. AcceptorInv /\ [Next]_vars => [Ledger!Next]_(Ledger!ledger)
  BY NextRefines
<1> QED
  BY <1>1, <1>2, AcceptorInvariance, PTL DEF Spec, AcceptanceIsAtomic, Ledger!Spec

-----------------------------------------------------------------------------
(* Who holds a lock, and who may wait for him *)

OwnedFor(w, r) ==
  \/ job[w].at \in HoldsOffer /\ r = job[w].offer
  \/ job[w].at \in HoldsSession /\ r = SessionOf[job[w].offer]
  \/ job[w].at \in {"write", "commit"} /\ r = DemandOf[job[w].offer]

\* No lock is held by whoever has not come to it or has let go of it: an acceptance
\* owns the rows it has passed, an insert shares the demand, nobody else has any.
LocksAreKnown == \A w \in Workers, r \in Rows :
  /\ owner[r] = w => OwnedFor(w, r)
  /\ w \in sharers[r] => At(w, "shareSession") /\ r = DemandOf[job[w].offer]

\* Who begins has no lock, and gets none.
LEMMA BeginKeepsLocks ==
  ASSUME AcceptorInv, LocksAreKnown, NEW w \in Workers, job[w] = Idle, UNCHANGED locks,
         \A v \in Workers : v # w => job'[v] = job[v]
  PROVE  LocksAreKnown'
<1>1. \A r \in Rows : owner[r] # w /\ w \notin sharers[r]
  BY DEF LocksAreKnown, OwnedFor, At, Idle, HoldsOffer, HoldsSession
<1>2. \A v \in Workers, r \in Rows : v # w => (OwnedFor(v, r) => OwnedFor(v, r)')
  BY DEF OwnedFor
<1> QED
  BY <1>1, <1>2 DEF LocksAreKnown, locks, At

\* Who commits or ends has no lock any more.
LEMMA ReleaseKeepsLocks ==
  ASSUME AcceptorInv, LocksAreKnown, NEW w \in Workers, NEW then, GoOn(w, then)
  PROVE  LocksAreKnown'
<1>1. \A r \in Rows : owner'[r] # w /\ w \notin sharers'[r]
  BY AcceptorAssumption DEF GoOn, Release
<1>2. \A v \in Workers, r \in Rows : v # w =>
        /\ owner'[r] = v => owner[r] = v
        /\ v \in sharers'[r] => v \in sharers[r]
        /\ job'[v] = job[v]
  BY AcceptorAssumption DEF GoOn, Release, AcceptorInv
<1>3. \A v \in Workers, r \in Rows : v # w => (OwnedFor(v, r) => OwnedFor(v, r)')
  BY <1>2 DEF OwnedFor
<1> QED
  BY <1>1, <1>2, <1>3 DEF LocksAreKnown, At

\* The statements of the acceptance and of the insert take the locks they stand for.
LEMMA StatementsKeepLocks ==
  ASSUME AcceptorInv, LocksAreKnown, NEW w \in Workers,
         LockOffer(w) \/ LockSession(w) \/ LockDemand(w) \/ Write(w) \/ ShareDemand(w)
  PROVE  LocksAreKnown'
<1>a. JobShape(w)
  BY JobShapes DEF AcceptorInv
<1>1. ASSUME NEW v \in Workers, NEW r \in Rows, v # w
      PROVE  /\ job'[v] = job[v]
             /\ owner'[r] = v => owner[r] = v
             /\ v \in sharers'[r] => v \in sharers[r]
  BY <1>1 DEF AcceptorInv, TypeOK, LockOffer, LockSession, LockDemand, Write, ShareDemand, Lock, Share, locks
<1>2. ASSUME NEW r \in Rows
      PROVE  /\ owner'[r] = w => OwnedFor(w, r)'
             /\ w \in sharers'[r] => At(w, "shareSession")' /\ r = DemandOf[job'[w].offer]
  <2>0. /\ owner[r] = w => OwnedFor(w, r)
        /\ w \in sharers[r] => At(w, "shareSession") /\ r = DemandOf[job[w].offer]
    BY DEF LocksAreKnown
  <2>1. CASE LockOffer(w)
    BY <1>a, <2>0, <2>1 DEF LockOffer, Lock, At, AcceptorInv, TypeOK, JobRow, JobShape, OwnedFor, Idle, Done,
       HoldsOffer, HoldsSession, Inserting
  <2>2. CASE LockSession(w)
    BY <1>a, <2>0, <2>2 DEF LockSession, Lock, At, AcceptorInv, TypeOK, JobRow, JobShape, OwnedFor, Idle, Done,
       HoldsOffer, HoldsSession, Inserting
  <2>3. CASE LockDemand(w)
    BY <1>a, <2>0, <2>3 DEF LockDemand, Lock, At, AcceptorInv, TypeOK, JobRow, JobShape, OwnedFor, Idle, Done,
       HoldsOffer, HoldsSession, Inserting
  <2>4. CASE Write(w)
    BY <1>a, <2>0, <2>4 DEF Write, locks, At, AcceptorInv, TypeOK, JobRow, JobShape, OwnedFor, Idle, Done,
       HoldsOffer, HoldsSession, Inserting
  <2>5. CASE ShareDemand(w)
    BY <1>a, <2>0, <2>5 DEF ShareDemand, Share, At, AcceptorInv, TypeOK, JobRow, JobShape, OwnedFor, Idle, Done,
       HoldsOffer, HoldsSession, Inserting
  <2> QED
    BY <2>1, <2>2, <2>3, <2>4, <2>5
<1>3. \A v \in Workers, r \in Rows : v # w => (OwnedFor(v, r) => OwnedFor(v, r)')
  BY <1>1 DEF OwnedFor
<1> QED
  BY <1>1, <1>2, <1>3 DEF LocksAreKnown, At

LEMMA LocksKeep ==
  ASSUME AcceptorInv, LocksAreKnown, [Next]_vars
  PROVE  LocksAreKnown'
<1>1. CASE UNCHANGED vars
  BY <1>1 DEF vars, locks, LocksAreKnown, OwnedFor, At
<1>2. ASSUME NEW w \in Workers, Begin(w)
      PROVE  LocksAreKnown'
  <2>1. /\ job[w] = Idle /\ UNCHANGED locks
        /\ \A v \in Workers : v # w => job'[v] = job[v]
    BY <1>2 DEF Begin, BeginAccept, ReadOffer, ReadPending, BeginInsert, ReadSession, ReadDemand,
                AcceptorInv, locks
  <2> QED
    BY <2>1, BeginKeepsLocks
<1>3. ASSUME NEW w \in Workers, Step(w) \/ AcceptFails(w)
      PROVE  LocksAreKnown'
  <2>1. \/ \E then : GoOn(w, then)
        \/ LockOffer(w) \/ LockSession(w) \/ LockDemand(w) \/ Write(w) \/ ShareDemand(w)
    BY <1>3 DEF Step, AcceptFails, Refuse, Rollback, Commit, SaveSession, SaveDecline, SaveDemand, InsertOffer,
                TransitionPending, TransitionMisses, End
  <2> QED
    BY <2>1, ReleaseKeepsLocks, StatementsKeepLocks
<1> QED
  BY <1>1, <1>2, <1>3 DEF Next

\* How far the worker is on the way of the locks.
Rank(w) ==
  IF job[w].at \in {"write", "commit"} THEN 3
  ELSE IF At(w, "lockDemand") THEN 2
  ELSE IF job[w].at \in {"lockSession", "shareSession"} THEN 1
  ELSE 0

\* Whoever is waited for is further on than who waits.  An insert that shares a
\* demand is no exception: its offer is new, so that no acceptance is at its demand.
LEMMA WaitsClimb ==
  ASSUME AcceptorInv, LocksAreKnown, NEW w \in Workers, NEW v \in Workers, WaitsFor(w, v)
  PROVE  Rank(w) < Rank(v)
<1>a. JobShape(w) /\ JobShape(v)
  BY JobShapes DEF AcceptorInv
<1>b. PICK r \in Rows :
        \/ owner[r] = v /\ (NeedsAlone(w, r) \/ NeedsUnowned(w, r))
        \/ v \in sharers[r] /\ NeedsAlone(w, r)
  BY DEF WaitsFor
<1>1. ASSUME owner[r] = v, NeedsAlone(w, r) \/ NeedsUnowned(w, r)
      PROVE  Rank(w) < Rank(v)
  <2>1. OwnedFor(v, r)
    BY <1>1 DEF LocksAreKnown
  <2>2. CASE r \in Offers
    <3>1. job[w].at \in {"lockOffer", "saveDecline", "transition"} /\ job[v].at \in HoldsOffer
      BY <1>a, <1>1, <2>1, <2>2, AcceptorAssumption
         DEF OwnedFor, NeedsAlone, NeedsUnowned, At, JobShape, HoldsOffer, HoldsSession, Inserting
    <3> QED
      BY <3>1 DEF Rank, At, HoldsOffer
  <2>3. CASE r \in Sessions
    <3>1. job[w].at \in {"lockSession", "saveSession", "shareSession"} /\ job[v].at \in HoldsSession
      BY <1>a, <1>1, <2>1, <2>3, AcceptorAssumption
         DEF OwnedFor, NeedsAlone, NeedsUnowned, At, JobShape, HoldsOffer, HoldsSession, Inserting
    <3> QED
      BY <3>1 DEF Rank, At, HoldsSession
  <2>4. CASE r \in Demands
    <3>1. job[w].at \in {"lockDemand", "saveDemand", "shareDemand"} /\ job[v].at \in {"write", "commit"}
      BY <1>a, <1>1, <2>1, <2>4, AcceptorAssumption
         DEF OwnedFor, NeedsAlone, NeedsUnowned, At, JobShape, HoldsOffer, HoldsSession, Inserting
    <3> QED
      BY <3>1 DEF Rank, At
  <2> QED
    BY <2>2, <2>3, <2>4 DEF Rows
<1>2. ASSUME v \in sharers[r], NeedsAlone(w, r)
      PROVE  FALSE
  <2>1. At(v, "shareSession") /\ r = DemandOf[job[v].offer] /\ job[v].offer \in Offers
    BY <1>a, <1>2 DEF LocksAreKnown, JobShape, At, Inserting
  <2>2. At(w, "lockDemand") /\ r = DemandOf[job[w].offer] /\ job[w].offer \in Offers
    BY <1>a, <1>2, <2>1, AcceptorAssumption DEF NeedsAlone, JobShape, At, HoldsOffer, Inserting
  <2>3. job[v].offer = job[w].offer
    BY <2>1, <2>2, AcceptorAssumption
  <2>4. offers[job[v].offer] = "none" /\ offers[job[w].offer] = "pending"
    BY <2>1, <2>2 DEF AcceptorInv, OffersAreNew, CopiesAreCurrent, At, Inserting
  <2> QED
    BY <2>3, <2>4
<1> QED
  BY <1>b, <1>1, <1>2

\* In any set of workers one who is furthest on waits for nobody in it.
LEMMA ClimbersDoNotCircle ==
  ASSUME AcceptorInv, LocksAreKnown
  PROVE  NobodyWaitsInACircle
<1> SUFFICES ASSUME NEW circle \in SUBSET Workers, circle # {}
             PROVE  \E w \in circle : \A v \in circle : ~WaitsFor(w, v)
  BY DEF NobodyWaitsInACircle
<1>1. \A w \in circle : Rank(w) \in 0..3
  BY DEF Rank
<1>2. PICK w \in circle : \A v \in circle : Rank(v) <= Rank(w)
  <2>1. CASE \E w \in circle : Rank(w) = 3
    BY <1>1, <2>1
  <2>2. CASE (\A w \in circle : Rank(w) # 3) /\ (\E w \in circle : Rank(w) = 2)
    BY <1>1, <2>2
  <2>3. CASE (\A w \in circle : Rank(w) \notin {2, 3}) /\ (\E w \in circle : Rank(w) = 1)
    BY <1>1, <2>3
  <2>4. CASE \A w \in circle : Rank(w) = 0
    BY <2>4
  <2> QED
    BY <1>1, <2>1, <2>2, <2>3, <2>4
<1>3. \A v \in circle : ~(Rank(w) < Rank(v))
  BY <1>1, <1>2
<1> QED
  BY <1>3, WaitsClimb

\* Postgres never has to break a deadlock: with any number of acceptances, inserts
\* and saves, somebody among those who wait waits for nobody among them.
THEOREM NoDeadlock == Spec => []NobodyWaitsInACircle
<1>1. Init => LocksAreKnown
  BY AcceptorAssumption DEF Init, LocksAreKnown
<1>2. AcceptorInv /\ LocksAreKnown /\ [Next]_vars => LocksAreKnown'
  BY LocksKeep
<1>3. AcceptorInv /\ LocksAreKnown => NobodyWaitsInACircle
  BY ClimbersDoNotCircle
<1> QED
  BY <1>1, <1>2, <1>3, AcceptorInvariance, PTL DEF Spec

=============================================================================
