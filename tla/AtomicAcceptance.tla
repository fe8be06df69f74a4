------------------------- MODULE AtomicAcceptance -------------------------
(***************************************************************************)
(* What accepting an offer promises: one step that takes the offer, a seat *)
(* and the demand together and books a demand once.  Everything else that  *)
(* happens to an offer, a session or a demand saves one row and no         *)
(* booking, makes no answered offer pending again and, unless a driver     *)
(* declines, overwrites no answer.  The acceptance statement by statement  *)
(* (OfferAcceptor) and dispatch, which takes it for one step               *)
(* (RideDispatch), both implement this.                                    *)
(***************************************************************************)
EXTENDS DomainPolicies

CONSTANTS Offers, Sessions, Demands,
  Capacity   \* the seats of the vehicle of each session

VARIABLES
  offer,    \* the offers made: session, demand and state
  seats,    \* the seats left in each session started
  matched,  \* the demands that are matched
  booked    \* the demands that are booked

ledger == <<offer, seats, matched, booked>>

\* The table with a row for the key.
With(table, key, row) == [x \in DOMAIN table \cup {key} |-> IF x = key THEN row ELSE table[x]]

Init ==
  /\ \A o \in DOMAIN offer : offer[o].state = "pending"
  /\ \A s \in DOMAIN seats : seats[s] \in 0..Capacity[s]
  /\ matched = {} /\ booked = {}

Accept(o) == LET r == offer[o] IN
  /\ o \in DOMAIN offer /\ r.state = "pending"
  /\ seats[r.session] > 0 /\ r.demand \notin booked
  /\ offer' = [offer EXCEPT ![o].state = "accepted"]
  /\ seats' = [seats EXCEPT ![r.session] = @ - 1]
  /\ matched' = matched \cup {r.demand}
  /\ booked' = booked \cup {r.demand}

Make(o, d, s) ==
  /\ o \notin DOMAIN offer /\ d \notin booked
  /\ offer' = With(offer, o, [state |-> "pending", demand |-> d, session |-> s])
  /\ UNCHANGED <<seats, matched, booked>>

Answer(o, state) ==
  /\ o \in DOMAIN offer
  /\ offer[o].state = "pending" \/ state = "declined"
  /\ offer' = [offer EXCEPT ![o].state = state]
  /\ UNCHANGED <<seats, matched, booked>>

SaveSession(s, n) ==
  /\ seats' = With(seats, s, n)
  /\ UNCHANGED <<offer, matched, booked>>

SaveDemand(d) ==
  /\ matched' = matched \ {d}
  /\ UNCHANGED <<offer, seats, booked>>

Next ==
  \/ \E o \in Offers : Accept(o)
  \/ \E o \in Offers, d \in Demands, s \in Sessions : Make(o, d, s)
  \/ \E o \in Offers, state \in OfferStates \ {"pending", "accepted"} : Answer(o, state)
  \/ \E s \in Sessions : \E n \in 0..Capacity[s] : SaveSession(s, n)
  \/ \E d \in Demands : SaveDemand(d)

Spec == Init /\ [][Next]_ledger

=============================================================================
