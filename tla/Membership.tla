-------------------------------- MODULE Membership --------------------------------
(***************************************************************************)
(* What accounts promise, without requests, retries and crashes: a person  *)
(* joins, is verified and gets a vehicle, and loses none of it again; and  *)
(* whoever asks for a ride or offers one is verified when they do, and has *)
(* a vehicle to offer it with.  What was made is neither changed nor made  *)
(* again under its id.                                                     *)
(***************************************************************************)
CONSTANTS People, Ids

VARIABLES members, verified, owners, made

standing == <<members, verified, owners, made>>

Init == members = {} /\ verified = {} /\ owners = {} /\ made = {}

\* One person joins, or has joined, and gets verified or a vehicle on the way.
Enroll(p) ==
  /\ members' = members \cup {p}
  /\ verified' \in {verified, verified \cup {p}}
  /\ owners' \in {owners, owners \cup {p}}
  /\ UNCHANGED made

Make(id, kind, p) ==
  /\ p \in members /\ p \in verified
  /\ kind = "session" => p \in owners
  /\ \A m \in made : m.id # id
  /\ made' = made \cup {[id |-> id, kind |-> kind, by |-> p]}
  /\ UNCHANGED <<members, verified, owners>>

Next == \E p \in People : Enroll(p) \/ \E id \in Ids, kind \in {"demand", "session"} : Make(id, kind, p)

Spec == Init /\ [][Next]_standing
=============================================================================
