---------------------------- MODULE MCMatching ----------------------------
(***************************************************************************)
(* Instance of Matching for TLC: listings of up to two sessions that are   *)
(* fresh or ageing, verified or not, with and without seats; demands with  *)
(* no walk and with one step of it; answers within and beyond each limit.  *)
(***************************************************************************)
EXTENDS Matching

MCRow(state, seats, age, limit, apart, gender) ==
  [state |-> state, seats |-> seats, age |-> age, limit |-> limit, apart |-> apart, gender |-> gender]

MCRows == {MCRow("active", 2, 0, 2, 1, "female"), MCRow("full", 1, 1, 1, 0, "male"),
           MCRow("active", 1, 0, 2, 1, "male"), MCRow("active", 2, 0, 2, 0, "none"),
           MCRow("paused", 2, 0, 2, 0, "female"), MCRow("active", 1, 2, 2, 0, "female")}

MCListings == {<<>>} \cup {<<a>> : a \in MCRows} \cup {<<a, b>> : a, b \in MCRows}

MCDemands == [womenOnly : BOOLEAN, maxTo : {0}, maxFrom : {0}]
        \cup [womenOnly : {FALSE}, maxTo : {1}, maxFrom : {0}]

\* Riders who would walk.
MCWalkers == {d \in MCDemands : d.maxTo > 0}

\* The rider who walks 2 is in time for a driver who takes 1, and late for one
\* who takes none.
MCAnswers == [eta : {1, 2}, detour : {1, 2}, walkEta : {2}, walkTo : {0, 1}, walkFrom : {0}]
        \cup [eta : {0}, detour : {1}, walkEta : {2}, walkTo : {0, 1}, walkFrom : {0}]
        \cup [eta : {2}, detour : {1}, walkEta : {0}, walkTo : {1}, walkFrom : {1}]
=============================================================================
