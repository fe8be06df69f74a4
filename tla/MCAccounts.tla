---------------------------- MODULE MCAccounts ----------------------------
(***************************************************************************)
(* Instance of Accounts for TLC: the demo person and another; bootstraps   *)
(* with and without a vehicle; both kinds of creation under one key, with  *)
(* different payloads, and a session also without a key.                   *)
(***************************************************************************)
EXTENDS Accounts, TLC

CONSTANTS s1, s2, u0, u1, u2, v0, v1, v2, r1, r2, k1, p1, c1, c2

MCInput(kind, subject, key, body) == [kind |-> kind, subject |-> subject, key |-> key, body |-> body]

MCInputs ==
  {MCInput("profile", s2, None, [valid |-> b]) : b \in BOOLEAN}
  \cup {MCInput("bootstrap", s1, None, [gender |-> "unknown", plate |-> None, capacity |-> 0]),
        MCInput("bootstrap", s2, None, [gender |-> "female", plate |-> p1, capacity |-> 1])}
  \cup {MCInput("vehicle", s2, None, [plate |-> p1, capacity |-> n]) : n \in {0, 1}}
  \cup {MCInput("demand", s1, k1, [women |-> TRUE]), MCInput("demand", s2, k1, [women |-> FALSE])}
  \cup {MCInput("session", s2, k, [vehicle |-> v1]) : k \in {k1, None}}
  \cup {MCInput("me", s2, None, None)}

MCSymmetry == Permutations({u1, u2}) \cup Permutations({r1, r2}) \cup Permutations(Calls)
=============================================================================
