-------------------------- MODULE MCOfferAcceptor --------------------------
(***************************************************************************)
(* Instance of OfferAcceptor for TLC: two offers that compete for the    *)
(* seats of one session, three workers that do whatever they like.         *)
(***************************************************************************)
EXTENDS OfferAcceptor, TLC

CONSTANTS o1, o2, d1, d2, s1

MCSessionOf == [o \in Offers |-> s1]
MCDemandOf == o1 :> d1 @@ o2 :> d2
=============================================================================
