------------------------------ MODULE BrokerMC ------------------------------
(***************************************************************************)
(* Broker for TLC: connections and client ids are interchangeable.         *)
(***************************************************************************)
EXTENDS Broker, TLC

Symmetry == Permutations(Conn) \union Permutations(Client)
=============================================================================
