------------------------------ MODULE MCWsSlots ------------------------------
(* Instances of WsSlots for TLC.                                           *)
EXTENDS WsSlots, TLC

Symmetric == Permutations(Conns) \cup Permutations(Workers)
=============================================================================
