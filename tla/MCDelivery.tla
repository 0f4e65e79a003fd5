----------------------------- MODULE MCDelivery -----------------------------
(* A small instance of Delivery for TLC: the notifications of one file. *)
EXTENDS Delivery

FourPhases == <<"create", "update", "update", "close">>
=============================================================================
