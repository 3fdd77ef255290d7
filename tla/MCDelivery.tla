----------------------------- MODULE MCDelivery -----------------------------
(* Three action streams, so two losses and returns, and a state stream. *)
EXTENDS Delivery

CONSTANTS first, second, third, resumed, none
=============================================================================
