------------------------------ MODULE MCDelivery ------------------------------
(* A small instance of Delivery for TLC: x is a public address, z is not. *)
EXTENDS Delivery

CONSTANTS x, z

HostAddresses == {x, z}
PrivateAddresses == {z}
=============================================================================
