------------------------------ MODULE MCBroker ------------------------------
(***************************************************************************)
(* A compositor that fetches an image of one surface and a stranger who    *)
(* may ask for anything, stall or hang up.                                 *)
(***************************************************************************)
EXTENDS Broker

CONSTANTS v1, v2

MCVisitors == {v1, v2}
MCStrangers == {v2}
=============================================================================
