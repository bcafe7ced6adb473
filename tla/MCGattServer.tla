---------------------------- MODULE MCGattServer ---------------------------
(* Lists of networks for checking GattServer.                               *)
EXTENDS GattServer

CONSTANTS home, cafe
MCNetworks == {<<>>, <<home>>, <<home, cafe>>}
=============================================================================
