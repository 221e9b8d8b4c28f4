----------------------------- MODULE MCWsBroker -----------------------------
(***************************************************************************)
(* A small instance of WsBroker: mailboxes so short that they are full.    *)
(***************************************************************************)
EXTENDS WsBroker

CONSTANTS c1, c2

MCClients == {c1, c2}
=============================================================================
