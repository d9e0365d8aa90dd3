----------------------------- MODULE MCRegistry -----------------------------
(* Two users and the work thread, in every way of use: whether or not        *)
(* destroyConnectNode ends requests too, waits time out and addresses come   *)
(* back.                                                                     *)
EXTENDS Registry

AllUses == [destroys : BOOLEAN, late : BOOLEAN, reuse : BOOLEAN]
=============================================================================
