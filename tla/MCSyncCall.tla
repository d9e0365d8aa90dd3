----------------------------- MODULE MCSyncCall -----------------------------
(* Synchronous starts on two work threads.                                   *)
EXTENDS SyncCall
=============================================================================
