------------------------------ MODULE MCUDPService -----------------------------
(* UDPService for TLC: the constants are in the .cfg files. *)
EXTENDS UDPService
================================================================================
