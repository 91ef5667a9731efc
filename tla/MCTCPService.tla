------------------------------ MODULE MCTCPService -----------------------------
(* TCPService with two connector threads. *)
EXTENDS TCPService
================================================================================
