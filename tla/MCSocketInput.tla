----------------------------- MODULE MCSocketInput -----------------------------
(* SocketInput on small buffers; the configurations give the constants. *)
EXTENDS SocketInput
================================================================================
