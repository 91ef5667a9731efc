----------------------------- MODULE MCSocketOutput ----------------------------
(* SocketOutput on a small buffer; the configuration gives the constants. *)
EXTENDS SocketOutput
================================================================================
