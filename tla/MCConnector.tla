------------------------------ MODULE MCConnector ------------------------------
(* Connector on small buffers; the configurations choose the client. *)
EXTENDS Connector
================================================================================
