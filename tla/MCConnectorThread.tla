--------------------------- MODULE MCConnectorThread ---------------------------
(* ConnectorThread with few descriptors, so that they are reused. *)
EXTENDS ConnectorThread, TLC

\* Connections are interchangeable; only for runs without liveness.
ConnSymmetry == Permutations(Conns)
================================================================================
