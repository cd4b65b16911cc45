--------------------------- MODULE MC_ControlDevice ----------------------------
(* The clients: which handle each request is sent on. *)
EXTENDS ControlDevice

CONSTANTS h1, h2, r1, r2

OneClient == [r \in {r1, r2} |-> h1]
TwoClients == [r \in {r1, r2} |-> IF r = r1 THEN h1 ELSE h2]
================================================================================
