-------------------------- MODULE MCStreamServers ---------------------------
(***************************************************************************)
(* The messages of the clients of StreamServers.                           *)
(***************************************************************************)
EXTENDS StreamServers

\* One client's message can be read in two parts.
OneLong == [c \in Clients |-> IF c = 1 THEN 2 ELSE 1]
=============================================================================
