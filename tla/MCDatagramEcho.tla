--------------------------- MODULE MCDatagramEcho ---------------------------
(***************************************************************************)
(* The arguments of the clients of DatagramEcho: one that fits the buffer, *)
(* one that fills it, and an empty one.                                    *)
(***************************************************************************)
EXTENDS DatagramEcho, TLC

CONSTANTS c1, c2  \* clients

Arguments == c1 :> <<1, 2>> @@ c2 :> <<0>>
=============================================================================
