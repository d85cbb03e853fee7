------------------------------- MODULE MCTcp -------------------------------
(***************************************************************************)
(* Instances of Tcp for TLC.                                               *)
(***************************************************************************)
EXTENDS TcpInvariant

MCISS == [p \in Peer |-> IF p = Client THEN 10 ELSE 50]

(* Bytes written by the client and by the server.                          *)
MCData00 == [p \in Peer |-> 0]
MCData10 == [p \in Peer |-> IF p = Client THEN 1 ELSE 0]
MCData11 == [p \in Peer |-> 1]
MCData20 == [p \in Peer |-> IF p = Client THEN 2 ELSE 0]
MCData21 == [p \in Peer |-> IF p = Client THEN 2 ELSE 1]
MCData30 == [p \in Peer |-> IF p = Client THEN 3 ELSE 0]
=============================================================================
