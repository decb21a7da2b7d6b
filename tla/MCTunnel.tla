------------------------------ MODULE MCTunnel ------------------------------
(***************************************************************************)
(* The edge worker for TLC, from the side of its connections: Tunnel.  Who *)
(* is let in (EdgeAccess) stands still here, and has a run of its own.     *)
(***************************************************************************)
EXTENDS EdgeAccess, Sequences

CONSTANTS MaxUp, MaxDown

VARIABLES kind, sent, delivered, gone, events, pc, listening, finished, ws, sock, got, up, down,
          billed, unheard

conn == <<kind, sent, delivered, gone, events, pc, listening, finished, ws, sock, got, up, down,
          billed, unheard>>

Conn == INSTANCE Tunnel

ASSUME TunnelAssumption == Conn!ConstantsAssumption

MCInit == Init /\ Conn!Init
MCNext == Conn!Next /\ UNCHANGED vars
MCSpec == MCInit /\ [][MCNext]_<<vars, conn>> /\ Conn!Fairness

(* What a connection carries and what is billed for it (Tunnel). *)
CarriedAndBilled == Conn!CarriedAndBilled

(* The destination is told when the client has left (Tunnel). *)
ToldOfLeaving == Conn!ToldOfLeaving

(* The edge bills a session once, as the endpoint does (Tunnel). *)
BilledOnce == Conn!BilledOnce
=============================================================================
