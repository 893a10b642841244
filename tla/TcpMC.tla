-------------------------------- MODULE TcpMC --------------------------------
(* One stream for TLC, which dials and exchanges three bytes each way. *)
EXTENDS TcpStream
CONSTANTS d, p

ThreeBytes == [s \in Stream |-> 3]
=============================================================================
