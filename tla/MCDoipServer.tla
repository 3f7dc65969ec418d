---------------------------- MODULE MCDoipServer ----------------------------
(***************************************************************************)
(* A small instance of DoipServer.  The bounds keep the order they have in *)
(* doip_server.h, InitialPolls < GeneralPolls < IdlePolls <= Lifetime, so  *)
(* that each one ends some connection.                                     *)
(***************************************************************************)
EXTENDS DoipServer

CONSTANTS p1, p2

MCPeers == {p1, p2}
MCKept == {"session", "transfer", "job"}

=============================================================================
