--------------------------- MODULE MCPeerTemplate ---------------------------
(***************************************************************************)
(* Small instances of PeerTemplate for TLC.                                *)
(***************************************************************************)
EXTENDS PeerTemplate
=============================================================================
