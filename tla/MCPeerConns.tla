---------------------------- MODULE MCPeerConns ----------------------------
(***************************************************************************)
(* Two connections this node made to one URL and one it accepted.          *)
(***************************************************************************)
EXTENDS PeerConns

CONSTANTS c1, c2, c3, u

MCUrl == [c \in {c1, c2, c3} |-> IF c = c3 THEN None ELSE u]
=============================================================================
