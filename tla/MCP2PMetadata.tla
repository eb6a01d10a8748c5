---------------------------- MODULE MCP2PMetadata ----------------------------
(* Small instances of P2PMetadata for TLC.                                 *)
EXTENDS P2PMetadata

CONSTANTS w1, r1, r2
=============================================================================
