------------------------------ MODULE MCPeers ------------------------------
EXTENDS Peers

CONSTANTS a, b
=============================================================================
