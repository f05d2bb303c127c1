--------------------------- MODULE MCPeerSessions ---------------------------
EXTENDS PeerSessions
=============================================================================
