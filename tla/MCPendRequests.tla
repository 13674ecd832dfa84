--------------------------- MODULE MCPendRequests ---------------------------
EXTENDS PendRequests
CONSTANTS s1, s2
Both == {<<s1, s2>>}
=============================================================================
