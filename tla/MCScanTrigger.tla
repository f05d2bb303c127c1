--------------------------- MODULE MCScanTrigger ---------------------------
EXTENDS ScanTrigger
=============================================================================
