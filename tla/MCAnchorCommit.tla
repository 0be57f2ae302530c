--------------------------- MODULE MCAnchorCommit ---------------------------
EXTENDS AnchorCommit
=============================================================================
