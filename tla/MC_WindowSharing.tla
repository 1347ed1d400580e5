--------------------------- MODULE MC_WindowSharing ---------------------------
EXTENDS WindowSharing, TLC

=============================================================================
