------------------------- MODULE MCGlobalDBUpgrade --------------------------
\* Instances of GlobalDBUpgrade for TLC.
EXTENDS GlobalDBUpgrade
=============================================================================
