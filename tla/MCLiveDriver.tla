----------------------------- MODULE MCLiveDriver -----------------------------
EXTENDS LiveDriverProps
=============================================================================
