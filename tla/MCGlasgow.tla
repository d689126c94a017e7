----------------------------- MODULE MCGlasgow -----------------------------
EXTENDS Glasgow
=============================================================================
