----------------------------- MODULE MCTransmit -----------------------------
EXTENDS Transmit
=============================================================================
