----------------------------- MODULE MCSignals -----------------------------
EXTENDS Signals, TLC
=============================================================================
