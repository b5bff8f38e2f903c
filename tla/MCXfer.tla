------------------------------- MODULE MCXfer -------------------------------
EXTENDS Xfer, TLC
=============================================================================
