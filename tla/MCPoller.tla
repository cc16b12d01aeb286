------------------------------ MODULE MCPoller ------------------------------
EXTENDS Poller
=============================================================================
