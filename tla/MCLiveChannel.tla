---------------------------- MODULE MCLiveChannel ----------------------------
EXTENDS LiveChannel

MCValue == Logs
=============================================================================
