------------------------------- MODULE MCProber -------------------------------
EXTENDS Prober, TLC

CONSTANTS a1, a2, a3

MCFqdn == a1 :> "bare" @@ a2 :> "http://" @@ a3 :> "http://"
=============================================================================
