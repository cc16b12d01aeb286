--------------------------- MODULE MCLiveDashboard ---------------------------
EXTENDS LiveDashboard

MCHomeOf == [d \in Deployment |-> DefaultEnv]
=============================================================================
