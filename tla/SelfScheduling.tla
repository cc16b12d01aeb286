---------------------------- MODULE SelfScheduling ----------------------------
(***************************************************************************)
(* What the background loops of the BFF have in common - the poller, the   *)
(* prober, the metrics collector: a timer that a run sets again when it is *)
(* over, so that a slow run delays the next one instead of meeting it.     *)
(***************************************************************************)
VARIABLES
    running,   \* start() was called, stop() not since
    armed,     \* a timer is set
    busy       \* a run is in flight

vars == <<running, armed, busy>>

Init == running = FALSE /\ armed = FALSE /\ busy = FALSE

\* start(): a run begins now, unless one that stop() left behind is still in flight.
Start ==
    /\ ~running
    /\ running' = TRUE
    /\ busy' = TRUE
    /\ UNCHANGED armed

\* stop(): the timer is cleared, a run in flight goes on.
Stop ==
    /\ running' = FALSE /\ armed' = FALSE
    /\ UNCHANGED busy

\* A run begins when the timer fires, and never while another is in flight.
Fire ==
    /\ armed /\ ~busy
    /\ armed' = FALSE /\ busy' = TRUE
    /\ UNCHANGED running

\* poke(): a run begins now instead of when the timer fires.
Poke ==
    /\ running
    /\ armed' = FALSE /\ busy' = TRUE
    /\ UNCHANGED running

\* A run is over, well or badly: the next one is set, unless the loop was stopped.
Finish ==
    /\ busy
    /\ busy' = FALSE
    /\ armed' = running
    /\ UNCHANGED running

Next == Start \/ Stop \/ Fire \/ Poke \/ Finish

Spec == Init /\ [][Next]_vars
=============================================================================
