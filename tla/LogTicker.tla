-------------------------------- MODULE LogTicker --------------------------------
(***************************************************************************)
(* The log of one running build as one tab holds it (setLogs of            *)
(* src/hooks/useLiveDashboard.ts), from two sources: the frames the poller *)
(* pushes, each with the index of its first line (publishLogs of           *)
(* server/poller.ts), and the payloads, which carry the log from its first *)
(* line.  The poller stops with the last stream of any tab, and forgets    *)
(* what it pushed.                                                         *)
(*                                                                         *)
(* Lists and payloads may be older than the build: the cache's last known  *)
(* value.  Lines are their numbers.                                        *)
(***************************************************************************)
EXTENDS Integers, Sequences

CONSTANTS
    FrameLines,      \* MAX_LOG_LINES_PER_EVENT
    MaxBuilt         \* bound: lines of the build's log

ASSUME TickerConstants == FrameLines \in Nat \ {0} /\ MaxBuilt \in Nat

VARIABLES
    built,           \* lines Coolify has
    pushed,          \* published, of the poller's entry for the build
    watching,        \* this tab's stream is open
    others,          \* another tab's is
    held,            \* logs[id]
    complete,        \* history: the last to land was a payload with every line there is
    restarted        \* history: the poller began anew while the tab held a tail

logVars == <<built, pushed, watching, others, held, complete, restarted>>

Upto(n) == [i \in 1 .. n |-> i]
Beginning(lines) == lines = Upto(Len(lines))
Contiguous(lines) == \A i \in 1 .. Len(lines) - 1 : lines[i + 1] = lines[i] + 1

LogInit ==
    /\ built = 0 /\ pushed = 0
    /\ watching = FALSE /\ others = FALSE
    /\ held = <<>> /\ complete = FALSE /\ restarted = FALSE

\* The build goes on.
Builds ==
    /\ built < MaxBuilt
    /\ built' = built + 1 /\ complete' = FALSE
    /\ UNCHANGED <<pushed, watching, others, held, restarted>>

\* Mutant of Framed: lines are added to what is there.
FramedAppended(lines, from, to) == lines \o SubSeq(Upto(to), from + 1, to)

\* The frame with the lines after `from`, up to `to`: "past what we hold ... anchor on
\* the tail", else it goes where it belongs.
Framed(lines, from, to) ==
    IF Len(lines) < from THEN SubSeq(Upto(to), from + 1, to)
    ELSE SubSeq(lines, 1, from) \o SubSeq(Upto(to), from + 1, to)

\* What the tab holds, and the history of it.
Holds(lines) ==
    /\ held' = lines
    /\ restarted' = (restarted /\ ~Beginning(lines))

\* A tick reads a list in which the log has n lines, and publishes the last of those
\* that are new; whoever has a stream gets them.
PollerReads(n) ==
    LET from == IF n - pushed > FrameLines THEN n - FrameLines ELSE pushed IN
    /\ watching \/ others
    /\ n > pushed
    /\ pushed' = n
    /\ IF watching THEN complete' = FALSE /\ Holds(Framed(held, from, n))
       ELSE UNCHANGED <<held, complete, restarted>>
    /\ UNCHANGED <<built, watching, others>>

\* Streams open and close: with the last one the poller stops, and clears `tracked`.
Streaming(mine, theirs) ==
    /\ watching' = mine /\ others' = theirs
    /\ pushed' = IF mine \/ theirs THEN pushed ELSE 0
    /\ restarted' = (restarted \/ (~mine /\ ~theirs /\ ~Beginning(held)))
    /\ UNCHANGED <<built, held, complete>>

\* apply, of a payload that lists the build with n lines: the longer log is kept.
PayloadHas(n) ==
    /\ Holds(IF n > Len(held) THEN Upto(n) ELSE held)
    /\ complete' = (n = built)
    /\ UNCHANGED <<built, pushed, watching, others>>

\* ... or does not list it: its lines are dropped.
PayloadLacks ==
    /\ Holds(<<>>)
    /\ complete' = FALSE
    /\ UNCHANGED <<built, pushed, watching, others>>

LogNext ==
    \/ Builds
    \/ \E n \in 0 .. built : PollerReads(n)
    \/ \E n \in 0 .. built : PayloadHas(n)
    \/ PayloadLacks
    \/ Streaming(~watching, others)
    \/ Streaming(watching, ~others)

LogSpec == LogInit /\ [][LogNext]_logVars

-----------------------------------------------------------------------------
(* Requirements. *)

\* What is shown is a stretch of the log without gap or repetition, and the log from
\* its first line when a payload that had all of it lands - unless the poller began
\* anew while the tab held a tail.
LogInOrder ==
    ~restarted => Contiguous(held) /\ (complete => Beginning(held))

\* The code does not keep this one; the README says why.  "`apply` keeps whichever
\* array is longer, which realigns the indices".
PayloadRealigns == complete => Beginning(held)
=============================================================================
