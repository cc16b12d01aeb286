-------------------------------- MODULE Widgets --------------------------------
(***************************************************************************)
(* Two components of the page that have a life of their own: the command   *)
(* palette, src/components/CommandPalette.tsx, over a list that refreshes  *)
(* under it, and the ticker of a running deployment,                       *)
(* src/components/LiveDeployment.tsx, one line of a growing log at a time. *)
(*                                                                         *)
(* A handler and the render and effects it causes are one step.  Timers    *)
(* are untimed: one that is set may fire at any time.                      *)
(***************************************************************************)
EXTENDS Integers, Sequences

CONSTANTS
    Lists,           \* lists of entries the palette may be given: sequences
    Asking,          \* entries that ask first (confirm)
    Matches,         \* SUBSETs of entries: what the queries match
    Backlog,         \* MAX_BACKLOG
    Longest          \* bound: lines of a log

ASSUME WidgetConstants == Backlog \in Nat \ {0} /\ Longest \in Nat

VARIABLES
    listed,          \* the palette's actions
    open, matching, selected,
    pressedOnce,     \* pending: the entry that waits for its second press
    shownArmed,      \* the entry that was armed since the palette opened, if it still is
    ran,             \* the last entry that was run
    logLines,        \* lines.length
    index, swapping, cancelled, streaming,
    timer            \* "none", "wait" (HOLD_MS or DRAIN_MS) or "blur" (SWAP_MS)

paletteVars == <<listed, open, matching, selected, pressedOnce, shownArmed, ran>>
tickerVars == <<logLines, index, swapping, cancelled, streaming, timer>>
widgetVars == <<paletteVars, tickerVars>>

Nobody == "nobody"

PaletteInit ==
    /\ listed \in Lists /\ open = FALSE
    /\ matching \in Matches /\ selected = 1
    /\ pressedOnce = Nobody /\ shownArmed = Nobody /\ ran = Nobody

TickerInit ==
    /\ logLines = 0 /\ index = 0 /\ swapping = FALSE /\ cancelled = FALSE
    /\ streaming \in BOOLEAN /\ timer = "none"

WidgetInit == PaletteInit /\ TickerInit

-----------------------------------------------------------------------------
(* The palette. *)

Items == SelectSeq(listed, LAMBDA entry : entry \in matching)

AllEntries == UNION Matches

\* Mutant of Opens: what was armed stays armed.
OpensArmed ==
    /\ ~open
    /\ open' = TRUE
    /\ matching' = AllEntries /\ selected' = 1 /\ shownArmed' = Nobody
    /\ UNCHANGED <<listed, pressedOnce, ran, tickerVars>>

\* Opening starts over.
Opens ==
    /\ ~open
    /\ open' = TRUE
    /\ matching' = AllEntries /\ selected' = 1
    /\ pressedOnce' = Nobody /\ shownArmed' = Nobody
    /\ UNCHANGED <<listed, ran, tickerVars>>

\* Escape, the veil: nothing is forgotten, nothing is shown.
Closes ==
    /\ open
    /\ open' = FALSE /\ shownArmed' = Nobody
    /\ UNCHANGED <<listed, matching, selected, pressedOnce, ran, tickerVars>>

\* Another query.
Types(matched) ==
    /\ open
    /\ matching' = matched /\ selected' = 1
    /\ pressedOnce' = Nobody /\ shownArmed' = Nobody
    /\ UNCHANGED <<listed, open, ran, tickerVars>>

\* The arrows go round.
Arrow(step) ==
    /\ open
    /\ selected' = IF Items = <<>> THEN 1 ELSE ((selected - 1 + step + Len(Items)) % Len(Items)) + 1
    /\ pressedOnce' = Nobody /\ shownArmed' = Nobody
    /\ UNCHANGED <<listed, open, matching, ran, tickerVars>>

\* The pointer selects, and disarms nothing.
Hovers(i) ==
    /\ open /\ i \in DOMAIN Items /\ i # selected
    /\ selected' = i
    /\ UNCHANGED <<listed, open, matching, pressedOnce, shownArmed, ran, tickerVars>>

\* A click on a row, or Enter on the selected one - which may be past the end of a list
\* that was refreshed: the first press of an entry that asks arms it, any other runs it.
Presses(i) ==
    /\ open /\ i \in DOMAIN Items
    /\ IF Items[i] \in Asking /\ pressedOnce # Items[i]
       THEN /\ pressedOnce' = Items[i] /\ shownArmed' = Items[i] /\ selected' = i
            /\ UNCHANGED <<open, ran>>
       ELSE /\ open' = FALSE /\ ran' = Items[i] /\ shownArmed' = Nobody
            /\ UNCHANGED <<selected, pressedOnce>>
    /\ UNCHANGED <<listed, matching, tickerVars>>

\* The dashboard refreshed.
Refreshes(list) ==
    /\ list # listed
    /\ listed' = list
    /\ UNCHANGED <<open, matching, selected, pressedOnce, shownArmed, ran, tickerVars>>

\* Bound: a run is forgotten when the palette opens no more.
Forgets ==
    /\ ran # Nobody /\ ~open
    /\ ran' = Nobody
    /\ UNCHANGED <<listed, open, matching, selected, pressedOnce, shownArmed, tickerVars>>

-----------------------------------------------------------------------------
(* The ticker. *)

\* The effect, which runs anew when one of these changes: it clears the timers, and a
\* cancelled deployment or an empty log leaves a sharp line.  A stream that was caught
\* up with has nothing to wait for.
Effect(lines, at, stream, over) ==
    IF over \/ lines = 0 THEN timer' = "none" /\ swapping' = FALSE
    ELSE /\ timer' = IF stream /\ at >= lines - 1 THEN "none" ELSE "wait"
         /\ UNCHANGED swapping

\* The hold is complete.
Cancels ==
    /\ ~cancelled
    /\ cancelled' = TRUE
    /\ Effect(logLines, index, streaming, TRUE)
    /\ UNCHANGED <<logLines, index, streaming, paletteVars>>

\* onCancel is rejected: the row is running again.
Resumes ==
    /\ cancelled
    /\ cancelled' = FALSE
    /\ Effect(logLines, index, streaming, FALSE)
    /\ UNCHANGED <<logLines, index, streaming, paletteVars>>

\* Lines are pushed, or the log of a restarted poller replaces the one held.
LogIs(n) ==
    /\ n # logLines
    /\ logLines' = n
    /\ Effect(n, index, streaming, cancelled)
    /\ UNCHANGED <<index, streaming, cancelled, paletteVars>>

\* The live channel is lost, or back.
Streams ==
    /\ streaming' = ~streaming
    /\ Effect(logLines, index, streaming', cancelled)
    /\ UNCHANGED <<logLines, index, cancelled, paletteVars>>

\* The dwell is over: the line blurs out.
Blurs ==
    /\ timer = "wait"
    /\ timer' = "blur" /\ swapping' = TRUE
    /\ UNCHANGED <<logLines, index, cancelled, streaming, paletteVars>>

Larger(a, b) == IF a > b THEN a ELSE b
Smaller(a, b) == IF a < b THEN a ELSE b

\* Mutant of NextIndex: a stream is replayed line by line.
NextIndexReplayed(at) ==
    IF streaming THEN Smaller(at + 1, logLines - 1) ELSE (at + 1) % logLines

\* "a tail jumps, it does not replay"; a fixed list loops.
NextIndex(at) ==
    IF streaming THEN Larger(Smaller(at + 1, logLines - 1), logLines - Backlog)
    ELSE (at + 1) % logLines

\* The next line is there.
Sharpens ==
    /\ timer = "blur"
    /\ index' = NextIndex(index) /\ swapping' = FALSE
    /\ timer' = IF index' = index \/ (streaming /\ index' >= logLines - 1) THEN "none" ELSE "wait"
    /\ UNCHANGED <<logLines, cancelled, streaming, paletteVars>>

PaletteNext ==
    \/ Opens \/ Closes \/ Forgets
    \/ \E matched \in Matches : Types(matched)
    \/ \E step \in {-1, 1} : Arrow(step)
    \/ \E i \in 1 .. Len(listed) : Hovers(i) \/ Presses(i)
    \/ \E list \in Lists : Refreshes(list)

TickerNext ==
    \/ Cancels \/ Resumes \/ Streams \/ Blurs \/ Sharpens
    \/ \E n \in 0 .. Longest : LogIs(n)

WidgetNext == PaletteNext \/ TickerNext

WidgetSpec == WidgetInit /\ [][WidgetNext]_widgetVars

-----------------------------------------------------------------------------
(* Requirements. *)

\* "destructive entries ask once: the first press arms them, the second runs": both
\* presses are of that entry and of one opening, with nothing between them but pointer
\* moves and refreshes of the list.
DestructiveAsksOnce ==
    [][ran' # ran /\ ran' \in Asking => shownArmed = ran']_widgetVars

\* "cancelling mid-swap can never leave the line blurred out", and a line that sharpens
\* on a stream is one of the newest.
TickerIsCurrent ==
    [][/\ cancelled' => ~swapping'
       /\ timer = "blur" /\ swapping /\ ~swapping' /\ streaming' /\ ~cancelled' /\ logLines' > 0
            => logLines' - index' <= Backlog]_widgetVars
=============================================================================
