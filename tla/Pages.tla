-------------------------------- MODULE Pages --------------------------------
(***************************************************************************)
(* The two pages that ask on their own: the deployment history,            *)
(* src/pages/Deployments.tsx, page by page, and the detail of one          *)
(* application, src/pages/ApplicationDetail.tsx, which loads anew on its   *)
(* Refresh buttons and after its actions.  Both are mounted anew when the  *)
(* environment changes (the key of Shell's Outlet).                        *)
(*                                                                         *)
(* What Coolify knows of the application is a version; an answer of the    *)
(* BFF is whatever version it read between request and answer.             *)
(***************************************************************************)
EXTENDS Integers, FiniteSets

CONSTANTS
    PageSize,        \* PAGE
    MaxTotal,        \* bound: rows of the history
    MaxLoads,        \* bound: loads of the detail
    MaxFacts         \* bound: versions of the application

ASSUME PageConstants == PageSize \in Nat \ {0} /\ {MaxTotal, MaxLoads, MaxFacts} \subseteq Nat

VARIABLES
    mountedPage,     \* the history page is
    skipped,         \* skip
    listing,         \* page: what it was asked for and how many there are, or Blank
    listError,
    turns,           \* requests: the skip they are for, and whether anybody waits (`live`)
    facts,           \* the version Coolify has
    detail,          \* the version shown, 0 for none
    detailError, working,
    loads,           \* loads in flight: stage "ask" or "logs", the version it read, 0 for
                     \* none yet, and whether an action waits for it (`mine`)
    overlapped       \* history: a load began while another was in flight, and none alone since

historyVars == <<mountedPage, skipped, listing, listError, turns>>
detailVars == <<facts, detail, detailError, working, loads, overlapped>>
pageVars == <<historyVars, detailVars>>

NoPage == [skip |-> 0, total |-> -1]

HistoryInit ==
    /\ mountedPage = FALSE /\ skipped = 0 /\ listing = NoPage /\ listError = FALSE /\ turns = {}

DetailInit ==
    /\ facts = 1 /\ detail = 0 /\ detailError = FALSE /\ working = FALSE
    /\ loads = {} /\ overlapped = FALSE

PagesInit == HistoryInit /\ DetailInit

-----------------------------------------------------------------------------
(* The history. *)

\* The effect: the request before is nobody's any more, and the error goes.
Turn(skip) ==
    /\ skipped' = skip
    /\ listError' = FALSE
    /\ turns' = {[t EXCEPT !.live = FALSE] : t \in turns} \cup {[skip |-> skip, live |-> TRUE]}

Mounts ==
    /\ ~mountedPage /\ mountedPage' = TRUE
    /\ Turn(0)
    /\ UNCHANGED <<listing, detailVars>>

LeavesPage ==
    /\ mountedPage /\ mountedPage' = FALSE
    /\ skipped' = 0 /\ listing' = NoPage /\ listError' = FALSE
    /\ turns' = {[t EXCEPT !.live = FALSE] : t \in turns}
    /\ UNCHANGED detailVars

\* Both buttons are there for a history of more than a page, as far as the answer
\* that is shown knows.
Newer ==
    /\ mountedPage /\ listing.total > PageSize
    /\ skipped # 0
    /\ Turn(IF skipped > PageSize THEN skipped - PageSize ELSE 0)
    /\ UNCHANGED <<mountedPage, listing, detailVars>>

Older ==
    /\ mountedPage /\ listing.total > PageSize
    /\ skipped + PageSize < listing.total
    /\ Turn(skipped + PageSize)
    /\ UNCHANGED <<mountedPage, listing, detailVars>>

\* Mutant of Counts: whoever answers last is shown.
CountsAlways(t) == TRUE

\* `if (live)`.
Counts(t) == t.live

TurnAnswered(t, total) ==
    /\ t \in turns /\ turns' = turns \ {t}
    /\ listing' = IF Counts(t) THEN [skip |-> t.skip, total |-> total] ELSE listing
    /\ UNCHANGED <<mountedPage, skipped, listError, detailVars>>

TurnFails(t) ==
    /\ t \in turns /\ turns' = turns \ {t}
    /\ listError' = (Counts(t) \/ listError)
    /\ UNCHANGED <<mountedPage, skipped, listing, detailVars>>

-----------------------------------------------------------------------------
(* The detail. *)

\* load(), up to its await.  Bound: loads in flight.
Loads(mine) ==
    /\ Cardinality(loads) < MaxLoads
    /\ \E n \in 1 .. MaxLoads :
         /\ \A l \in loads : l.n # n
         /\ loads' = loads \cup {[n |-> n, stage |-> "ask", read |-> 0, mine |-> mine]}
    /\ overlapped' = (loads # {})
    /\ detailError' = FALSE

\* The page is mounted, or a Refresh is pressed, which nothing disables.
Refresh ==
    /\ Loads(FALSE)
    /\ UNCHANGED <<facts, detail, working, historyVars>>

\* act: one at a time, the buttons being disabled.  It did what it was asked, and the
\* page loads anew ...
Acts ==
    /\ detail # 0 /\ ~working /\ facts < MaxFacts
    /\ facts' = facts + 1 /\ working' = TRUE
    /\ Loads(TRUE)
    /\ UNCHANGED <<detail, historyVars>>

\* The BFF reads.
Reads(l) ==
    /\ l \in loads /\ l.read = 0
    /\ loads' = (loads \ {l}) \cup {[l EXCEPT !.read = facts]}
    /\ UNCHANGED <<facts, detail, detailError, working, overlapped, historyVars>>

\* The detail and the history of the application are there, or one of them failed -
\* which only a page without anything shows -; the logs are asked for in any case.
DetailArrives(l, ok) ==
    /\ l \in loads /\ l.stage = "ask"
    /\ ok => l.read # 0
    /\ detail' = IF ok THEN l.read ELSE detail
    /\ detailError' = (detailError \/ ~ok)
    /\ loads' = (loads \ {l}) \cup {[l EXCEPT !.stage = "logs", !.read = 0]}
    /\ UNCHANGED <<facts, working, overlapped, historyVars>>

\* The logs are, or the reason why not: load() is over, and the action that waited.
LogsArrive(l) ==
    /\ l \in loads /\ l.stage = "logs" /\ l.read # 0
    /\ loads' = loads \ {l}
    /\ working' = (working /\ ~l.mine)
    /\ UNCHANGED <<facts, detail, detailError, overlapped, historyVars>>

PagesNext ==
    \/ Mounts \/ LeavesPage \/ Newer \/ Older
    \/ \E t \in turns, total \in 0 .. MaxTotal : TurnAnswered(t, total)
    \/ \E t \in turns : TurnFails(t)
    \/ Refresh \/ Acts
    \/ \E l \in loads : Reads(l) \/ DetailArrives(l, TRUE) \/ DetailArrives(l, FALSE) \/ LogsArrive(l)

PagesSpec == PagesInit /\ [][PagesNext]_pageVars

-----------------------------------------------------------------------------
(* Requirements. *)

\* The rows are those of the page the buttons speak of once nothing is awaited, or the
\* page says that they could not be loaded; a page that was left gets none.
RowsOfThePage ==
    /\ mountedPage /\ (\A t \in turns : ~t.live) => listError \/ listing.skip = skipped
    /\ ~mountedPage => listing = NoPage

\* What is shown of an application is not older than an action that is over, unless
\* its load failed or met another.
DetailAfterAct == loads = {} /\ ~detailError /\ ~overlapped => detail \in {0, facts}

\* Both pages at once.
PagesAreCurrent == RowsOfThePage /\ DetailAfterAct

\* The code does not keep this one; the README says why.
NewestAnswerStays == loads = {} /\ ~detailError => detail \in {0, facts}
=============================================================================
