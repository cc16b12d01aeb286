------------------------------- MODULE Components -------------------------------
(***************************************************************************)
(* The components that share no state with one another and are not part of *)
(* a composed model of their own: the metrics collector, the store, the    *)
(* pure functions, the build of the overview, the write side, the front    *)
(* door, two pages, two widgets and the log of a build in a tab; and the   *)
(* poller by itself, with more deployments than LiveChannel has.  A        *)
(* behaviour is one of one of them, the others stay as they began.         *)
(***************************************************************************)
EXTENDS Poller, Collector, Store, Overview, Reports, Actions, Session, Pages, Widgets, LogTicker

CONSTANT Parts       \* those a behaviour may be of

VARIABLE part        \* the one it is of

AllParts == {"poller", "collector", "store", "mappers", "overview", "reports", "actions", "session",
             "pages", "widgets", "logs"}

ASSUME ComponentConstants == Parts \subseteq AllParts

loopPart == <<pollerVars, collectorVars, storeVars>>
pagePart == <<mapperVars, overviewVars, reportVars>>
restPart == <<actionVars, sessionVars, widgetVars>>
tabPart == <<pageVars, logVars>>
componentVars == <<loopPart, pagePart, restPart, tabPart, part>>

NothingYet == [kind |-> "nothing"]

\* The component that moves begins anywhere it can, the others in one state.
Init ==
    /\ part \in Parts
    /\ PollerInit /\ CollectorInit /\ StoreInit /\ OverviewInit /\ SessionInit
    /\ IF part = "mappers" THEN MapperInit ELSE world = NothingYet /\ shown = NothingYet
    /\ IF part = "reports" THEN ReportInit ELSE inquiry = NothingYet /\ told = NothingYet
    /\ ActionInit /\ (part = "actions" \/ takes = CHOOSE v \in Verbs : TRUE)
    /\ WidgetInit /\ PagesInit /\ LogInit
    /\ \/ part = "widgets"
       \/ streaming /\ listed = (CHOOSE l \in Lists : TRUE) /\ matching = AllEntries

Next ==
    /\ UNCHANGED part
    /\ \/ part = "poller" /\ PollerNext /\ UNCHANGED <<collectorVars, storeVars, pagePart, restPart, tabPart>>
       \/ part = "collector" /\ CollectorNext /\ UNCHANGED <<pollerVars, storeVars, pagePart, restPart, tabPart>>
       \/ part = "store" /\ StoreNext /\ UNCHANGED <<pollerVars, collectorVars, pagePart, restPart, tabPart>>
       \/ part = "mappers" /\ MapperNext /\ UNCHANGED <<overviewVars, reportVars, loopPart, restPart, tabPart>>
       \/ part = "overview" /\ OverviewNext /\ UNCHANGED <<mapperVars, reportVars, loopPart, restPart, tabPart>>
       \/ part = "reports" /\ ReportNext /\ UNCHANGED <<mapperVars, overviewVars, loopPart, restPart, tabPart>>
       \/ part = "actions" /\ ActionNext /\ UNCHANGED <<sessionVars, widgetVars, loopPart, pagePart, tabPart>>
       \/ part = "session" /\ SessionNext /\ UNCHANGED <<actionVars, widgetVars, loopPart, pagePart, tabPart>>
       \/ part = "widgets" /\ WidgetNext /\ UNCHANGED <<actionVars, sessionVars, loopPart, pagePart, tabPart>>
       \/ part = "pages" /\ PagesNext /\ UNCHANGED <<logVars, loopPart, pagePart, restPart>>
       \/ part = "logs" /\ LogNext /\ UNCHANGED <<pageVars, loopPart, pagePart, restPart>>

Spec == Init /\ [][Next]_componentVars
=============================================================================
