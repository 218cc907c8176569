------------------------------ MODULE WebLists ------------------------------
(***************************************************************************)
(* The web client where it lists what the server keeps: the pages of the   *)
(* monitor, the portfolio and the market data, and that of the             *)
(* configuration and the logs.  As in WebTasks, a behaviour is the life of *)
(* the page that route names, and the pages have bounds of their own:      *)
(* MaxClicks is that of the portfolio and of the configuration.            *)
(***************************************************************************)
EXTENDS PageCalls

CONSTANTS
    None,
    Strategies, Alerts, MaxSignals,     \* of the monitor
    SomeStrategies,                     \* of the portfolio
    Files, MaxVersions,                 \* of the market data
    Levels, Modules, All,               \* of the logs
    FewClicks, MaxLoads

VARIABLES
    route,
    page, loads, calls, server, behind,
    typed, blind                        \* system

(* There is a signal or none, and a table has a first version.             *)
ASSUME ListsAssumption == {FewClicks, MaxSignals} \subseteq Nat /\ MaxVersions \in Nat \ {0}

Monitor == INSTANCE MonitorPage WITH MaxClicks <- FewClicks
Portfolio == INSTANCE PortfolioPage WITH Strategies <- SomeStrategies
Data == INSTANCE DataPage WITH MaxClicks <- FewClicks
System == INSTANCE SystemPage

system == <<typed, blind>>
vars == <<route, page, loads, calls, server, behind, system, bounds>>

-----------------------------------------------------------------------------
NoSystem == typed = None /\ blind = None

Init ==
    \/ route = "monitor" /\ Monitor!Init /\ NoSystem
    \/ route = "portfolio" /\ Portfolio!Init /\ NoSystem
    \/ route = "data" /\ Data!Init /\ NoSystem
    \/ route = "system" /\ System!Init

Next ==
    /\ UNCHANGED route
    /\ \/ route = "monitor" /\ Monitor!Next /\ UNCHANGED system
       \/ route = "portfolio" /\ Portfolio!Next /\ UNCHANGED system
       \/ route = "data" /\ Data!Next /\ UNCHANGED system
       \/ route = "system" /\ System!Next

monitorVars == Monitor!vars
dataVars == Data!vars

(* That of each page.                                                      *)
Fairness ==
    /\ WF_monitorVars(route = "monitor" /\ Monitor!LoadData)
    /\ WF_monitorVars(route = "monitor" /\ Monitor!OldestLoad)
    /\ WF_monitorVars(route = "monitor" /\ Monitor!OldestCall)
    /\ WF_dataVars(route = "data" /\ Data!LoadData)
    /\ WF_dataVars(route = "data" /\ Data!OldestLoad)
    /\ WF_dataVars(route = "data" /\ Data!OldestCall)
    /\ \A f \in Files : WF_dataVars(route = "data" /\ Data!RunHistoricalImport(f))

Spec == Init /\ [][Next]_vars
FairSpec == Spec /\ Fairness

-----------------------------------------------------------------------------
(* The properties of the pages, each with its comment there.               *)

(* Every page, its calls and what the server keeps have their types.       *)
TypeOK ==
    /\ route = "monitor" => Monitor!TypeOK
    /\ route = "portfolio" => Portfolio!TypeOK
    /\ route = "data" => Data!TypeOK
    /\ route = "system" => System!TypeOK

(* A list that the page changes itself is the server's when the page waits *)
(* for nothing, with the exceptions named there (MonitorPage,              *)
(* PortfolioPage, DataPage).                                               *)
ListsShowServer ==
    /\ route = "monitor" => Monitor!MonitorShowsServer
    /\ route = "portfolio" => Portfolio!PortfolioShowsServer
    /\ route = "data" => Data!DataShowsServer

(* The lines on screen are those the filters ask for (SystemPage).         *)
LogsMatchFilter == route = "system" => System!LogsMatchFilter

(* A save writes nothing the user did not type (SystemPage).               *)
SaveChangesTheTyped == [][route = "system" => System!OnlyTheTyped]_server

(* What the interval of a page mends is right in the end (MonitorPage,     *)
(* DataPage).                                                              *)
ListsCatchUp ==
    /\ <>[](route = "monitor" => Monitor!Mirrors)
    /\ <>[](route = "data" => Data!Mirrors)
=============================================================================
