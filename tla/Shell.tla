-------------------------------- MODULE Shell ------------------------------
(***************************************************************************)
(* The frame of the page (frontend/static/js/app.js): it starts once the   *)
(* licence (EULA) is accepted for the workspace, shows one view at a time, *)
(* and stops the server.  The browser keeps accepted versions by           *)
(* workspace; there is one version.                                        *)
(***************************************************************************)
EXTENDS Naturals, FiniteSets

CONSTANTS
    Workspaces,     \* the workspaces that are opened in one browser
    MaxLoads        \* bound: how often the page is loaded

ASSUME ShellAssumption == MaxLoads \in Nat \ {0}

VARIABLES
    accepted,       \* localStorage: workspaces whose key says accepted
    workspace,      \* the workspace of the page
    showEulaModal,  \* "none", "forced" or "read" (isEulaReadOnly)
    initialised,    \* completeInit has been called
    currentView,
    shown,          \* the views whose show flag is up
    altD,           \* Alt+D was pressed since the view was chosen
    server,         \* "up" or "down"
    showShutdown,   \* the page says that the server has been stopped
    pinging,        \* window.pingInterval
    shutdown,       \* shutdownServer: "none", "ask" or "sent"
    revisited,      \* the page was hidden and seen again after that
    loads           \* how often the page has been loaded

eulaVars == <<accepted, workspace, showEulaModal, initialised, loads>>
viewVars == <<currentView, shown, altD>>
serverVars == <<server, showShutdown, pinging, shutdown, revisited>>
shellVars == <<eulaVars, viewVars, serverVars>>

Flags == {"dashboard", "momsredovisning", "kontoplan", "installningar",
          "fakturering", "verktyg", "rapporter", "help"}
Views == Flags \cup {"huvudbok"}    \* the ledger has no flag

(* What keeps the rest of the page from clicks. *)
Blocked == showEulaModal # "none" \/ shutdown = "ask" \/ showShutdown

-----------------------------------------------------------------------------
(* The start and the licence.                                              *)

(* init, once the keys of other workspaces are removed. *)
StartsIn(w, keys) ==
    /\ workspace' = w
    /\ accepted' = keys
    /\ IF w \in keys
       THEN showEulaModal' = "none" /\ initialised' = TRUE
       ELSE showEulaModal' = "forced" /\ initialised' = FALSE
    /\ currentView' = "dashboard" /\ shown' = {"dashboard"} /\ altD' = FALSE

(* Mutant of Load: the keys of other workspaces are kept. *)
LoadKeepsKeys(w) ==
    /\ server = "up"
    /\ loads < MaxLoads
    /\ loads' = loads + 1
    /\ StartsIn(w, accepted)
    /\ showShutdown' = FALSE /\ pinging' = TRUE /\ shutdown' = "none"
    /\ UNCHANGED <<server, revisited>>

(* The page is loaded, of this workspace or of another. *)
Load(w) ==
    /\ server = "up"
    /\ loads < MaxLoads
    /\ loads' = loads + 1
    /\ StartsIn(w, accepted \cap {w})
    /\ showShutdown' = FALSE /\ pinging' = TRUE /\ shutdown' = "none"
    /\ UNCHANGED <<server, revisited>>

(* Mutant of AcceptEula: the key of the workspace is not written. *)
AcceptEulaUnsaved ==
    /\ showEulaModal = "forced"
    /\ showEulaModal' = "none"
    /\ initialised' = TRUE
    /\ UNCHANGED <<accepted, workspace, loads, viewVars, serverVars>>

AcceptEula ==
    /\ showEulaModal = "forced"
    /\ accepted' = accepted \cup {workspace}
    /\ showEulaModal' = "none"
    /\ initialised' = TRUE
    /\ UNCHANGED <<workspace, loads, viewVars, serverVars>>

(* The licence is read again, from the help. *)
ReadEula ==
    /\ ~Blocked
    /\ "help" \in shown
    /\ showEulaModal' = "read"
    /\ UNCHANGED <<accepted, workspace, initialised, loads, viewVars,
                   serverVars>>

CloseEula ==
    /\ showEulaModal = "read"
    /\ showEulaModal' = "none"
    /\ UNCHANGED <<accepted, workspace, initialised, loads, viewVars,
                   serverVars>>

-----------------------------------------------------------------------------
(* The views.                                                              *)

(* Mutant of ShowView: the flag of the reports is not taken down. *)
ShowViewOverReports(view) ==
    /\ currentView' = view
    /\ shown' = (shown \cap {"rapporter"}) \cup ({view} \cap Flags)
    /\ altD' = FALSE

(* Mutant of ShowView: the ledger has a flag as well. *)
ShowViewFlagged(view) ==
    /\ currentView' = view
    /\ shown' = {view}
    /\ altD' = FALSE

ShowView(view) ==
    /\ currentView' = view
    /\ shown' = {view} \cap Flags
    /\ altD' = FALSE

(* The menu. *)
ClickView(view) ==
    /\ ~Blocked
    /\ ShowView(view)
    /\ UNCHANGED <<eulaVars, serverVars>>

(* Alt+D works whatever is on the screen. *)
ToggleDashboard ==
    /\ shown' = IF "dashboard" \in shown
                THEN shown \ {"dashboard"} ELSE shown \cup {"dashboard"}
    /\ altD' = TRUE
    /\ UNCHANGED <<currentView, eulaVars, serverVars>>

-----------------------------------------------------------------------------
(* The stop of the server.                                                 *)

ShutdownServer ==
    /\ ~Blocked
    /\ shutdown = "none"
    /\ shutdown' = "ask"
    /\ UNCHANGED <<eulaVars, viewVars, server, showShutdown, pinging,
                   revisited>>

ShutdownDeclined ==
    /\ shutdown = "ask"
    /\ shutdown' = "none"
    /\ UNCHANGED <<eulaVars, viewVars, server, showShutdown, pinging,
                   revisited>>

(* Mutant of ShutdownConfirmed: the page goes on telling the server that   *)
(* it is there. *)
ShutdownConfirmedPinging ==
    /\ shutdown = "ask"
    /\ shutdown' = "sent"
    /\ revisited' = FALSE
    /\ UNCHANGED <<eulaVars, viewVars, server, showShutdown, pinging>>

ShutdownConfirmed ==
    /\ shutdown = "ask"
    /\ shutdown' = "sent"
    /\ pinging' = FALSE
    /\ revisited' = FALSE
    /\ UNCHANGED <<eulaVars, viewVars, server, showShutdown>>

(* Whatever comes of the request, the page says that the server is down. *)
ShutdownReturns ==
    /\ shutdown = "sent"
    /\ shutdown' = "none"
    /\ showShutdown' = TRUE
    /\ server' \in {server, "down"}
    /\ UNCHANGED <<eulaVars, viewVars, pinging, revisited>>

(* A page that is seen again sends its pings again. *)
PageSeenAgain ==
    /\ pinging' = TRUE
    /\ revisited' = TRUE
    /\ UNCHANGED <<eulaVars, viewVars, server, showShutdown, shutdown>>

(* Without pings the server stops by itself. *)
Watchdog ==
    /\ server = "up" /\ ~pinging
    /\ server' = "down"
    /\ UNCHANGED <<eulaVars, viewVars, showShutdown, pinging, shutdown,
                   revisited>>

-----------------------------------------------------------------------------
ShellInit ==
    /\ workspace \in Workspaces
    /\ accepted \in SUBSET Workspaces
    /\ Cardinality(accepted) <= 1
    /\ showEulaModal = "none"
    /\ initialised = FALSE
    /\ currentView = "dashboard" /\ shown = {"dashboard"} /\ altD = FALSE
    /\ server = "up" /\ showShutdown = FALSE /\ pinging = TRUE
    /\ shutdown = "none" /\ revisited = FALSE
    /\ loads = 0

(* What takes a click on the page. *)
FrameClicks == \/ AcceptEula \/ ReadEula \/ CloseEula
               \/ \E view \in Views : ClickView(view)

ShutdownActs ==
    \/ ShutdownServer \/ ShutdownDeclined \/ ShutdownConfirmed
    \/ ShutdownReturns \/ PageSeenAgain \/ Watchdog

ShellNext == \/ \E w \in Workspaces : Load(w)
             \/ loads > 0 /\ (FrameClicks \/ ToggleDashboard \/ ShutdownActs)

ShellSpec == ShellInit /\ [][ShellNext]_shellVars

-----------------------------------------------------------------------------
(* Properties.                                                             *)

(* Every variable has its type. *)
ShellTypeOK ==
    /\ accepted \subseteq Workspaces
    /\ workspace \in Workspaces
    /\ showEulaModal \in {"none", "forced", "read"}
    /\ initialised \in BOOLEAN
    /\ currentView \in Views
    /\ shown \subseteq Flags
    /\ altD \in BOOLEAN
    /\ server \in {"up", "down"}
    /\ showShutdown \in BOOLEAN
    /\ pinging \in BOOLEAN
    /\ shutdown \in {"none", "ask", "sent"}
    /\ revisited \in BOOLEAN
    /\ loads \in 0..MaxLoads

(* The page works with the books of a workspace only if the licence is     *)
(* accepted for this one, which the browser remembers (app.js:350-379,     *)
(* 2136-2142).                                                             *)
AcceptedBeforeUse == initialised => workspace \in accepted

(* The browser does not gather keys (app.js:359-370).                      *)
OneKey == Cardinality(accepted) <= 1

(* The screen shows the view that was chosen and no other, as long as      *)
(* Alt+D is left alone (app.js:1949-2000).                                 *)
OneView == ~altD => shown = {currentView} \cap Flags

(* If the page says that the server is stopped and it is not, it will be:  *)
(* the page does not keep it up, unless it is seen again (app.js:915-924). *)
StopIsComing == showShutdown /\ server = "up" => ~pinging \/ revisited

(* The frame of the page: licence, view and stop (app.js:350-379, 915-924, *)
(* 1949-2000).                                                             *)
ShellInOrder ==
    /\ AcceptedBeforeUse
    /\ OneKey
    /\ OneView
    /\ StopIsComing
=============================================================================
