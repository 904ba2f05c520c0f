------------------------------- MODULE Palette -----------------------------
(***************************************************************************)
(* The command palette (frontend/static/js/command-palette.js) over the    *)
(* frame of the page: Ctrl+K opens it, what is typed selects commands, the *)
(* arrows and the mouse move the highlight, Enter and a click run one.     *)
(* A query stands for the set of the commands it matches; commands are     *)
(* numbered in the order in which they are listed.                         *)
(***************************************************************************)
EXTENDS Shell, Integers

CONSTANTS
    Queries         \* the sets of commands that what is typed may match

ASSUME PaletteAssumption == Queries \subseteq SUBSET (1..9)

VARIABLES
    isOpen,
    query,          \* the set of commands the text in the input matches
    currentResults, \* the commands that are listed
    activeIndex,    \* the place of the highlight, from 0 on
    highlighted,    \* the command that was drawn with it, 0 for none
    hasFocus,       \* the input has the focus
    focusTimer,     \* openPalette is about to give it the focus
    gone,           \* the browser has left the page for one there is not
    (* what has happened, for the properties *)
    strayFocus,     \* the input got the focus while the palette was closed
    ranClosed,      \* a command was run from the closed palette
    ranOther        \* a command was run that was not highlighted

focusVars == <<hasFocus, focusTimer, gone, strayFocus>>
listVars == <<query, currentResults, activeIndex, highlighted>>
ranVars == <<ranClosed, ranOther>>
paletteVars == <<shellVars, isOpen, listVars, focusVars, ranVars>>

AllCommands == 1..9
NavOf == << "dashboard", "huvudbok", "none", "momsredovisning", "kontoplan",
            "none", "none", "installningar", "huvudbok" >>
Leaving == {6, 7}       \* to /reports and /tools, which are not served

At(results, i) == {c \in results : Cardinality({d \in results : d < c}) = i}

HighlightOf(results, i) ==
    IF At(results, i) = {} THEN 0 ELSE CHOOSE c \in At(results, i) : TRUE

(* An index past the end goes back to the first. *)
RenderResults(matches, index) ==
    /\ currentResults' = matches
    /\ activeIndex' = IF index >= Cardinality(matches) THEN 0 ELSE index
    /\ highlighted' = HighlightOf(matches, activeIndex')

ClosesPalette == isOpen' = FALSE /\ hasFocus' = FALSE

(* Mutant of CtrlK: the licence does not keep it closed. *)
CtrlKAnytime ==
    /\ IF isOpen
       THEN ClosesPalette /\ UNCHANGED <<listVars, focusTimer>>
       ELSE /\ isOpen' = TRUE
            /\ query' = AllCommands
            /\ RenderResults(AllCommands, 0)
            /\ focusTimer' = TRUE
            /\ UNCHANGED hasFocus
    /\ UNCHANGED <<shellVars, gone, strayFocus, ranVars>>

(* Nothing but the licence keeps the keys from the palette. *)
CtrlK ==
    /\ showEulaModal = "none"
    /\ IF isOpen
       THEN ClosesPalette /\ UNCHANGED <<listVars, focusTimer>>
       ELSE /\ isOpen' = TRUE
            /\ query' = AllCommands
            /\ RenderResults(AllCommands, 0)
            /\ focusTimer' = TRUE
            /\ UNCHANGED hasFocus
    /\ UNCHANGED <<shellVars, gone, strayFocus, ranVars>>

(* 50 ms after it was opened; the input can be focused though it cannot be *)
(* seen. *)
FocusTimer ==
    /\ focusTimer
    /\ focusTimer' = FALSE
    /\ hasFocus' = TRUE
    /\ strayFocus' = (strayFocus \/ ~isOpen)
    /\ UNCHANGED <<shellVars, isOpen, listVars, gone, ranVars>>

TabToInput ==
    /\ hasFocus' = TRUE
    /\ strayFocus' = (strayFocus \/ ~isOpen)
    /\ UNCHANGED <<shellVars, isOpen, listVars, focusTimer, gone, ranVars>>

(* The Escape key, or a click beside the list. *)
ClosePalette ==
    /\ isOpen
    /\ ClosesPalette
    /\ UNCHANGED <<shellVars, listVars, focusTimer, gone, strayFocus, ranVars>>

TypeQuery(matches) ==
    /\ hasFocus
    /\ query' = matches
    /\ RenderResults(matches, 0)
    /\ UNCHANGED <<shellVars, isOpen, focusVars, ranVars>>

MovesTo(index) ==
    /\ RenderResults(query, index)
    /\ UNCHANGED <<shellVars, isOpen, query, focusVars, ranVars>>

ArrowDown ==
    /\ hasFocus
    /\ currentResults # {}
    /\ MovesTo((activeIndex + 1) % Cardinality(currentResults))

(* Mutant of ArrowUp: the length is not added. *)
ArrowUpNegative ==
    /\ hasFocus
    /\ currentResults # {}
    /\ MovesTo(activeIndex - 1)

ArrowUp ==
    /\ hasFocus
    /\ currentResults # {}
    /\ MovesTo((activeIndex - 1 + Cardinality(currentResults))
                  % Cardinality(currentResults))

MouseOver(c) ==
    /\ isOpen
    /\ c \in currentResults
    /\ MovesTo(Cardinality({d \in currentResults : d < c}))

(* A command shows a view, opens another window or leaves the page.  The   *)
(* views are changed whatever covers the page. *)
Runs(c) ==
    /\ IF NavOf[c] \in Views THEN ShowView(NavOf[c]) ELSE UNCHANGED viewVars
    /\ gone' = (c \in Leaving)
    /\ ranClosed' = (ranClosed \/ ~isOpen)
    /\ UNCHANGED <<eulaVars, serverVars, listVars, focusTimer, strayFocus>>

(* Mutant of Enter: the first command of the list is run. *)
EnterFirst ==
    /\ hasFocus
    /\ \E c \in At(currentResults, 0) :
          Runs(c) /\ ranOther' = (ranOther \/ c # highlighted)
    /\ ClosesPalette

Enter ==
    /\ hasFocus
    /\ \E c \in At(currentResults, activeIndex) :
          Runs(c) /\ ranOther' = (ranOther \/ c # highlighted)
    /\ ClosesPalette

(* Mutant of ClickCommand: the list can be clicked when it is hidden. *)
ClickCommandAnytime(c) ==
    /\ c \in currentResults
    /\ Runs(c)
    /\ ClosesPalette
    /\ UNCHANGED ranOther

ClickCommand(c) ==
    /\ isOpen
    /\ c \in currentResults
    /\ Runs(c)
    /\ ClosesPalette
    /\ UNCHANGED ranOther

PaletteInit ==
    /\ ShellInit
    /\ isOpen = FALSE
    /\ query = AllCommands /\ currentResults = {} /\ activeIndex = 0
    /\ highlighted = 0
    /\ hasFocus = FALSE /\ focusTimer = FALSE /\ gone = FALSE
    /\ strayFocus = FALSE /\ ranClosed = FALSE /\ ranOther = FALSE

(* A page that is loaded has a new palette. *)
LoadPalette(w) ==
    /\ Load(w)
    /\ isOpen' = FALSE /\ query' = AllCommands /\ currentResults' = {}
    /\ activeIndex' = 0 /\ highlighted' = 0
    /\ hasFocus' = FALSE /\ focusTimer' = FALSE
    /\ UNCHANGED <<gone, strayFocus, ranVars>>

(* The palette covers the page.  The stop of the server is left to         *)
(* ShellSpec. *)
FrameActs ==
    /\ ToggleDashboard \/ (~isOpen /\ FrameClicks)
    /\ UNCHANGED <<isOpen, listVars, focusVars, ranVars>>

PaletteActs ==
    \/ CtrlK \/ FocusTimer \/ TabToInput \/ ClosePalette
    \/ ArrowDown \/ ArrowUp \/ Enter
    \/ \E matches \in Queries : TypeQuery(matches)
    \/ \E c \in AllCommands : MouseOver(c) \/ ClickCommand(c)

PaletteNext ==
    /\ ~gone
    /\ \/ \E w \in Workspaces : LoadPalette(w)
       \/ loads > 0 /\ (FrameActs \/ PaletteActs)

PaletteSpec == PaletteInit /\ [][PaletteNext]_paletteVars

-----------------------------------------------------------------------------
(* Properties.                                                             *)

(* Every variable has its type.  There is a highlight whenever there is a  *)
(* list, and it is the command that Enter runs (command-palette.js:73-83). *)
PaletteTypeOK ==
    /\ isOpen \in BOOLEAN
    /\ query \subseteq AllCommands
    /\ currentResults \subseteq AllCommands
    /\ activeIndex \in 0..8
    /\ hasFocus \in BOOLEAN /\ focusTimer \in BOOLEAN /\ gone \in BOOLEAN
    /\ strayFocus \in BOOLEAN /\ ranClosed \in BOOLEAN /\ ranOther \in BOOLEAN

(* Enter runs the highlighted command: the highlight is always within the  *)
(* list and the list is that of the query (command-palette.js:133-157).    *)
HighlightedIsRun ==
    /\ ~ranOther
    /\ currentResults # {} => At(currentResults, activeIndex) = {highlighted}

(* No command is run while the palette is closed, unless its hidden input  *)
(* got the focus: by Tab, or by the timer of openPalette when the palette  *)
(* was closed within 50 ms (command-palette.js:107-121).                   *)
ClosedRunsNothing == ranClosed => strayFocus

(* The palette is never open over the licence (command-palette.js:161-165):*)
(* it cannot be opened there, nor is it still open when the licence comes. *)
NoPaletteOverEula == isOpen => showEulaModal = "none"

(* The palette runs the command it shows, and none when it is not to be    *)
(* used (command-palette.js:107-165).                                      *)
PaletteInOrder ==
    /\ HighlightedIsRun
    /\ ClosedRunsNothing
    /\ NoPaletteOverEula
=============================================================================
