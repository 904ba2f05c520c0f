---------------------------- MODULE SettingsPage ---------------------------
(***************************************************************************)
(* The company settings (frontend/static/js/app.js): the page holds a copy *)
(* of all of them, saves all of them at once, and uploads the logo on its  *)
(* own, which the server enters into its copy.  The settings are whether   *)
(* there is a name, the logo, and the rest as a version number.            *)
(***************************************************************************)
EXTENDS Naturals

CONSTANTS
    Logos,          \* the names a logo gets, by its kind
    NoLogo,         \* no logo
    MaxEdits,       \* bound: versions of the rest
    MaxSettingsRush,    \* bound: how often the user does not wait
    MaxSettingsErrors   \* bound: requests refused or lost

ASSUME SettingsAssumption ==
    /\ NoLogo \notin Logos
    /\ MaxEdits \in Nat \ {0}
    /\ MaxSettingsRush \in Nat
    /\ MaxSettingsErrors \in Nat

VARIABLES
    stored,         \* the settings of the server
    settings,       \* the settings of the page
    settingsAsked,  \* requests under way
    stray,          \* those of a page that has been loaded anew since
    (* what has happened, for the properties *)
    edited,         \* the parts the user has changed and not saved
    erased,         \* a save has changed what the user had not
    nameless,       \* settings without a name have been saved
    settingsRush,   \* how often the user did not wait
    settingsErrors  \* requests refused or lost

settingsPast == <<edited, erased, nameless>>
settingsVars == <<stored, settings, settingsAsked, stray, settingsPast,
                  settingsRush, settingsErrors>>

Parts == {"named", "rest", "logo"}
Settings == [named : BOOLEAN, rest : 0..MaxEdits, logo : Logos \cup {NoLogo}]
Blank == [named |-> FALSE, rest |-> 0, logo |-> NoLogo]

Get == [what |-> "get", body |-> Blank, edited |-> {}]
Save(body, parts) == [what |-> "save", body |-> body, edited |-> parts]
Logo(logo) == [what |-> "logo", body |-> [Blank EXCEPT !.logo = logo],
               edited |-> {}]

SettingsUserActs ==
    /\ settingsRush' = settingsRush + IF settingsAsked # {} THEN 1 ELSE 0
    /\ settingsRush' <= MaxSettingsRush

LosesSettings == /\ settingsErrors < MaxSettingsErrors
                 /\ settingsErrors' = settingsErrors + 1

(* The page is loaded (init), and asks for the settings.  What was asked   *)
(* before may still be on its way to the server.                           *)
LoadPage ==
    /\ SettingsUserActs
    /\ settings' = Blank
    /\ settingsAsked' = {Get}
    /\ stray' = stray \cup (settingsAsked \ {Get})
    /\ edited' = {}
    /\ UNCHANGED <<stored, erased, nameless, settingsErrors>>

(* Mutant of SettingsArrive: the logo is left out. *)
SettingsArriveWithoutLogo ==
    /\ Get \in settingsAsked
    /\ settingsAsked' = settingsAsked \ {Get}
    /\ settings' = [stored EXCEPT !.logo = settings.logo]
    /\ edited' = {}
    /\ UNCHANGED <<stored, stray, erased, nameless, settingsRush,
                   settingsErrors>>

(* fetchSettings: settings without a name are not taken over. *)
SettingsArrive ==
    /\ Get \in settingsAsked
    /\ settingsAsked' = settingsAsked \ {Get}
    /\ \/ /\ stored.named
          /\ settings' = stored
          /\ edited' = {}
          /\ UNCHANGED settingsErrors
       \/ ~stored.named /\ UNCHANGED <<settings, edited, settingsErrors>>
       \/ LosesSettings /\ UNCHANGED <<settings, edited>>
    /\ UNCHANGED <<stored, stray, erased, nameless, settingsRush>>

EditName ==
    /\ SettingsUserActs
    /\ settings' = [settings EXCEPT !.named = ~ @]
    /\ edited' = edited \cup {"named"}
    /\ UNCHANGED <<stored, settingsAsked, stray, erased, nameless,
                   settingsErrors>>

EditRest ==
    /\ SettingsUserActs
    /\ settings.rest < MaxEdits
    /\ settings' = [settings EXCEPT !.rest = @ + 1]
    /\ edited' = edited \cup {"rest"}
    /\ UNCHANGED <<stored, settingsAsked, stray, erased, nameless,
                   settingsErrors>>

SaveSettings ==
    /\ SettingsUserActs
    /\ settingsAsked' = settingsAsked \cup {Save(settings, edited)}
    /\ UNCHANGED <<stored, settings, stray, settingsPast, settingsErrors>>

(* The button that takes the logo off saves the settings as they are. *)
RemoveLogo ==
    /\ SettingsUserActs
    /\ settings.logo # NoLogo
    /\ settings' = [settings EXCEPT !.logo = NoLogo]
    /\ edited' = edited \cup {"logo"}
    /\ settingsAsked' = settingsAsked \cup {Save(settings', edited')}
    /\ UNCHANGED <<stored, stray, erased, nameless, settingsErrors>>

Stores(r) ==
    /\ stored' = r.body
    /\ nameless' = (nameless \/ ~r.body.named)
    /\ erased' = (erased \/ \E p \in Parts \ r.edited : r.body[p] # stored[p])

(* The settings of the page stay as they are. *)
SaveArrives(r) ==
    /\ r.what = "save"
    /\ r \in settingsAsked
    /\ settingsAsked' = settingsAsked \ {r}
    /\ \/ /\ Stores(r)
          /\ edited' = {p \in edited : settings[p] # r.body[p]}
          /\ UNCHANGED settingsErrors
       \/ LosesSettings /\ Stores(r) /\ UNCHANGED edited
       \/ LosesSettings /\ UNCHANGED <<stored, nameless, erased, edited>>
    /\ UNCHANGED <<settings, stray, settingsRush>>

(* uploadLogo; files too large or of another kind are turned away. *)
UploadLogo(logo) ==
    /\ SettingsUserActs
    /\ settingsAsked' = settingsAsked \cup {Logo(logo)}
    /\ UNCHANGED <<stored, settings, stray, settingsPast, settingsErrors>>

Enters(r) == stored' = [stored EXCEPT !.logo = r.body.logo]

(* Mutant of LogoArrives: the page does not take the new name over. *)
LogoArrivesUnnoticed(r) ==
    /\ r.what = "logo"
    /\ r \in settingsAsked
    /\ settingsAsked' = settingsAsked \ {r}
    /\ Enters(r)
    /\ UNCHANGED <<settings, stray, edited, erased, nameless, settingsRush,
                   settingsErrors>>

(* Mutant of LogoArrives: an error is not told from an answer. *)
LogoArrivesUnchecked(r) ==
    /\ r.what = "logo"
    /\ r \in settingsAsked
    /\ settingsAsked' = settingsAsked \ {r}
    /\ \/ /\ Enters(r)
          /\ settings' = [settings EXCEPT !.logo = r.body.logo]
          /\ UNCHANGED settingsErrors
       \/ /\ LosesSettings
          /\ settings' = [settings EXCEPT !.logo = FALSE]
          /\ UNCHANGED stored
    /\ edited' = edited \ {"logo"}
    /\ UNCHANGED <<stray, erased, nameless, settingsRush>>

LogoArrives(r) ==
    /\ r.what = "logo"
    /\ r \in settingsAsked
    /\ settingsAsked' = settingsAsked \ {r}
    /\ \/ /\ Enters(r)
          /\ settings' = [settings EXCEPT !.logo = r.body.logo]
          /\ edited' = edited \ {"logo"}
          /\ UNCHANGED settingsErrors
       \/ /\ LosesSettings
          /\ Enters(r) \/ UNCHANGED stored
          /\ UNCHANGED <<settings, edited>>
    /\ UNCHANGED <<stray, erased, nameless, settingsRush>>

(* Nobody reads the answer.  Or the request has not reached the server. *)
StrayServed(r) ==
    /\ stray' = stray \ {r}
    /\ \/ r.what = "save" /\ Stores(r)
       \/ r.what = "logo" /\ Enters(r) /\ UNCHANGED <<nameless, erased>>
       \/ UNCHANGED <<stored, nameless, erased>>
    /\ UNCHANGED <<settings, settingsAsked, edited, settingsRush,
                   settingsErrors>>

(* Set up has given the company a name. *)
SettingsInit ==
    /\ stored = [Blank EXCEPT !.named = TRUE, !.rest = 1]
    /\ settings = Blank
    /\ settingsAsked = {Get}
    /\ stray = {}
    /\ edited = {}
    /\ erased = FALSE
    /\ nameless = FALSE
    /\ settingsRush = 0
    /\ settingsErrors = 0

SettingsNext ==
    \/ LoadPage \/ SettingsArrive \/ EditName \/ EditRest
    \/ SaveSettings \/ RemoveLogo
    \/ \E r \in settingsAsked : SaveArrives(r) \/ LogoArrives(r)
    \/ \E r \in stray : StrayServed(r)
    \/ \E logo \in Logos : UploadLogo(logo)

SettingsSpec == SettingsInit /\ [][SettingsNext]_settingsVars

-----------------------------------------------------------------------------
(* Properties.                                                             *)

(* Every variable has its type, also after errors (app.js:1109-1117).      *)
SettingsTypeOK ==
    /\ stored \in Settings
    /\ settings \in Settings
    /\ settingsAsked \cup stray
          \subseteq [what : {"get", "save", "logo"}, body : Settings,
                     edited : SUBSET Parts]
    /\ edited \subseteq Parts
    /\ erased \in BOOLEAN
    /\ nameless \in BOOLEAN
    /\ settingsRush \in 0..MaxSettingsRush
    /\ settingsErrors \in 0..MaxSettingsErrors

Careful == settingsRush = 0 /\ settingsErrors = 0 /\ ~nameless

(* A save changes nothing on the server but what the user has changed, for *)
(* who waits, loses no answer and keeps the name: without one the settings *)
(* are not fetched, and the next save erases them (app.js:1040, 1111).     *)
NothingErased == Careful => ~erased

(* At rest the page shows the settings of the server, but for what the     *)
(* user has changed (app.js:1035-1043, 1111).                              *)
SettingsShown ==
    Careful /\ settingsAsked = {}
        => \A p \in Parts \ edited : settings[p] = stored[p]

(* Form and server have the same settings, though the form is sent as a    *)
(* whole and the logo goes by a way of its own (app.js:1030-1115).         *)
SettingsKept ==
    /\ NothingErased
    /\ SettingsShown
=============================================================================
