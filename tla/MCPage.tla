------------------------------- MODULE MCPage -------------------------------
(***************************************************************************)
(* The small modules of the page, checked in one run: each behaviour is one *)
(* of one module, the variables of the others stay as they are.  This saves *)
(* runs and is no model of how the views work on each other: where one view *)
(* changes what another shows, the module of the other has the operation    *)
(* (LedgerView those of the invoice view that book).                        *)
(***************************************************************************)
EXTENDS LedgerView, ReportView, SieImport, SettingsPage, Restore, Widgets,
        Palette, MCPeriods, MCAmounts

CONSTANTS f1, f2, l1, l2, b1, b2, a1, a2, n1, n2, w1, w2

VARIABLE part   \* the part of the page this behaviour is about

PageQueries == {{}, {1, 2, 4}, {2, 4, 8}, {6}}
PageValidSie == {<<f1, 1>>, <<f1, 2>>, <<f2, 2>>}

pageVars == <<part, ledgerVars, reportVars, sieVars, settingsVars, restoreVars,
              toastVars, confirmVars, inlineVars, printVars, paletteVars,
              periodVars, formVars, billVars>>

PageInit ==
    /\ part \in {"ledger", "report", "sie", "close", "settings", "restore",
                 "toast", "confirm", "inline", "print", "palette", "shell",
                 "dueDate", "preset", "template", "bill"}
    /\ LedgerInit /\ ReportInit /\ SieInit /\ SettingsInit /\ RestoreInit
    /\ ToastInit /\ ConfirmInit /\ InlineInit /\ PrintInit /\ PaletteInit
    /\ PeriodsInit /\ AmountsInit
    (* Of the parts it is not about, one beginning is enough. *)
    /\ part # "ledger" => years = 1
    /\ part # "report" => activeYear = 1
    /\ part # "sie" => sieActiveYear = 1
    /\ part \notin {"palette", "shell"} => workspace = w1 /\ accepted = {}
    /\ part # "preset" => fiscalStart = 0

KeepLedger == UNCHANGED ledgerVars
KeepReport == UNCHANGED reportVars
KeepSie == UNCHANGED sieVars
KeepSettings == UNCHANGED settingsVars
KeepRestore == UNCHANGED restoreVars
KeepWidgets == UNCHANGED <<toastVars, confirmVars, inlineVars, printVars>>
KeepPalette == UNCHANGED paletteVars
KeepFigures == UNCHANGED <<periodVars, formVars, billVars>>
KeepList == UNCHANGED <<isOpen, listVars, focusVars, ranVars>>

PageNext ==
    /\ UNCHANGED part
    /\ \/ /\ KeepFigures
          /\ \/ /\ part = "ledger" /\ LedgerNext
                /\ rush' + losses' <= 1     \* bound: one trouble at a time
                /\ KeepReport /\ KeepSie /\ KeepSettings /\ KeepRestore
                /\ KeepWidgets /\ KeepPalette
             \/ /\ part = "report" /\ ReportNext
                /\ KeepLedger /\ KeepSie /\ KeepSettings /\ KeepRestore
                /\ KeepWidgets /\ KeepPalette
             \/ /\ \/ part = "sie" /\ SieImportNext
                   \/ part = "close" /\ SieCloseNext
                /\ KeepLedger /\ KeepReport /\ KeepSettings /\ KeepRestore
                /\ KeepWidgets /\ KeepPalette
             \/ /\ part = "settings" /\ SettingsNext
                /\ settingsRush' + settingsErrors' <= 1     \* bound: likewise
                /\ KeepLedger /\ KeepReport /\ KeepSie /\ KeepRestore
                /\ KeepWidgets /\ KeepPalette
             \/ /\ part = "restore" /\ RestoreNext
                /\ KeepLedger /\ KeepReport /\ KeepSie /\ KeepSettings
                /\ KeepWidgets /\ KeepPalette
             \/ /\ \/ part = "palette" /\ PaletteNext
                   \/ part = "shell" /\ ShellNext /\ KeepList
                /\ KeepLedger /\ KeepReport /\ KeepSie /\ KeepSettings
                /\ KeepRestore /\ KeepWidgets
       \/ /\ KeepLedger /\ KeepReport /\ KeepSie /\ KeepSettings
          /\ KeepRestore /\ KeepPalette
          /\ \/ /\ KeepFigures
                /\ \/ /\ part = "toast" /\ ToastNext
                      /\ UNCHANGED <<confirmVars, inlineVars, printVars>>
                   \/ /\ part = "confirm" /\ ConfirmNext
                      /\ UNCHANGED <<toastVars, inlineVars, printVars>>
                   \/ /\ part = "inline" /\ InlineNext
                      /\ UNCHANGED <<toastVars, confirmVars, printVars>>
                   \/ /\ part = "print" /\ PrintNext
                      /\ UNCHANGED <<toastVars, confirmVars, inlineVars>>
             \/ /\ KeepWidgets
                /\ \/ /\ \/ part = "dueDate" /\ DueDateNext
                         \/ part = "preset" /\ PresetNext
                      /\ UNCHANGED <<formVars, billVars>>
                   \/ /\ part = "template" /\ TemplateNext
                      /\ UNCHANGED <<periodVars, billVars>>
                   \/ /\ part = "bill" /\ BillNext
                      /\ UNCHANGED <<periodVars, formVars>>

(* Every part of the page keeps to its types. *)
PageTypeOK ==
    /\ LedgerTypeOK /\ ReportTypeOK /\ SieTypeOK /\ SettingsTypeOK
    /\ RestoreTypeOK /\ WidgetsTypeOK /\ ShellTypeOK /\ PaletteTypeOK

PageSpec == PageInit /\ [][PageNext]_pageVars
=============================================================================
