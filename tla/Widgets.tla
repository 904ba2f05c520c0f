------------------------------- MODULE Widgets -----------------------------
(***************************************************************************)
(* Four small machines of the page (frontend/static/js/app.js) that work   *)
(* with timers and callbacks: the toast (also of tools.js), the question   *)
(* of confirmAction, the buttons that are clicked twice (inlineConfirm)    *)
(* and the printing of an invoice.  They share no state; each has its own  *)
(* variables and its own specification.                                    *)
(***************************************************************************)
EXTENDS Integers

CONSTANTS
    MaxToasts,      \* bound: toasts shown
    Askers,         \* the calls that may ask a question
    NoAsker,        \* no call
    Buttons,        \* the buttons that are clicked twice
    NoButton,       \* no button
    Cooldown,       \* ticks until a second click counts (250 ms)
    Disarm,         \* ticks until the first click is forgotten (3 s)
    MaxTicks,       \* bound: ticks
    MaxPrints       \* bound: prints

ASSUME WidgetsAssumption ==
    /\ MaxToasts \in Nat /\ MaxTicks \in Nat /\ MaxPrints \in Nat
    /\ NoAsker \notin Askers
    /\ NoButton \notin Buttons
    /\ Cooldown \in Nat /\ Disarm \in Nat \ {0} /\ Cooldown < Disarm

VARIABLES
    (* the toast, by page; toasts are numbered *)
    toast,          \* the toast that is shown, or 0
    toastTimeout,   \* the timer that is to be cleared before the next
    toastTimers,    \* timers that are running
    toasts,         \* how many there have been
    (* the question *)
    confirmModal,   \* whether it is shown, and who is to be answered
    promise,        \* what each call is waiting for or has been told
    (* the buttons *)
    now,            \* the time, in ticks
    armedActionId,  \* the button that was clicked once
    cooldown,       \* by button: a click is too early
    disarmTimer,    \* by button: the time of the timer it remembers, or 0
    disarmTimers,   \* by button: the times of the timers that are running
    cooldownTimers, \* by button: the times at which cooldown ends
    armedAt,        \* by button: when it was armed last
    rearmed,        \* a button has been armed twice within its cooldown
    tooEarly,       \* a button has fired within its cooldown
    (* the print *)
    printing,       \* _printingInProgress
    prints,         \* how many prints there have been
    print,          \* what the last print waits for
    cleanups,       \* prints whose timer of five minutes is running
    lateTimer       \* the timer of an earlier print has run out

toastVars == <<toast, toastTimeout, toastTimers, toasts>>
confirmVars == <<confirmModal, promise>>
inlineVars == <<now, armedActionId, cooldown, disarmTimer, disarmTimers,
                cooldownTimers, armedAt, rearmed, tooEarly>>
printVars == <<printing, prints, print, cleanups, lateTimer>>

-----------------------------------------------------------------------------
(* The toast.                                                              *)

ToastPages == {"app", "tools"}

(* Mutant of ShowToast: the timer of the one before keeps running. *)
ShowToastOnly(p) ==
    LET n == toasts[p] + 1
    IN  /\ n <= MaxToasts
        /\ toasts' = [toasts EXCEPT ![p] = n]
        /\ toast' = [toast EXCEPT ![p] = n]
        /\ toastTimeout' = [toastTimeout EXCEPT ![p] = n]
        /\ toastTimers' = [toastTimers EXCEPT ![p] = @ \cup {n}]

ShowToast(p) ==
    LET n == toasts[p] + 1
    IN  /\ n <= MaxToasts
        /\ toasts' = [toasts EXCEPT ![p] = n]
        /\ toast' = [toast EXCEPT ![p] = n]
        /\ toastTimeout' = [toastTimeout EXCEPT ![p] = n]
        /\ toastTimers' =
              [toastTimers EXCEPT ![p] = (@ \ {toastTimeout[p]}) \cup {n}]

(* Mutant of ToastRunsOut: app.js does not forget it either. *)
ToastRunsOutRemembered(p) ==
    \E n \in toastTimers[p] :
        /\ toastTimers' = [toastTimers EXCEPT ![p] = @ \ {n}]
        /\ toast' = [toast EXCEPT ![p] = 0]
        /\ UNCHANGED <<toastTimeout, toasts>>

(* The tools page does not forget a timer that has run out. *)
ToastRunsOut(p) ==
    \E n \in toastTimers[p] :
        /\ toastTimers' = [toastTimers EXCEPT ![p] = @ \ {n}]
        /\ toast' = [toast EXCEPT ![p] = 0]
        /\ toastTimeout' = [toastTimeout EXCEPT ![p] =
                               IF p = "app" THEN 0 ELSE @]
        /\ UNCHANGED toasts

DismissToast ==
    /\ toast["app"] # 0
    /\ toastTimers' =
          [toastTimers EXCEPT !["app"] = @ \ {toastTimeout["app"]}]
    /\ toastTimeout' = [toastTimeout EXCEPT !["app"] = 0]
    /\ toast' = [toast EXCEPT !["app"] = 0]
    /\ UNCHANGED toasts

ToastInit ==
    /\ toast = [p \in ToastPages |-> 0]
    /\ toastTimeout = [p \in ToastPages |-> 0]
    /\ toastTimers = [p \in ToastPages |-> {}]
    /\ toasts = [p \in ToastPages |-> 0]

ToastNext == \/ \E p \in ToastPages : ShowToast(p) \/ ToastRunsOut(p)
             \/ DismissToast

ToastSpec == ToastInit /\ [][ToastNext]_toastVars

(* Every toast has the time that was meant for it: the only timer that is  *)
(* running is its own, so that it is neither taken away by the timer of an *)
(* earlier one nor left for ever (app.js:2104-2123, tools.js:55-61).       *)
ToastHasItsTimer ==
    \A p \in ToastPages :
        toastTimers[p] = IF toast[p] = 0 THEN {} ELSE {toast[p]}

-----------------------------------------------------------------------------
(* The question.                                                           *)

Resolve(c, answer, promises) ==
    IF c \in Askers /\ promises[c] = "pending"
    THEN [promises EXCEPT ![c] = answer] ELSE promises

(* Mutant of ConfirmAction: the one who asked before is not answered. *)
ConfirmActionOnly(c) ==
    /\ promise[c] # "pending"
    /\ promise' = [promise EXCEPT ![c] = "pending"]
    /\ confirmModal' = [show |-> TRUE, resolve |-> c]

(* Who asked before is told no; who has been told hears nothing more. *)
ConfirmAction(c) ==
    /\ promise[c] # "pending"
    /\ promise' = [Resolve(confirmModal.resolve, "no", promise)
                      EXCEPT ![c] = "pending"]
    /\ confirmModal' = [show |-> TRUE, resolve |-> c]

AnswerQuestion(answer) ==
    /\ confirmModal.show
    /\ promise' = Resolve(confirmModal.resolve, answer, promise)
    /\ confirmModal' = [confirmModal EXCEPT !.show = FALSE]

ConfirmInit ==
    /\ confirmModal = [show |-> FALSE, resolve |-> NoAsker]
    /\ promise = [c \in Askers |-> "none"]

ConfirmNext == \/ \E c \in Askers : ConfirmAction(c)
               \/ \E answer \in {"yes", "no"} : AnswerQuestion(answer)

ConfirmSpec == ConfirmInit /\ [][ConfirmNext]_confirmVars

(* Nobody waits for an answer that cannot come: who waits is the one whose *)
(* question is on the screen (app.js:71-88).                               *)
QuestionIsShown ==
    \A c \in Askers : promise[c] = "pending"
        <=> confirmModal.show /\ confirmModal.resolve = c

-----------------------------------------------------------------------------
(* The buttons that are clicked twice.  The first click arms a button, the *)
(* second, after the cooldown, does what it is for.  Clicks on one button   *)
(* that arm it come in different ticks.                                    *)

(* Mutant of FirstClick: the timer that forgets the click is left out. *)
FirstClickForever(b) ==
    /\ armedActionId # b
    /\ armedAt[b] < now
    /\ armedActionId' = b
    /\ cooldown' = [cooldown EXCEPT ![b] = TRUE]
    /\ cooldownTimers' = [cooldownTimers EXCEPT ![b] = @ \cup {now + Cooldown}]
    /\ rearmed' = (rearmed \/ cooldownTimers[b] # {})
    /\ armedAt' = [armedAt EXCEPT ![b] = now]
    /\ UNCHANGED <<now, disarmTimer, disarmTimers, tooEarly>>

FirstClick(b) ==
    /\ armedActionId # b
    /\ armedAt[b] < now
    /\ armedActionId' = b
    /\ cooldown' = [cooldown EXCEPT ![b] = TRUE]
    /\ cooldownTimers' = [cooldownTimers EXCEPT ![b] = @ \cup {now + Cooldown}]
    /\ disarmTimer' = [disarmTimer EXCEPT ![b] = now + Disarm]
    /\ disarmTimers' = [disarmTimers EXCEPT ![b] = @ \cup {now + Disarm}]
    /\ rearmed' = (rearmed \/ cooldownTimers[b] # {})
    /\ armedAt' = [armedAt EXCEPT ![b] = now]
    /\ UNCHANGED <<now, tooEarly>>

Disarms(b) ==
    /\ armedActionId' = NoButton
    /\ disarmTimers' = [disarmTimers EXCEPT ![b] = @ \ {disarmTimer[b]}]
    /\ UNCHANGED <<now, cooldown, disarmTimer, cooldownTimers, armedAt,
                   rearmed>>

(* Mutant of SecondClick: the cooldown is not looked at. *)
SecondClickAtOnce(b) ==
    /\ armedActionId = b
    /\ tooEarly' = (tooEarly \/ now < armedAt[b] + Cooldown)
    /\ Disarms(b)

SecondClick(b) ==
    /\ armedActionId = b
    /\ ~cooldown[b]
    /\ tooEarly' = (tooEarly \/ now < armedAt[b] + Cooldown)
    /\ Disarms(b)

(* A click elsewhere; a click on another of the buttons does not get here. *)
CancelInline(b) ==
    /\ armedActionId = b
    /\ Disarms(b)
    /\ UNCHANGED tooEarly

(* The timers due at the next tick run.  The one of a button that has been *)
(* armed again in between takes the second arming for the first.           *)
InlineTick ==
    LET t == now + 1
    IN  /\ t <= MaxTicks
        /\ now' = t
        /\ armedActionId' =
              IF armedActionId \in Buttons /\ t \in disarmTimers[armedActionId]
              THEN NoButton ELSE armedActionId
        /\ cooldown' =
              [b \in Buttons |-> cooldown[b] /\ t \notin cooldownTimers[b]]
        /\ disarmTimers' = [b \in Buttons |-> disarmTimers[b] \ {t}]
        /\ cooldownTimers' = [b \in Buttons |-> cooldownTimers[b] \ {t}]
        /\ UNCHANGED <<disarmTimer, armedAt, rearmed, tooEarly>>

InlineInit ==
    /\ now = 0
    /\ armedActionId = NoButton
    /\ cooldown = [b \in Buttons |-> FALSE]
    /\ disarmTimer = [b \in Buttons |-> 0]
    /\ disarmTimers = [b \in Buttons |-> {}]
    /\ cooldownTimers = [b \in Buttons |-> {}]
    /\ armedAt = [b \in Buttons |-> -1]
    /\ rearmed = FALSE
    /\ tooEarly = FALSE

InlineNext ==
    \/ \E b \in Buttons : FirstClick(b) \/ SecondClick(b) \/ CancelInline(b)
    \/ InlineTick

InlineSpec == InlineInit /\ [][InlineNext]_inlineVars

(* A button does not stay armed for ever: it is armed only while a timer   *)
(* that disarms it is running, which ends within Disarm ticks              *)
(* (app.js:2172-2178), however many buttons are clicked in between.        *)
ArmedIsTimed ==
    armedActionId \in Buttons =>
        \E t \in disarmTimers[armedActionId] : now < t /\ t <= now + Disarm

(* A double click does nothing: no action is carried out within the        *)
(* cooldown of the click that armed it, unless the button was armed twice  *)
(* within its cooldown (app.js:2169-2186).                                 *)
NoDoubleClick == ~rearmed => ~tooEarly

-----------------------------------------------------------------------------
(* The print of an invoice.                                                *)

(* Refused while the flag is up. *)
PrintInvoicePDF ==
    /\ ~printing
    /\ prints < MaxPrints
    /\ printing' = TRUE
    /\ prints' = prints + 1
    /\ print' = "request"
    /\ UNCHANGED <<cleanups, lateTimer>>

(* Mutant of PrintFails: an error leaves the flag up. *)
PrintFailsSilently ==
    /\ print = "request"
    /\ print' = "none"
    /\ UNCHANGED <<printing, prints, cleanups, lateTimer>>

PrintFails ==
    /\ print = "request"
    /\ printing' = FALSE
    /\ print' = "none"
    /\ UNCHANGED <<prints, cleanups, lateTimer>>

(* Mutant of PDFArrives: the flag is taken down with the answer. *)
PDFArrivesTakesFlagDown ==
    /\ print = "request"
    /\ print' = "load"
    /\ printing' = FALSE
    /\ UNCHANGED <<prints, cleanups, lateTimer>>

PDFArrives ==
    /\ print = "request"
    /\ print' = "load"
    /\ UNCHANGED <<printing, prints, cleanups, lateTimer>>

(* The frame has loaded, and the dialog is open or has been: the event     *)
(* that the print is over may have come before it is listened for.         *)
PrintLoaded ==
    /\ print = "load"
    /\ print' \in {"dialog", "none"}
    /\ cleanups' = cleanups \cup {prints}
    /\ UNCHANGED <<printing, prints, lateTimer>>

(* Nothing catches an error of the dialog in onload: neither the event nor *)
(* the timer is set up, and the flag stays up.                             *)
PrintThrows ==
    /\ print = "load"
    /\ print' = "stuck"
    /\ UNCHANGED <<printing, prints, cleanups, lateTimer>>

Afterprint ==
    /\ print = "dialog"
    /\ print' = "none"
    /\ printing' = FALSE
    /\ UNCHANGED <<prints, cleanups, lateTimer>>

(* The timer takes the flag down, also that of a later print. *)
PrintTimeout(n) ==
    /\ n \in cleanups
    /\ cleanups' = cleanups \ {n}
    /\ printing' = FALSE
    /\ lateTimer' = (lateTimer \/ n # prints)
    /\ UNCHANGED <<prints, print>>

PrintInit ==
    /\ printing = FALSE /\ prints = 0 /\ print = "none"
    /\ cleanups = {} /\ lateTimer = FALSE

PrintNext ==
    \/ PrintInvoicePDF \/ PrintFails \/ PDFArrives \/ PrintLoaded
    \/ PrintThrows \/ Afterprint
    \/ \E n \in 1..MaxPrints : PrintTimeout(n)

PrintSpec == PrintInit /\ [][PrintNext]_printVars

(* Printing is not refused for ever: while the flag is up, something that  *)
(* takes it down is still to come (app.js:719-737), unless the dialog has  *)
(* thrown an error.                                                        *)
PrintingEnds ==
    printing /\ print # "stuck" => print # "none" \/ prints \in cleanups

(* One print at a time, until the timer of an earlier print, which may be  *)
(* over, takes the flag down (app.js:697-700, 735).                        *)
OnePrint == ~lateTimer /\ print \in {"request", "load"} => printing

(* The timers, questions and flags of the widgets belong to what is on the *)
(* screen (app.js:71-88, 697-737, 2104-2186).                              *)
WidgetsInOrder ==
    /\ ToastHasItsTimer
    /\ QuestionIsShown
    /\ ArmedIsTimed
    /\ NoDoubleClick
    /\ PrintingEnds
    /\ OnePrint

-----------------------------------------------------------------------------
(* Every variable has its type, and app.js remembers a timer exactly while *)
(* a toast is shown (app.js:2110-2123).                                    *)
WidgetsTypeOK ==
    /\ toast \in [ToastPages -> 0..MaxToasts]
    /\ toastTimeout \in [ToastPages -> 0..MaxToasts]
    /\ toastTimers \in [ToastPages -> SUBSET (1..MaxToasts)]
    /\ toasts \in [ToastPages -> 0..MaxToasts]
    /\ toast["app"] = toastTimeout["app"]
    /\ confirmModal \in [show : BOOLEAN, resolve : Askers \cup {NoAsker}]
    /\ promise \in [Askers -> {"none", "pending", "yes", "no"}]
    /\ now \in 0..MaxTicks
    /\ armedActionId \in Buttons \cup {NoButton}
    /\ cooldown \in [Buttons -> BOOLEAN]
    /\ rearmed \in BOOLEAN
    /\ tooEarly \in BOOLEAN
    /\ printing \in BOOLEAN
    /\ prints \in 0..MaxPrints
    /\ print \in {"none", "request", "load", "dialog", "stuck"}
    /\ cleanups \subseteq 1..prints
    /\ lateTimer \in BOOLEAN
=============================================================================
