---------------------------- MODULE FrameProofs ----------------------------
(***************************************************************************)
(* Proofs about the frame of the page: the small machines of Widgets, for  *)
(* every number of toasts, callers, buttons, ticks and prints; the shell   *)
(* and its command palette, for every set of workspaces, any number of     *)
(* loads and every set of queries.                                         *)
(***************************************************************************)
EXTENDS Widgets, Palette, FiniteSetTheorems, TLAPS

-----------------------------------------------------------------------------
(* The toast.  The timer that runs is the one that is remembered, so that  *)
(* the next toast clears it.                                               *)

ToastInv ==
    /\ toast \in [ToastPages -> 0..MaxToasts]
    /\ toastTimeout \in [ToastPages -> 0..MaxToasts]
    /\ toastTimers \in [ToastPages -> SUBSET (1..MaxToasts)]
    /\ toasts \in [ToastPages -> 0..MaxToasts]
    /\ toast["app"] = toastTimeout["app"]
    /\ \A p \in ToastPages : toast[p] # 0 => toastTimeout[p] = toast[p]
    /\ ToastHasItsTimer

LEMMA ToastInvInit == ToastInit => ToastInv
<1>1. 0 \in 0..MaxToasts /\ "app" \in ToastPages
    BY WidgetsAssumption DEF ToastPages
<1> QED
    BY <1>1 DEF ToastInit, ToastInv, ToastHasItsTimer

LEMMA ToastInvNext == ToastInv /\ [ToastNext]_toastVars => ToastInv'
<1> SUFFICES ASSUME ToastInv, [ToastNext]_toastVars PROVE ToastInv'
    OBVIOUS
<1> USE DEF ToastInv, ToastHasItsTimer
<1>a. 0 \in 0..MaxToasts /\ "app" \in ToastPages
    BY WidgetsAssumption DEF ToastPages
<1>1. CASE UNCHANGED toastVars
    BY <1>1 DEF toastVars
<1>2. ASSUME NEW p \in ToastPages, ShowToast(p) PROVE ToastInv'
    <2>1. toasts[p] + 1 \in 1..MaxToasts /\ toasts[p] + 1 \in 0..MaxToasts
        BY <1>2, WidgetsAssumption DEF ShowToast
    <2>2. toastTimers[p] \ {toastTimeout[p]} = {}
        OBVIOUS
    <2>3. toastTimers' = [toastTimers EXCEPT ![p] = {toasts[p] + 1}]
        BY <1>2, <2>2 DEF ShowToast
    <2>4. /\ toast' = [toast EXCEPT ![p] = toasts[p] + 1]
          /\ toasts' = [toasts EXCEPT ![p] = toasts[p] + 1]
          /\ toastTimeout' = [toastTimeout EXCEPT ![p] = toasts[p] + 1]
        BY <1>2 DEF ShowToast
    <2>5. toastTimers' \in [ToastPages -> SUBSET (1..MaxToasts)]
        BY <2>1, <2>3
    <2>6. toasts[p] + 1 # 0
        BY <2>1
    <2> QED
        BY <2>1, <2>3, <2>4, <2>5, <2>6, <1>a
<1>3. ASSUME NEW p \in ToastPages, ToastRunsOut(p) PROVE ToastInv'
    <2>1. PICK n \in toastTimers[p] :
              /\ toastTimers' = [toastTimers EXCEPT ![p] = @ \ {n}]
              /\ toast' = [toast EXCEPT ![p] = 0]
              /\ toastTimeout' = [toastTimeout EXCEPT ![p] =
                                     IF p = "app" THEN 0 ELSE @]
              /\ UNCHANGED toasts
        BY <1>3 DEF ToastRunsOut
    <2>2. toastTimers[p] \ {n} = {}
        BY <2>1
    <2>3. toastTimers' = [toastTimers EXCEPT ![p] = {}]
        BY <2>1, <2>2
    <2> QED
        BY <2>1, <2>3, <1>a
<1>4. CASE DismissToast
    <2>1. "app" \in ToastPages
        BY DEF ToastPages
    <2>2. toastTimers["app"] \ {toastTimeout["app"]} = {}
        BY <1>4, <2>1 DEF DismissToast
    <2>3. toastTimers' = [toastTimers EXCEPT !["app"] = {}]
        BY <1>4, <2>2 DEF DismissToast
    <2> QED
        BY <1>4, <2>1, <2>3, <1>a DEF DismissToast
<1> QED
    BY <1>1, <1>2, <1>3, <1>4 DEF ToastNext

(* Every toast has the time that was meant for it (app.js:2104-2123,       *)
(* tools.js:55-61): no earlier timer takes it away and none is left.       *)
THEOREM ToastTimed == ToastSpec => []ToastHasItsTimer
<1>1. ToastInv => ToastHasItsTimer
    BY DEF ToastInv
<1> QED
    BY <1>1, ToastInvInit, ToastInvNext, PTL DEF ToastSpec

-----------------------------------------------------------------------------
(* The question.                                                           *)

ConfirmInv ==
    /\ confirmModal \in [show : BOOLEAN, resolve : Askers \cup {NoAsker}]
    /\ promise \in [Askers -> {"none", "pending", "yes", "no"}]
    /\ QuestionIsShown

LEMMA ConfirmInvInit == ConfirmInit => ConfirmInv
BY DEF ConfirmInit, ConfirmInv, QuestionIsShown

(* Once the one who asked has an answer, nobody waits. *)
LEMMA ResolvedAll ==
    ASSUME ConfirmInv, NEW answer \in {"yes", "no"}
    PROVE  LET told == Resolve(confirmModal.resolve, answer, promise)
           IN  /\ told \in [Askers -> {"none", "pending", "yes", "no"}]
               /\ \A d \in Askers : told[d] # "pending"
BY DEF ConfirmInv, QuestionIsShown, Resolve

LEMMA ConfirmInvNext == ConfirmInv /\ [ConfirmNext]_confirmVars => ConfirmInv'
<1> SUFFICES ASSUME ConfirmInv, [ConfirmNext]_confirmVars PROVE ConfirmInv'
    OBVIOUS
<1>1. CASE UNCHANGED confirmVars
    BY <1>1 DEF confirmVars, ConfirmInv, QuestionIsShown
<1>2. ASSUME NEW c \in Askers, ConfirmAction(c) PROVE ConfirmInv'
    <2> DEFINE told == Resolve(confirmModal.resolve, "no", promise)
    <2>1. /\ told \in [Askers -> {"none", "pending", "yes", "no"}]
          /\ \A d \in Askers : told[d] # "pending"
        BY ResolvedAll
    <2>2. /\ promise' = [told EXCEPT ![c] = "pending"]
          /\ confirmModal' = [show |-> TRUE, resolve |-> c]
        BY <1>2 DEF ConfirmAction
    <2> HIDE DEF told
    <2> QED
        BY <2>1, <2>2 DEF ConfirmInv, QuestionIsShown
<1>3. ASSUME NEW answer \in {"yes", "no"}, AnswerQuestion(answer)
      PROVE  ConfirmInv'
    <2>1. /\ promise' \in [Askers -> {"none", "pending", "yes", "no"}]
          /\ \A d \in Askers : promise'[d] # "pending"
        BY <1>3, ResolvedAll DEF AnswerQuestion
    <2>2. /\ confirmModal' = [confirmModal EXCEPT !.show = FALSE]
          /\ confirmModal \in [show : BOOLEAN, resolve : Askers \cup {NoAsker}]
        BY <1>3 DEF AnswerQuestion, ConfirmInv
    <2> QED
        BY <2>1, <2>2 DEF ConfirmInv, QuestionIsShown
<1> QED
    BY <1>1, <1>2, <1>3 DEF ConfirmNext

(* Whoever waits for an answer is the one whose question is on the screen  *)
(* (app.js:71-88), however many calls ask at the same time.                *)
THEOREM QuestionShown == ConfirmSpec => []QuestionIsShown
<1>1. ConfirmInv => QuestionIsShown
    BY DEF ConfirmInv
<1> QED
    BY <1>1, ConfirmInvInit, ConfirmInvNext, PTL DEF ConfirmSpec

-----------------------------------------------------------------------------
(* The buttons that are clicked twice.                                     *)

InlineInv ==
    /\ now \in 0..MaxTicks
    /\ armedActionId \in Buttons \cup {NoButton}
    /\ cooldown \in [Buttons -> BOOLEAN]
    /\ disarmTimers \in [Buttons -> SUBSET Int]
    /\ cooldownTimers \in [Buttons -> SUBSET Int]
    /\ armedAt \in [Buttons -> Int]
    /\ rearmed \in BOOLEAN /\ tooEarly \in BOOLEAN
    /\ armedActionId \in Buttons => armedAt[armedActionId] >= 0
    /\ ArmedIsTimed

(* As long as no button has been armed twice within its cooldown, the only *)
(* cooldown that runs is of the last click.                                *)
CooldownInv ==
    ~rearmed =>
        /\ ~tooEarly
        /\ \A b \in Buttons :
              /\ \A t \in cooldownTimers[b] : t = armedAt[b] + Cooldown
              /\ ~cooldown[b] /\ armedAt[b] >= 0
                    => armedAt[b] + Cooldown <= now

LEMMA InlineInvInit == InlineInit => InlineInv /\ CooldownInv
<1> SUFFICES ASSUME InlineInit PROVE InlineInv /\ CooldownInv
    OBVIOUS
<1>1. NoButton \notin Buttons /\ 0 \in 0..MaxTicks
    BY WidgetsAssumption
<1>2. /\ disarmTimers \in [Buttons -> SUBSET Int]
      /\ cooldownTimers \in [Buttons -> SUBSET Int]
      /\ cooldown \in [Buttons -> BOOLEAN] /\ armedAt \in [Buttons -> Int]
    BY DEF InlineInit
<1>4. InlineInv
    BY <1>1, <1>2 DEF InlineInit, InlineInv, ArmedIsTimed
<1>3. CooldownInv
    BY DEF InlineInit, CooldownInv
<1> QED
    BY <1>3, <1>4

LEMMA InlineFirstClick ==
    ASSUME InlineInv, CooldownInv, NEW b \in Buttons, FirstClick(b)
    PROVE  InlineInv' /\ CooldownInv'
<1> USE WidgetsAssumption DEF InlineInv, FirstClick
<1>1. now' = now /\ armedActionId' = b /\ tooEarly' = tooEarly
    OBVIOUS
<1>2. /\ cooldown' \in [Buttons -> BOOLEAN]
      /\ disarmTimers' \in [Buttons -> SUBSET Int]
      /\ cooldownTimers' \in [Buttons -> SUBSET Int]
      /\ armedAt' \in [Buttons -> Int]
    OBVIOUS
<1>3. ArmedIsTimed'
    <2>1. now + Disarm \in disarmTimers'[b]
        OBVIOUS
    <2>2. now < now + Disarm /\ now + Disarm <= now + Disarm
        OBVIOUS
    <2> QED
        BY <1>1, <2>1, <2>2 DEF ArmedIsTimed
<1>4. armedAt'[b] = now
    OBVIOUS
<1>5. CooldownInv'
    <2> SUFFICES ASSUME ~rearmed' PROVE CooldownInv'
        BY DEF CooldownInv
    <2>1. ~rearmed /\ cooldownTimers[b] = {}
        OBVIOUS
    <2>2. ~tooEarly'
        BY <2>1, <1>1 DEF CooldownInv
    <2>3. ASSUME NEW d \in Buttons
          PROVE  /\ \A t \in cooldownTimers'[d] : t = armedAt'[d] + Cooldown
                 /\ ~cooldown'[d] /\ armedAt'[d] >= 0
                       => armedAt'[d] + Cooldown <= now'
        <3>1. CASE d = b
            BY <3>1, <2>1
        <3>2. CASE d # b
            BY <3>2, <2>1 DEF CooldownInv
        <3> QED
            BY <3>1, <3>2
    <2> QED
        BY <2>2, <2>3 DEF CooldownInv
<1> QED
    BY <1>1, <1>2, <1>3, <1>4, <1>5

(* Whatever disarms a button leaves the invariants, unless the action that *)
(* it carried out came too early. *)
LEMMA InlineDisarms ==
    ASSUME InlineInv, CooldownInv, NEW b \in Buttons, Disarms(b),
           tooEarly' => rearmed \/ tooEarly, tooEarly' \in BOOLEAN
    PROVE  InlineInv' /\ CooldownInv'
<1> USE WidgetsAssumption DEF InlineInv, Disarms
<1>1. InlineInv'
    <2>1. tooEarly' \in BOOLEAN
        OBVIOUS
    <2>2. NoButton \notin Buttons
        OBVIOUS
    <2>3. disarmTimers' \in [Buttons -> SUBSET Int]
        OBVIOUS
    <2> QED
        BY <2>1, <2>2, <2>3 DEF ArmedIsTimed
<1>2. CooldownInv'
    BY DEF CooldownInv
<1> QED
    BY <1>1, <1>2

LEMMA InlineSecondClick ==
    ASSUME InlineInv, CooldownInv, NEW b \in Buttons, SecondClick(b)
    PROVE  InlineInv' /\ CooldownInv'
<1>1. tooEarly' => rearmed \/ tooEarly
    BY WidgetsAssumption DEF InlineInv, CooldownInv, SecondClick
<1>2. tooEarly' \in BOOLEAN
    BY DEF InlineInv, SecondClick
<1> QED
    BY <1>1, <1>2, InlineDisarms DEF SecondClick

LEMMA InlineTicks ==
    ASSUME InlineInv, CooldownInv, InlineTick
    PROVE  InlineInv' /\ CooldownInv'
<1> USE WidgetsAssumption DEF InlineInv
<1>1. /\ now' = now + 1
      /\ cooldown' = [b \in Buttons |->
                         cooldown[b] /\ (now + 1) \notin cooldownTimers[b]]
      /\ disarmTimers' = [b \in Buttons |-> disarmTimers[b] \ {now + 1}]
      /\ cooldownTimers' = [b \in Buttons |-> cooldownTimers[b] \ {now + 1}]
      /\ armedAt' = armedAt /\ rearmed' = rearmed /\ tooEarly' = tooEarly
    BY DEF InlineTick
<1>2. armedActionId' = IF armedActionId \in Buttons
                          /\ (now + 1) \in disarmTimers[armedActionId]
                       THEN NoButton ELSE armedActionId
    BY DEF InlineTick
<1>3. /\ now' \in 0..MaxTicks /\ now \in Nat
      /\ cooldown' \in [Buttons -> BOOLEAN]
      /\ disarmTimers' \in [Buttons -> SUBSET Int]
      /\ cooldownTimers' \in [Buttons -> SUBSET Int]
      /\ armedAt' \in [Buttons -> Int]
      /\ armedActionId' \in Buttons \cup {NoButton}
    BY <1>1, <1>2 DEF InlineTick
<1>4. ArmedIsTimed'
    <2> SUFFICES ASSUME armedActionId' \in Buttons
                 PROVE  \E t \in disarmTimers'[armedActionId'] :
                            now' < t /\ t <= now' + Disarm
        BY DEF ArmedIsTimed
    <2>1. /\ armedActionId' = armedActionId
          /\ (now + 1) \notin disarmTimers[armedActionId]
        BY <1>2
    <2>2. PICK t \in disarmTimers[armedActionId] :
              now < t /\ t <= now + Disarm
        BY <2>1 DEF ArmedIsTimed
    <2>3. t \in Int /\ t # now + 1
        BY <2>1, <2>2
    <2>4. t \in disarmTimers'[armedActionId']
        BY <1>1, <2>1, <2>2, <2>3
    <2>5. now' < t /\ t <= now' + Disarm
        BY <1>1, <2>2, <2>3
    <2> QED
        BY <2>4, <2>5
<1>5. armedActionId' \in Buttons => armedAt'[armedActionId'] >= 0
    BY <1>1, <1>2
<1>6. CooldownInv'
    BY <1>1 DEF CooldownInv
<1>7. rearmed' \in BOOLEAN /\ tooEarly' \in BOOLEAN
    BY <1>1
<1>8. InlineInv'
    BY ONLY <1>3, <1>4, <1>5, <1>7 DEF InlineInv
<1> QED
    BY <1>6, <1>8

LEMMA InlineInvNext ==
    InlineInv /\ CooldownInv /\ [InlineNext]_inlineVars
        => InlineInv' /\ CooldownInv'
<1> SUFFICES ASSUME InlineInv, CooldownInv, [InlineNext]_inlineVars
             PROVE  InlineInv' /\ CooldownInv'
    OBVIOUS
<1>1. CASE UNCHANGED inlineVars
    BY <1>1 DEF inlineVars, InlineInv, CooldownInv, ArmedIsTimed
<1>2. ASSUME NEW b \in Buttons, CancelInline(b)
      PROVE  InlineInv' /\ CooldownInv'
    <2>1. /\ Disarms(b) /\ tooEarly' = tooEarly /\ tooEarly' \in BOOLEAN
        BY <1>2 DEF CancelInline, InlineInv
    <2>2. tooEarly' => rearmed \/ tooEarly
        BY <2>1
    <2> QED
        BY <2>1, <2>2, InlineDisarms
<1> QED
    BY <1>1, <1>2, InlineFirstClick, InlineSecondClick, InlineTicks
    DEF InlineNext

(* A button that is armed has a timer that disarms it within Disarm ticks  *)
(* (app.js:2172-2178).                                                     *)
THEOREM ArmedTimed == InlineSpec => []ArmedIsTimed
<1>1. InlineInv => ArmedIsTimed
    BY DEF InlineInv
<1> QED
    BY <1>1, InlineInvInit, InlineInvNext, PTL DEF InlineSpec

(* A double click does nothing, unless the button was armed twice within   *)
(* its cooldown (app.js:2169-2186).                                        *)
THEOREM DoubleClickHarmless == InlineSpec => []NoDoubleClick
<1>1. CooldownInv => NoDoubleClick
    BY DEF CooldownInv, NoDoubleClick
<1> QED
    BY <1>1, InlineInvInit, InlineInvNext, PTL DEF InlineSpec

-----------------------------------------------------------------------------
(* The print.                                                              *)

(* The timer of a print is set once its answer is there. *)
PrintInv ==
    /\ prints \in 0..MaxPrints
    /\ printing \in BOOLEAN /\ lateTimer \in BOOLEAN
    /\ print \in {"none", "request", "load", "dialog", "stuck"}
    /\ cleanups \subseteq 1..prints
    /\ print # "none" => prints # 0
    /\ print \in {"request", "load"} => prints \notin cleanups
    /\ PrintingEnds
    /\ OnePrint

LEMMA PrintInvInit == PrintInit => PrintInv
<1>1. 0 \in 0..MaxPrints
    BY WidgetsAssumption
<1> QED
    BY <1>1 DEF PrintInit, PrintInv, PrintingEnds, OnePrint

LEMMA PrintInvNext == PrintInv /\ [PrintNext]_printVars => PrintInv'
<1> SUFFICES ASSUME PrintInv, [PrintNext]_printVars PROVE PrintInv'
    OBVIOUS
<1> USE DEF PrintInv, PrintingEnds, OnePrint
<1>1. CASE UNCHANGED printVars
    BY <1>1 DEF printVars
<1>2. CASE PrintInvoicePDF
    BY <1>2, WidgetsAssumption DEF PrintInvoicePDF
<1>3. CASE PrintFails
    BY <1>3 DEF PrintFails
<1>4. CASE PDFArrives
    BY <1>4 DEF PDFArrives
<1>5. CASE PrintLoaded
    BY <1>5 DEF PrintLoaded
<1>6. CASE Afterprint
    BY <1>6 DEF Afterprint
<1>7. ASSUME NEW n \in 1..MaxPrints, PrintTimeout(n) PROVE PrintInv'
    BY <1>7 DEF PrintTimeout
<1>8. CASE PrintThrows
    BY <1>8 DEF PrintThrows
<1> QED
    BY <1>1, <1>2, <1>3, <1>4, <1>5, <1>6, <1>7, <1>8 DEF PrintNext

(* While the flag is up, something that takes it down is still to come,    *)
(* unless the dialog has thrown an error (app.js:719-737).                 *)
THEOREM PrintingHasAnEnd == PrintSpec => []PrintingEnds
<1>1. PrintInv => PrintingEnds
    BY DEF PrintInv
<1> QED
    BY <1>1, PrintInvInit, PrintInvNext, PTL DEF PrintSpec

(* One print at a time, until a late timer (app.js:697-700, 735).          *)
THEOREM PrintsOneByOne == PrintSpec => []OnePrint
<1>1. PrintInv => OnePrint
    BY DEF PrintInv
<1> QED
    BY <1>1, PrintInvInit, PrintInvNext, PTL DEF PrintSpec

-----------------------------------------------------------------------------
(* All widgets.                                                            *)

(* The widgets have no variable in common: on a page with all of them the  *)
(* timers, questions and flags belong to what is on the screen             *)
(* (app.js:71-88, 697-737, 2104-2186).                                     *)
THEOREM WidgetsStayInOrder ==
    ToastSpec /\ ConfirmSpec /\ InlineSpec /\ PrintSpec => []WidgetsInOrder
<1>1. /\ ToastHasItsTimer /\ QuestionIsShown
      /\ ArmedIsTimed /\ NoDoubleClick
      /\ PrintingEnds /\ OnePrint
      => WidgetsInOrder
    BY DEF WidgetsInOrder
<1> QED
    BY <1>1, ToastTimed, QuestionShown, ArmedTimed, DoubleClickHarmless,
       PrintingHasAnEnd, PrintsOneByOne, PTL

(* The widgets keep to their types; app.js remembers a timer exactly while  *)
(* a toast is shown (app.js:2110-2123).                                    *)
THEOREM WidgetsTyped ==
    ToastSpec /\ ConfirmSpec /\ InlineSpec /\ PrintSpec => []WidgetsTypeOK
<1>1. ToastInv /\ ConfirmInv /\ InlineInv /\ PrintInv => WidgetsTypeOK
    BY DEF ToastInv, ConfirmInv, InlineInv, PrintInv, WidgetsTypeOK
<1> QED
    BY <1>1, ToastInvInit, ToastInvNext, ConfirmInvInit, ConfirmInvNext,
       InlineInvInit, InlineInvNext, PrintInvInit, PrintInvNext, PTL
    DEF ToastSpec, ConfirmSpec, InlineSpec, PrintSpec

-----------------------------------------------------------------------------
(* The shell.                                                              *)

LEMMA ShellTypeInit == ShellInit => ShellTypeOK
<1> SUFFICES ASSUME ShellInit PROVE ShellTypeOK
    OBVIOUS
<1>1. loads \in 0..MaxLoads
    BY ShellAssumption DEF ShellInit
<1>2. currentView \in Views /\ shown \subseteq Flags
    BY DEF ShellInit, Views, Flags
<1> QED
    BY <1>1, <1>2 DEF ShellInit, ShellTypeOK

LEMMA ShellTypeNext == ShellTypeOK /\ [ShellNext]_shellVars => ShellTypeOK'
<1> SUFFICES ASSUME ShellTypeOK, [ShellNext]_shellVars PROVE ShellTypeOK'
    OBVIOUS
<1> USE ShellAssumption DEF ShellTypeOK, eulaVars, viewVars, serverVars
<1>1. CASE UNCHANGED shellVars
    BY <1>1 DEF shellVars
<1>2. ASSUME NEW w \in Workspaces, Load(w) PROVE ShellTypeOK'
    <2>1. loads' \in 0..MaxLoads
        BY <1>2 DEF Load
    <2>2. /\ workspace' \in Workspaces /\ accepted' \subseteq Workspaces
          /\ showEulaModal' \in {"none", "forced"}
          /\ initialised' \in BOOLEAN
        BY <1>2 DEF Load, StartsIn
    <2>3. currentView' \in Views /\ shown' \subseteq Flags
        BY <1>2 DEF Load, StartsIn, Views, Flags
    <2> QED
        BY <1>2, <2>1, <2>2, <2>3 DEF Load, StartsIn
<1>3. CASE AcceptEula \/ ReadEula \/ CloseEula
    BY <1>3 DEF AcceptEula, ReadEula, CloseEula
<1>4. ASSUME NEW view \in Views, ClickView(view) PROVE ShellTypeOK'
    BY <1>4 DEF ClickView, ShowView
<1>5. CASE ToggleDashboard
    BY <1>5 DEF ToggleDashboard, Flags
<1>6. CASE ShutdownServer \/ ShutdownDeclined \/ ShutdownConfirmed
    BY <1>6 DEF ShutdownServer, ShutdownDeclined, ShutdownConfirmed
<1>7. CASE ShutdownReturns \/ PageSeenAgain \/ Watchdog
    BY <1>7 DEF ShutdownReturns, PageSeenAgain, Watchdog
<1> QED
    BY <1>1, <1>2, <1>3, <1>4, <1>5, <1>6, <1>7
    DEF ShellNext, FrameClicks, ShutdownActs

(* Every variable of the frame has its type. *)
THEOREM ShellTyped == ShellSpec => []ShellTypeOK
BY ShellTypeInit, ShellTypeNext, PTL DEF ShellSpec

-----------------------------------------------------------------------------
(* The licence.  A page that has been loaded has removed the keys of the   *)
(* other workspaces, so that the key it adds is the only one.              *)

EulaInv ==
    /\ AcceptedBeforeUse
    /\ OneKey
    /\ loads > 0 => accepted \subseteq {workspace}

LEMMA EulaInvInit == ShellInit => EulaInv
BY DEF ShellInit, EulaInv, AcceptedBeforeUse, OneKey

LEMMA AtMostOneKey ==
    ASSUME NEW w, NEW keys \in SUBSET {w} PROVE Cardinality(keys) <= 1
<1>1. IsFiniteSet({w}) /\ Cardinality({w}) = 1
    BY FS_Singleton
<1>2. Cardinality(keys) \in Nat /\ Cardinality(keys) <= Cardinality({w})
    BY <1>1, FS_Subset, FS_CardinalityType
<1> QED
    BY <1>1, <1>2

LEMMA EulaInvNext ==
    ShellTypeOK /\ EulaInv /\ [ShellNext]_shellVars => EulaInv'
<1> SUFFICES ASSUME ShellTypeOK, EulaInv, [ShellNext]_shellVars
             PROVE  EulaInv'
    OBVIOUS
<1>1. CASE UNCHANGED eulaVars
    BY <1>1 DEF eulaVars, EulaInv, AcceptedBeforeUse, OneKey
<1>2. ASSUME NEW w \in Workspaces, Load(w) PROVE EulaInv'
    <2>1. /\ workspace' = w
          /\ accepted' = accepted \cap {w}
          /\ initialised' => w \in accepted'
        BY <1>2 DEF Load, StartsIn
    <2>2. Cardinality(accepted') <= 1
        BY <2>1, AtMostOneKey
    <2> QED
        BY <2>1, <2>2 DEF EulaInv, AcceptedBeforeUse, OneKey
<1>3. CASE AcceptEula /\ loads > 0
    <2>1. /\ workspace' = workspace /\ loads' = loads
          /\ accepted' = accepted \cup {workspace}
        BY <1>3 DEF AcceptEula
    <2>2. accepted' \subseteq {workspace}
        BY <1>3, <2>1 DEF EulaInv
    <2>3. Cardinality(accepted') <= 1
        BY <2>2, AtMostOneKey
    <2> QED
        BY <2>1, <2>2, <2>3 DEF EulaInv, AcceptedBeforeUse, OneKey
<1>4. CASE ReadEula \/ CloseEula
    BY <1>4 DEF ReadEula, CloseEula, EulaInv, AcceptedBeforeUse, OneKey
<1> QED
    BY <1>1, <1>2, <1>3, <1>4
    DEF ShellNext, FrameClicks, ClickView, ToggleDashboard, ShutdownActs,
        ShutdownServer, ShutdownDeclined, ShutdownConfirmed, ShutdownReturns,
        PageSeenAgain, Watchdog, shellVars

(* The page works with the books of a workspace only if its licence has    *)
(* been accepted (app.js:350-379), whatever workspaces the page is loaded  *)
(* for one after the other.                                                *)
THEOREM LicenceFirst == ShellSpec => []AcceptedBeforeUse
<1>1. EulaInv => AcceptedBeforeUse
    BY DEF EulaInv
<1> QED
    BY <1>1, ShellTypeInit, ShellTypeNext, EulaInvInit, EulaInvNext, PTL
    DEF ShellSpec

(* The browser holds the key of one workspace at most (app.js:359-370).    *)
THEOREM KeysDoNotGather == ShellSpec => []OneKey
<1>1. EulaInv => OneKey
    BY DEF EulaInv
<1> QED
    BY <1>1, ShellTypeInit, ShellTypeNext, EulaInvInit, EulaInvNext, PTL
    DEF ShellSpec

-----------------------------------------------------------------------------
(* The views.                                                              *)

LEMMA OneViewNext ==
    OneView /\ [ShellNext]_shellVars => OneView'
<1> SUFFICES ASSUME OneView, [ShellNext]_shellVars PROVE OneView'
    OBVIOUS
<1>1. CASE UNCHANGED viewVars
    BY <1>1 DEF viewVars, OneView
<1>2. ASSUME NEW w \in Workspaces, Load(w) PROVE OneView'
    BY <1>2 DEF Load, StartsIn, OneView, Flags
<1>3. ASSUME NEW view \in Views, ClickView(view) PROVE OneView'
    BY <1>3 DEF ClickView, ShowView, OneView
<1>4. CASE ToggleDashboard
    BY <1>4 DEF ToggleDashboard, OneView
<1> QED
    BY <1>1, <1>2, <1>3, <1>4
    DEF ShellNext, FrameClicks, AcceptEula, ReadEula, CloseEula, ShutdownActs,
        ShutdownServer, ShutdownDeclined, ShutdownConfirmed, ShutdownReturns,
        PageSeenAgain, Watchdog, shellVars

(* The screen shows the view that was chosen (app.js:1949-2000).           *)
THEOREM ViewsExclude == ShellSpec => []OneView
<1>1. ShellInit => OneView
    BY DEF ShellInit, OneView, Flags
<1> QED
    BY <1>1, OneViewNext, PTL DEF ShellSpec

-----------------------------------------------------------------------------
(* The stop.  Once the stop has been asked for, the page has ceased to     *)
(* ping.                                                                   *)

StopInv ==
    /\ StopIsComing
    /\ shutdown = "sent" => ~pinging \/ revisited

LEMMA StopInvNext ==
    ShellTypeOK /\ StopInv /\ [ShellNext]_shellVars => StopInv'
<1> SUFFICES ASSUME ShellTypeOK, StopInv, [ShellNext]_shellVars PROVE StopInv'
    OBVIOUS
<1> USE DEF StopInv, StopIsComing, ShellTypeOK
<1>1. CASE UNCHANGED serverVars
    BY <1>1 DEF serverVars
<1>2. ASSUME NEW w \in Workspaces, Load(w) PROVE StopInv'
    BY <1>2 DEF Load
<1>3. CASE ShutdownServer \/ ShutdownDeclined \/ ShutdownConfirmed
    BY <1>3 DEF ShutdownServer, ShutdownDeclined, ShutdownConfirmed, Blocked
<1>4. CASE ShutdownReturns \/ PageSeenAgain \/ Watchdog
    BY <1>4 DEF ShutdownReturns, PageSeenAgain, Watchdog
<1> QED
    BY <1>1, <1>2, <1>3, <1>4
    DEF ShellNext, FrameClicks, AcceptEula, ReadEula, CloseEula, ClickView,
        ToggleDashboard, ShutdownActs, shellVars

(* When the page says that the server is stopped, nothing of the page keeps *)
(* it up any longer, unless it is seen again (app.js:915-924).             *)
THEOREM StopComes == ShellSpec => []StopIsComing
<1>1. ShellInit => StopInv
    BY DEF ShellInit, StopInv, StopIsComing
<1>2. StopInv => StopIsComing
    BY DEF StopInv
<1> QED
    BY <1>1, <1>2, ShellTypeInit, ShellTypeNext, StopInvNext, PTL
    DEF ShellSpec

(* Licence, view and stop together (app.js:350-379, 915-924, 1949-2000).   *)
THEOREM ShellStaysInOrder == ShellSpec => []ShellInOrder
<1>1. AcceptedBeforeUse /\ OneKey /\ OneView /\ StopIsComing => ShellInOrder
    BY DEF ShellInOrder
<1> QED
    BY <1>1, LicenceFirst, KeysDoNotGather, ViewsExclude, StopComes, PTL

-----------------------------------------------------------------------------
(* The palette.  While it is closed its input has the focus only if it got *)
(* it there.                                                               *)

PaletteInv ==
    /\ hasFocus => isOpen \/ strayFocus
    /\ ClosedRunsNothing
    /\ NoPaletteOverEula

LEMMA PaletteInvNext == PaletteInv /\ [PaletteNext]_paletteVars => PaletteInv'
<1> SUFFICES ASSUME PaletteInv, [PaletteNext]_paletteVars PROVE PaletteInv'
    OBVIOUS
<1> USE DEF PaletteInv, ClosedRunsNothing, NoPaletteOverEula
<1>1. CASE UNCHANGED paletteVars
    BY <1>1 DEF paletteVars, shellVars, eulaVars, focusVars, ranVars
<1>2. ASSUME NEW w \in Workspaces, LoadPalette(w) PROVE PaletteInv'
    BY <1>2 DEF LoadPalette, ranVars
<1>3. CASE FrameActs
    BY <1>3 DEF FrameActs, ToggleDashboard, eulaVars, focusVars, ranVars
<1>4. CASE CtrlK \/ FocusTimer \/ TabToInput \/ ClosePalette
    <2>1. CASE CtrlK
        BY <2>1 DEF CtrlK, ClosesPalette, shellVars, eulaVars, ranVars
    <2>2. CASE FocusTimer
        BY <2>2 DEF FocusTimer, shellVars, eulaVars, ranVars
    <2>3. CASE TabToInput
        BY <2>3 DEF TabToInput, shellVars, eulaVars, ranVars
    <2>4. CASE ClosePalette
        BY <2>4 DEF ClosePalette, ClosesPalette, shellVars, eulaVars, ranVars
    <2> QED
        BY <1>4, <2>1, <2>2, <2>3, <2>4
<1>5. ASSUME NEW c, ClosesPalette, Runs(c),
             isOpen \/ hasFocus
      PROVE  PaletteInv'
    <2>1. /\ isOpen' = FALSE /\ hasFocus' = FALSE
          /\ ranClosed' = (ranClosed \/ ~isOpen)
          /\ strayFocus' = strayFocus
        BY <1>5 DEF ClosesPalette, Runs
    <2>2. ranClosed' => strayFocus'
        BY <1>5, <2>1
    <2> QED
        BY <2>1, <2>2
<1>6. CASE ArrowDown \/ ArrowUp \/ \E matches \in Queries : TypeQuery(matches)
    BY <1>6 DEF ArrowDown, ArrowUp, TypeQuery, MovesTo, shellVars, eulaVars,
                focusVars, ranVars
<1>7. ASSUME NEW c \in AllCommands, MouseOver(c) PROVE PaletteInv'
    BY <1>7 DEF MouseOver, MovesTo, shellVars, eulaVars, focusVars, ranVars
<1>8. CASE Enter
    BY <1>5, <1>8 DEF Enter
<1>9. ASSUME NEW c \in AllCommands, ClickCommand(c) PROVE PaletteInv'
    BY <1>5, <1>9 DEF ClickCommand
<1> QED
    BY <1>1, <1>2, <1>3, <1>4, <1>6, <1>7, <1>8, <1>9
    DEF PaletteNext, PaletteActs

(* The closed palette runs a command only if its hidden input got the focus *)
(* while it was closed (command-palette.js:107-121).                       *)
THEOREM ClosedPaletteRests == PaletteSpec => []ClosedRunsNothing
<1>1. PaletteInit => PaletteInv
    BY DEF PaletteInit, PaletteInv, ClosedRunsNothing, NoPaletteOverEula
<1>2. PaletteInv => ClosedRunsNothing
    BY DEF PaletteInv
<1> QED
    BY <1>1, <1>2, PaletteInvNext, PTL DEF PaletteSpec

(* The palette is never open over the licence (command-palette.js:161-165). *)
THEOREM LicenceOnTop == PaletteSpec => []NoPaletteOverEula
<1>1. PaletteInit => PaletteInv
    BY DEF PaletteInit, PaletteInv, ClosedRunsNothing, NoPaletteOverEula
<1>2. PaletteInv => NoPaletteOverEula
    BY DEF PaletteInv
<1> QED
    BY <1>1, <1>2, PaletteInvNext, PTL DEF PaletteSpec

-----------------------------------------------------------------------------
(* The highlight.  The places of a list are taken one by one, from 0 on.   *)
LEMMA Places ==
    ASSUME NEW S \in SUBSET Int, IsFiniteSet(S),
           NEW i \in Nat, i < Cardinality(S)
    PROVE  \E c \in S : At(S, i) = {c}
<1> DEFINE Before(c) == {d \in S : d < c}
           n == Cardinality(S)
           place == [c \in S |-> Cardinality(Before(c))]
<1>1. n \in Nat
    BY FS_CardinalityType
<1>2. ASSUME NEW T \in SUBSET S, NEW U \in SUBSET T, T # U
      PROVE  /\ Cardinality(U) \in Nat /\ Cardinality(T) \in Nat
             /\ Cardinality(U) < Cardinality(T)
    <2>1. IsFiniteSet(T)
        BY FS_Subset
    <2>2. IsFiniteSet(U)
        BY <2>1, FS_Subset
    <2>3. Cardinality(U) <= Cardinality(T) /\ Cardinality(T) # Cardinality(U)
        BY <2>1, <1>2, FS_Subset
    <2> QED
        BY <2>1, <2>2, <2>3, FS_CardinalityType
<1>3. ASSUME NEW c \in S PROVE place[c] \in 0..(n - 1)
    <2>1. Before(c) \in SUBSET S /\ S # Before(c)
        OBVIOUS
    <2>2. Cardinality(Before(c)) \in Nat /\ Cardinality(Before(c)) < n
        BY <2>1, <1>2
    <2> QED
        BY <2>2, <1>1
<1>4. ASSUME NEW c \in S, NEW e \in S, c < e PROVE place[c] < place[e]
    <2>a. c \in Int /\ e \in Int /\ \A d \in S : d \in Int
        OBVIOUS
    <2>b. \A d \in S : d < c => d < e
        BY <1>4, <2>a
    <2>c. c < e /\ ~(c < c)
        BY <1>4, <2>a
    <2>1. /\ Before(e) \in SUBSET S /\ Before(c) \in SUBSET Before(e)
          /\ c \in Before(e) /\ c \notin Before(c)
        BY <2>b, <2>c
    <2>2. Cardinality(Before(c)) < Cardinality(Before(e))
        BY <2>1, <1>2
    <2> QED
        BY <2>2
<1>5. place \in [S -> 0..(n - 1)]
    BY <1>3
<1>6. ASSUME NEW c \in S, NEW e \in S, place[c] = place[e] PROVE c = e
    <2>1. place[c] \in Int /\ place[e] \in Int
        BY <1>1, <1>3
    <2> HIDE DEF place
    <2>2. ~(c < e) /\ ~(e < c)
        BY <2>1, <1>4, <1>6
    <2> QED
        BY <2>2
<1>7. place \in Injection(S, 0..(n - 1))
    BY <1>5, <1>6 DEF Injection, IsInjective
<1>8. IsFiniteSet(0..(n - 1)) /\ Cardinality(0..(n - 1)) = n
    <2> DEFINE m == n - 1
    <2>1. m \in Int /\ 0 <= m /\ m + 1 = n
        BY <1>1
    <2> HIDE DEF m, n
    <2>2. IsFiniteSet(0..m) /\ Cardinality(0..m) = m + 1
        BY <2>1, FS_Interval
    <2> QED
        BY <2>1, <2>2 DEF m
<1>9. place \in Surjection(S, 0..(n - 1))
    <2> HIDE DEF place
    <2> QED
        BY <1>7, <1>8, FS_Injection
<1>10. i \in 0..(n - 1)
    BY <1>1
<1>11. PICK c \in S : place[c] = i
    BY <1>9, <1>10 DEF Surjection
<1>12. \A e \in S : place[e] = i <=> e = c
    BY <1>6, <1>11
<1> QED
    BY <1>12 DEF At

LEMMA CommandsAreNine ==
    IsFiniteSet(AllCommands) /\ Cardinality(AllCommands) = 9
<1> DEFINE a == 1  b == 9
<1>1. a \in Int /\ b \in Int /\ ~(a > b) /\ b - a + 1 = 9
    OBVIOUS
<1>3. AllCommands = a..b
    BY DEF AllCommands
<1> HIDE DEF a, b
<1>2. IsFiniteSet(a..b) /\ Cardinality(a..b) = b - a + 1
    BY <1>1, FS_Interval
<1> QED
    BY <1>1, <1>2, <1>3

LEMMA ListsAreFinite ==
    ASSUME NEW matches \in SUBSET AllCommands
    PROVE  /\ IsFiniteSet(matches) /\ Cardinality(matches) \in 0..9
           /\ Cardinality(matches) = 0 <=> matches = {}
<1>1. IsFiniteSet(matches) /\ Cardinality(matches) <= 9
    BY CommandsAreNine, FS_Subset
<1> QED
    BY <1>1, FS_CardinalityType, FS_EmptySet

(* What is drawn: a highlight at the place of the index, within the list.  *)
LEMMA Rendered ==
    ASSUME NEW matches \in SUBSET AllCommands, NEW index \in Nat,
           RenderResults(matches, index)
    PROVE  /\ currentResults' = matches /\ activeIndex' \in 0..8
           /\ matches # {} => At(matches, activeIndex') = {highlighted'}
<1>1. /\ IsFiniteSet(matches) /\ Cardinality(matches) \in 0..9
      /\ Cardinality(matches) = 0 <=> matches = {}
    BY ListsAreFinite
<1> DEFINE i == IF index >= Cardinality(matches) THEN 0 ELSE index
<1>2. i \in 0..8 /\ (matches # {} => i < Cardinality(matches))
    BY <1>1
<1>3. /\ currentResults' = matches /\ activeIndex' = i
      /\ highlighted' = HighlightOf(matches, i)
    BY DEF RenderResults
<1> HIDE DEF i
<1>4. ASSUME matches # {} PROVE At(matches, i) = {highlighted'}
    <2>1. PICK c \in matches : At(matches, i) = {c}
        <3>1. matches \in SUBSET Int /\ i \in Nat
            BY <1>2 DEF AllCommands
        <3> QED
            BY <3>1, <1>1, <1>2, <1>4, Places
    <2> QED
        BY <2>1, <1>3 DEF HighlightOf
<1> QED
    BY <1>2, <1>3, <1>4

ListInv == PaletteTypeOK /\ HighlightedIsRun

LEMMA Moved ==
    ASSUME ListInv, NEW matches \in SUBSET AllCommands, NEW index \in Nat,
           RenderResults(matches, index), query' = matches,
           UNCHANGED <<isOpen, focusVars, ranVars>>
    PROVE  ListInv'
BY Rendered DEF ListInv, PaletteTypeOK, HighlightedIsRun, focusVars, ranVars

LEMMA ListInvNext == ListInv /\ [PaletteNext]_paletteVars => ListInv'
<1> SUFFICES ASSUME ListInv, [PaletteNext]_paletteVars PROVE ListInv'
    OBVIOUS
<1> USE DEF ListInv
<1>a. AllCommands \in SUBSET AllCommands /\ 0 \in Nat
    OBVIOUS
<1>b. /\ Cardinality(currentResults) \in Nat
      /\ currentResults # {} => Cardinality(currentResults) # 0
    <2>1. currentResults \in SUBSET AllCommands
        BY DEF PaletteTypeOK
    <2> QED
        BY <2>1, ListsAreFinite
<1>1. CASE UNCHANGED paletteVars
    BY <1>1 DEF paletteVars, listVars, focusVars, ranVars, PaletteTypeOK,
                HighlightedIsRun
<1>2. ASSUME NEW w \in Workspaces, LoadPalette(w) PROVE ListInv'
    <2>1. 0 \in 0..8 /\ AllCommands \subseteq AllCommands
        OBVIOUS
    <2> QED
        BY <1>2, <2>1 DEF LoadPalette, ranVars, PaletteTypeOK, HighlightedIsRun
<1>3. CASE FrameActs
    BY <1>3 DEF FrameActs, listVars, focusVars, ranVars, PaletteTypeOK,
                HighlightedIsRun
<1>4. CASE CtrlK
    <2>1. CASE isOpen
        BY <1>4, <2>1 DEF CtrlK, ClosesPalette, listVars, ranVars,
                          PaletteTypeOK, HighlightedIsRun
    <2>2. CASE ~isOpen
        <3>1. /\ RenderResults(AllCommands, 0) /\ query' = AllCommands
              /\ isOpen' = TRUE /\ focusTimer' = TRUE /\ hasFocus' = hasFocus
              /\ UNCHANGED <<gone, strayFocus, ranVars>>
            BY <1>4, <2>2 DEF CtrlK
        <3>2. /\ currentResults' = AllCommands /\ activeIndex' \in 0..8
              /\ AllCommands # {}
                    => At(AllCommands, activeIndex') = {highlighted'}
            BY <3>1, <1>a, Rendered
        <3>3. At(currentResults', activeIndex') = {highlighted'}
            BY <3>2 DEF AllCommands
        <3> QED
            BY <3>1, <3>2, <3>3 DEF PaletteTypeOK, HighlightedIsRun, ranVars
    <2> QED
        BY <2>1, <2>2 DEF PaletteTypeOK
<1>5. CASE FocusTimer \/ TabToInput \/ ClosePalette
    <2>1. /\ UNCHANGED <<listVars, gone, ranVars>>
          /\ isOpen' \in BOOLEAN /\ hasFocus' \in BOOLEAN
          /\ focusTimer' \in BOOLEAN /\ strayFocus' \in BOOLEAN
        BY <1>5 DEF FocusTimer, TabToInput, ClosePalette, ClosesPalette,
                    PaletteTypeOK
    <2> QED
        BY <2>1 DEF listVars, ranVars, PaletteTypeOK, HighlightedIsRun
<1>6. ASSUME NEW index \in Nat, MovesTo(index) PROVE ListInv'
    BY <1>6, Moved DEF MovesTo, PaletteTypeOK
<1>7. CASE ArrowDown
    <2> DEFINE n == Cardinality(currentResults)
               index == (activeIndex + 1) % n
    <2>1. n \in Nat \ {0} /\ activeIndex + 1 \in Nat
        BY <1>7, <1>b DEF ArrowDown, PaletteTypeOK
    <2>2. index \in Nat
        BY <2>1
    <2> HIDE DEF index
    <2> QED
        BY <1>6, <1>7, <2>2 DEF ArrowDown, index
<1>8. CASE ArrowUp
    <2> DEFINE n == Cardinality(currentResults)
               index == (activeIndex - 1 + n) % n
    <2>1. n \in Nat \ {0} /\ activeIndex - 1 + n \in Nat
        BY <1>8, <1>b DEF ArrowUp, PaletteTypeOK
    <2>2. index \in Nat
        BY <2>1
    <2> HIDE DEF index
    <2> QED
        BY <1>6, <1>8, <2>2 DEF ArrowUp, index
<1>9. ASSUME NEW matches \in Queries, TypeQuery(matches) PROVE ListInv'
    <2>1. matches \in SUBSET AllCommands
        BY PaletteAssumption DEF AllCommands
    <2> QED
        BY <1>9, <2>1, <1>a, Moved DEF TypeQuery
<1>10. ASSUME NEW c, MouseOver(c) PROVE ListInv'
    <2> DEFINE index == Cardinality({d \in currentResults : d < c})
    <2>1. index \in Nat
        <3>1. IsFiniteSet(currentResults)
            BY ListsAreFinite DEF PaletteTypeOK
        <3>2. {d \in currentResults : d < c} \in SUBSET currentResults
            OBVIOUS
        <3>3. IsFiniteSet({d \in currentResults : d < c})
            BY <3>1, <3>2, FS_Subset
        <3> QED
            BY <3>3, FS_CardinalityType
    <2> HIDE DEF index
    <2> QED
        BY <1>6, <1>10, <2>1 DEF MouseOver, index
<1>11. ASSUME NEW c, Runs(c), ClosesPalette,
              ranOther' = ranOther
       PROVE  ListInv'
    <2>1. /\ isOpen' = FALSE /\ hasFocus' = FALSE
          /\ UNCHANGED <<listVars, focusTimer, strayFocus>>
        BY <1>11 DEF Runs, ClosesPalette
    <2>2. gone' \in BOOLEAN /\ ranClosed' \in BOOLEAN
        BY <1>11 DEF Runs
    <2> QED
        BY <1>11, <2>1, <2>2 DEF listVars, PaletteTypeOK, HighlightedIsRun
<1>12. CASE Enter
    <2>1. PICK c \in At(currentResults, activeIndex) :
              Runs(c) /\ ranOther' = (ranOther \/ c # highlighted)
        BY <1>12 DEF Enter
    <2>2. c = highlighted
        BY <2>1 DEF HighlightedIsRun, At
    <2>3. ranOther' = ranOther
        BY <2>1, <2>2 DEF PaletteTypeOK
    <2> QED
        BY <1>11, <1>12, <2>1, <2>3 DEF Enter
<1>13. ASSUME NEW c, ClickCommand(c) PROVE ListInv'
    BY <1>11, <1>13 DEF ClickCommand
<1> QED
    BY <1>1, <1>2, <1>3, <1>4, <1>5, <1>7, <1>8, <1>9, <1>10, <1>12, <1>13
    DEF PaletteNext, PaletteActs

LEMMA ListInvInit == PaletteInit => ListInv
<1>1. 0 \in 0..8 /\ AllCommands \subseteq AllCommands
    OBVIOUS
<1> QED
    BY <1>1 DEF PaletteInit, ListInv, PaletteTypeOK, HighlightedIsRun

(* Enter runs the command that is highlighted (command-palette.js:133-157), *)
(* whatever is typed and however the highlight is moved in between.        *)
THEOREM HighlightIsRun == PaletteSpec => []HighlightedIsRun
BY ListInvInit, ListInvNext, PTL DEF PaletteSpec, ListInv

(* Every variable of the palette has its type. *)
THEOREM PaletteTyped == PaletteSpec => []PaletteTypeOK
BY ListInvInit, ListInvNext, PTL DEF PaletteSpec, ListInv

(* The palette runs the command it shows, and none when it is not to be    *)
(* used (command-palette.js:107-165).                                      *)
THEOREM PaletteStaysInOrder == PaletteSpec => []PaletteInOrder
<1>1. HighlightedIsRun /\ ClosedRunsNothing /\ NoPaletteOverEula
        => PaletteInOrder
    BY DEF PaletteInOrder
<1> QED
    BY <1>1, HighlightIsRun, ClosedPaletteRests, LicenceOnTop, PTL

-----------------------------------------------------------------------------
(* The shell under the palette, whose commands change the view whatever    *)
(* covers the page: its steps are steps of the shell, or show a view.      *)

ShellInv == ShellTypeOK /\ EulaInv /\ OneView /\ StopInv

LEMMA ShellInvInit == ShellInit => ShellInv
BY ShellTypeInit, EulaInvInit
DEF ShellInv, ShellInit, OneView, Flags, StopInv, StopIsComing

LEMMA ShellInvNext == ShellInv /\ [ShellNext]_shellVars => ShellInv'
BY ShellTypeNext, EulaInvNext, OneViewNext, StopInvNext DEF ShellInv

LEMMA CommandShowsView ==
    ASSUME ShellInv, NEW view \in Views, ShowView(view),
           UNCHANGED <<eulaVars, serverVars>>
    PROVE  ShellInv'
<1>1. ShellTypeOK'
    BY DEF ShellInv, ShellTypeOK, ShowView, eulaVars, serverVars
<1>2. EulaInv'
    BY DEF ShellInv, EulaInv, AcceptedBeforeUse, OneKey, eulaVars
<1>3. OneView'
    BY DEF OneView, ShowView
<1>4. StopInv'
    BY DEF ShellInv, StopInv, StopIsComing, serverVars
<1> QED
    BY <1>1, <1>2, <1>3, <1>4 DEF ShellInv

LEMMA PaletteOverShell ==
    ShellInv /\ [PaletteNext]_paletteVars => ShellInv'
<1> SUFFICES ASSUME ShellInv, [PaletteNext]_paletteVars PROVE ShellInv'
    OBVIOUS
<1>1. CASE UNCHANGED shellVars
    BY <1>1, ShellInvNext
<1>2. ASSUME NEW w \in Workspaces, LoadPalette(w) PROVE ShellInv'
    BY <1>2, ShellInvNext DEF LoadPalette, ShellNext
<1>3. CASE FrameActs /\ loads > 0
    BY <1>3, ShellInvNext DEF FrameActs, ShellNext
<1>4. ASSUME NEW c, Runs(c) PROVE ShellInv'
    <2>1. UNCHANGED <<eulaVars, serverVars>>
        BY <1>4 DEF Runs
    <2>2. CASE NavOf[c] \in Views
        BY <1>4, <2>1, <2>2, CommandShowsView DEF Runs
    <2>3. CASE NavOf[c] \notin Views
        BY <1>1, <1>4, <2>1, <2>3 DEF Runs, shellVars
    <2> QED
        BY <2>2, <2>3
<1>5. CASE Enter
    BY <1>4, <1>5 DEF Enter
<1>6. ASSUME NEW c, ClickCommand(c) PROVE ShellInv'
    BY <1>4, <1>6 DEF ClickCommand
<1>7. CASE UNCHANGED paletteVars
    BY <1>1, <1>7 DEF paletteVars
<1> QED
    BY <1>1, <1>2, <1>3, <1>5, <1>6, <1>7
    DEF PaletteNext, PaletteActs, CtrlK, FocusTimer, TabToInput, ClosePalette,
        ArrowDown, ArrowUp, TypeQuery, MouseOver, MovesTo

(* The frame stays in order under the palette, though its commands show    *)
(* views over licence, question and stop (app.js:350-379, 1949-2000).      *)
THEOREM ShellInOrderUnderPalette ==
    PaletteSpec => [](ShellTypeOK /\ ShellInOrder)
<1>1. PaletteInit => ShellInv
    BY ShellInvInit DEF PaletteInit
<1>2. ShellInv => ShellTypeOK /\ ShellInOrder
    BY DEF ShellInv, EulaInv, StopInv, ShellInOrder
<1> QED
    BY <1>1, <1>2, PaletteOverShell, PTL DEF PaletteSpec
=============================================================================
