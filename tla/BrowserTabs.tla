---------------------------- MODULE BrowserTabs ----------------------------
(***************************************************************************)
(* Guarded tools on the browser of the user, for a search or a spreadsheet *)
(* task with an approved plan.  A tool asks the extension about the active *)
(* tab, decides, and acts in later calls; the user may switch tabs between *)
(* any two of them.  The executor takes one tool call at a time.           *)
(*                                                                         *)
(* Any call of the extension may succeed, fail, or find it disconnected.   *)
(* What typing and keys do to the page of a tab is left out.               *)
(***************************************************************************)
EXTENDS Naturals

CONSTANTS
    ControlUi, UserTabs, NewTabs,   \* the chat's own tab, the user's, and those not open yet
    NoTab,
    TabLimit                        \* _current_browser_new_tab_limit of the plan

Tabs == {ControlUi} \cup UserTabs \cup NewTabs

ASSUME NoTabAssumption == NoTab \notin Tabs
Outcomes == {"ok", "failed", "disconnected"}
Sites == {"target", "other"}   \* the page the task is for: a search page, or a spreadsheet

VARIABLES
    task,     \* "search" or "sheet"
    page,     \* what a tab shows, "closed" when there is no such tab
    active,   \* the tab in front
    opened,   \* ids of the task's tabs, and the last one: of the order of the list only the end is used
    count,    \* new tabs counted so far
    down,     \* the disconnected flag
    sheet,    \* of a spreadsheet task: the page of the destination tab, cell_edit_ready, and whether
              \* a safe target is remembered
    call,     \* the tool call in progress
    own,      \* history: tabs the task has created or navigated
    unsure    \* history: the user has switched tabs during a call, or a new-tab hotkey was pressed
              \* without knowing the tab before it

tabsVars == <<task, page, active, opened, count, down, sheet, call, own, unsure>>

NoCall == [tool |-> "none", at |-> "idle", elem |-> "none", new |-> FALSE, prev |-> NoTab]

TabsInit ==
    /\ task \in {"search", "sheet"}
    /\ page \in {p \in [Tabs -> Sites \cup {"control_ui", "closed"}] :
                    /\ p[ControlUi] = "control_ui"
                    /\ \A t \in UserTabs : p[t] \in Sites
                    /\ \A t \in NewTabs : p[t] = "closed"}
    /\ active = ControlUi
    /\ opened = [ids |-> {}, last |-> NoTab] /\ count = 0 /\ down = FALSE
    /\ sheet = [dest |-> "none", ready |-> FALSE, target |-> FALSE]
    /\ call = NoCall
    /\ own = {} /\ unsure = FALSE

Goes(at) == call' = [call EXCEPT !.at = at]
Ends == call' = NoCall

\* _record_current_browser_tab_state of a successful answer.
Recorded(source, p) ==
    IF p = "control_ui" \/ task # "sheet" THEN sheet
    ELSE [dest |-> p,
          ready |-> sheet.ready \/ (p = "target" /\ source = "navigate"),
          target |-> sheet.target /\ ~(p = "target" /\ source \in {"navigate", "activate"})]

\* current_tab.info.
Looks(o) ==
    /\ sheet' = IF o = "ok" THEN Recorded("info", page[active]) ELSE sheet
    /\ down' = (down \/ o = "disconnected")

Remembered(t) == [ids |-> opened.ids \cup {t}, last |-> t]
IsOpened(t) == t \in opened.ids
SafePage(t) == page[t] = "target"

\* Where a tool goes on after the activation: all but navigate and extract check the tab before they
\* act.  (guarded_current_tab_fill is like guarded_current_tab_click, which stands for both.)
AfterActivation == CASE call.tool = "navigate" -> "choosing"
                     [] call.tool = "extract" -> "acting"
                     [] OTHER -> "checking"
Enter(tool, elem) ==
    call' = [NoCall EXCEPT !.tool = tool, !.elem = elem,
                           !.at = IF opened.ids # {} THEN "activating"
                                  ELSE CASE tool = "navigate" -> "choosing"
                                         [] tool = "extract" -> "acting"
                                         [] OTHER -> "checking"]

Idle == call.at = "idle" /\ ~down

StartTabTool(tool) ==
    /\ Idle /\ Enter(tool, "none")
    /\ UNCHANGED <<task, page, active, opened, count, down, sheet, own, unsure>>

\* A click on an element of the desktop: a safe cell, a text field, or neither.
StartDesktopClick(elem) ==
    /\ Idle /\ Enter("desktop_click", elem)
    /\ UNCHANGED <<task, page, active, opened, count, down, sheet, own, unsure>>

\* _activate_current_browser_task_tab: the task's own tab or a tab of the user is left in front,
\* the chat makes way for the preferred tab.
ActivationLook(o) ==
    /\ call.at = "activating" /\ Looks(o)
    /\ IF o = "disconnected" THEN Ends
       ELSE IF o = "ok" /\ (IsOpened(active) \/ page[active] # "control_ui") THEN Goes(AfterActivation)
       ELSE Goes("switching")
    /\ UNCHANGED <<task, page, active, opened, count, own, unsure>>

Activate(o) ==
    /\ call.at = "switching" /\ (o = "ok" => page[opened.last] # "closed")
    /\ active' = IF o = "ok" THEN opened.last ELSE active
    /\ sheet' = IF o = "ok" THEN Recorded("activate", page[opened.last]) ELSE sheet
    /\ down' = (down \/ o = "disconnected")
    /\ IF o = "disconnected" THEN Ends ELSE Goes(AfterActivation)
    /\ UNCHANGED <<task, page, opened, count, own, unsure>>

\* _should_open_current_browser_task_tab: past the limit the call is refused; when the look fails
\* the active tab is navigated, whatever it is.
ChooseTab(o) ==
    LET new == o = "ok" /\ ~IsOpened(active) /\ page[active] = "control_ui" IN
    /\ call.at = "choosing" /\ Looks(o)
    /\ IF o = "disconnected" \/ (new /\ count >= TabLimit) THEN Ends
       ELSE call' = [call EXCEPT !.at = "navigating", !.new = new]
    /\ UNCHANGED <<task, page, active, opened, count, own, unsure>>

\* The extension looks again before it navigates.
OpensNewTab == call.new \/ page[active] = "control_ui"

\* The tab loads another page than the one asked for, or the answer comes too late: the tab is
\* there, and the tool knows nothing of it.
Navigate(t, landed, answered) ==
    /\ call.at = "navigating"
    /\ IF OpensNewTab THEN t \in NewTabs /\ page[t] = "closed" ELSE t = active
    /\ page' = [page EXCEPT ![t] = landed] /\ active' = t
    /\ own' = own \cup {t}
    /\ sheet' = IF answered THEN Recorded("navigate", landed) ELSE sheet
    /\ opened' = IF answered THEN Remembered(t) ELSE opened
    /\ count' = IF answered /\ call.new THEN count + 1 ELSE count
    /\ IF answered /\ task = "sheet" /\ landed = "target" THEN Goes("dismissing") ELSE Ends
    /\ UNCHANGED <<task, down, unsure>>

NavigateFails(o) ==
    /\ call.at = "navigating" /\ o # "ok"
    /\ down' = (down \/ o = "disconnected")
    /\ Ends
    /\ UNCHANGED <<task, page, active, opened, count, sheet, own, unsure>>

\* _dismiss_google_sheets_overlays: clicks on the tab in front, without another check.
DismissOverlays(o) ==
    /\ call.at = "dismissing"
    /\ down' = (down \/ o = "disconnected")
    /\ Ends
    /\ UNCHANGED <<task, page, active, opened, count, sheet, own, unsure>>

\* _assert_safe_current_browser_target, and the text fields a click or typing may not aim at.
CheckTarget(o) ==
    LET safe == o = "ok" /\ IsOpened(active) /\ SafePage(active) /\ ~(task = "sheet" /\ call.elem = "field") IN
    /\ call.at = "checking" /\ Looks(o)
    /\ IF ~safe THEN Ends ELSE Goes(IF call.tool = "type" THEN "typing" ELSE "acting")
    /\ UNCHANGED <<task, page, active, opened, count, own, unsure>>

Act(o) ==
    /\ call.at = "acting" /\ (o = "disconnected" => call.tool # "desktop_click")
    /\ down' = (down \/ o = "disconnected")
    /\ sheet' = [sheet EXCEPT !.target = @ \/ (o = "ok" /\ task = "sheet" /\ call.elem = "safe")]
    /\ Ends
    /\ UNCHANGED <<task, page, active, opened, count, own, unsure>>

\* Typing into a named element, or with elem "none" wherever the focus is.
StartType(elem) ==
    /\ Idle
    /\ IF task = "sheet"
       THEN call' = [NoCall EXCEPT !.tool = "type", !.elem = elem,
                                   !.at = IF sheet.dest = "target" THEN "targeting" ELSE "asking"]
       ELSE IF elem = "none" THEN call' = [NoCall EXCEPT !.tool = "type", !.at = "typing"]
       ELSE Enter("type", elem)
    /\ UNCHANGED <<task, page, active, opened, count, down, sheet, own, unsure>>

\* The answer is recorded; an error of any kind is ignored.
TypeLook(o) ==
    /\ call.at = "asking" /\ Looks(o)
    /\ Goes("targeting")
    /\ UNCHANGED <<task, page, active, opened, count, own, unsure>>

\* Spreadsheet typing: into the element named, else into the remembered one if it is still there,
\* else into the cell that is ready.
ChooseTarget(available) ==
    LET remembered == call.elem = "none" /\ sheet.target /\ available IN
    /\ call.at = "targeting"
    /\ sheet' = IF call.elem = "none" /\ sheet.target /\ ~available THEN [sheet EXCEPT !.target = FALSE] ELSE sheet
    /\ IF remembered \/ (call.elem # "none" /\ ~(call.elem = "field" /\ sheet.dest = "target"))
       THEN Goes(IF opened.ids # {} THEN "activating" ELSE "checking")
       ELSE IF call.elem = "none" /\ sheet.ready THEN Goes("typing")
       ELSE Ends
    /\ UNCHANGED <<task, page, active, opened, count, down, own, unsure>>

\* The element typed into may be a safe one to remember.
Type(ok, remember) ==
    /\ call.at = "typing"
    /\ sheet' = IF ~ok \/ task # "sheet" THEN sheet
                ELSE [sheet EXCEPT !.target = @ \/ remember \/ call.elem = "safe",
                                   !.ready = @ /\ call.elem # "none"]
    /\ Ends
    /\ UNCHANGED <<task, page, active, opened, count, down, own, unsure>>

\* Hotkeys by what they are for: a new tab, moving to a cell, other editing.
StartHotkey(keys) ==
    /\ Idle /\ (keys = "new_tab" => count < TabLimit)
    /\ call' = [NoCall EXCEPT !.tool = keys, !.at = IF keys = "new_tab" THEN "looking" ELSE "pressing"]
    /\ UNCHANGED <<task, page, active, opened, count, down, sheet, own, unsure>>

HotkeyLook(o) ==
    /\ call.at = "looking" /\ Looks(o)
    /\ IF o = "disconnected" THEN Ends
       ELSE call' = [call EXCEPT !.at = "pressing", !.prev = IF o = "ok" THEN active ELSE NoTab]
    /\ unsure' = (unsure \/ o = "failed")
    /\ UNCHANGED <<task, page, active, opened, count, own>>

\* The keys may be reported as sent and have no effect.
PressNewTab(ok, t) ==
    /\ call.at = "pressing" /\ call.tool = "new_tab"
    /\ \/ t = NoTab /\ UNCHANGED <<page, active, own>>
       \/ /\ t \in NewTabs /\ page[t] = "closed"
          /\ page' = [page EXCEPT ![t] = "other"] /\ active' = t /\ own' = own \cup {t}
    /\ IF ok THEN Goes("verifying") ELSE Ends
    /\ UNCHANGED <<task, opened, count, down, sheet, unsure>>

PressEditing(ok) ==
    /\ call.at = "pressing" /\ call.tool \in {"cell", "edit"}
    /\ sheet' = IF ok /\ task = "sheet"
                THEN [sheet EXCEPT !.target = FALSE,
                                   !.ready = (sheet.target \/ sheet.ready \/ sheet.dest = "target") /\ call.tool = "cell"]
                ELSE sheet
    /\ Ends
    /\ UNCHANGED <<task, page, active, opened, count, down, own, unsure>>

\* Mutant of Confirms: a tab in front is a tab that was opened.
Confirms_AnyTab == TRUE

Confirms == call.prev = NoTab \/ active # call.prev

\* _wait_for_current_browser_tab_verification: the last of its looks.
VerifyTab(o) ==
    LET verified == o = "ok" /\ Confirms IN
    /\ call.at = "verifying" /\ Looks(o)
    /\ opened' = IF verified THEN Remembered(active) ELSE opened
    /\ count' = IF verified THEN count + 1 ELSE count
    /\ Ends
    /\ UNCHANGED <<task, page, active, own, unsure>>

\* The user takes another tab to the front, or closes one that is not.
UserSwitches(t) ==
    /\ page[t] # "closed" /\ t # active
    /\ active' = t
    /\ unsure' = (unsure \/ call.at # "idle")
    /\ UNCHANGED <<task, page, opened, count, down, sheet, call, own>>

UserCloses(t) ==
    /\ t \notin {ControlUi, active} /\ page[t] # "closed"
    /\ page' = [page EXCEPT ![t] = "closed"]
    /\ UNCHANGED <<task, active, opened, count, down, sheet, call, own, unsure>>

TabsNext ==
    \/ \E tool \in {"navigate", "extract", "click"} : StartTabTool(tool)
    \/ \E elem \in {"none", "safe", "field"} : StartDesktopClick(elem) \/ StartType(elem)
    \/ \E keys \in {"new_tab", "cell", "edit"} : StartHotkey(keys)
    \/ \E o \in Outcomes : \/ ActivationLook(o) \/ Activate(o) \/ ChooseTab(o) \/ NavigateFails(o)
                           \/ DismissOverlays(o) \/ CheckTarget(o) \/ Act(o) \/ TypeLook(o)
                           \/ HotkeyLook(o) \/ VerifyTab(o)
    \/ \E t \in Tabs, landed \in Sites, answered \in BOOLEAN : Navigate(t, landed, answered)
    \/ \E b \in BOOLEAN : ChooseTarget(b) \/ PressEditing(b) \/ (\E remember \in BOOLEAN : Type(b, remember))
    \/ \E ok \in BOOLEAN, t \in NewTabs \cup {NoTab} : PressNewTab(ok, t)
    \/ \E t \in Tabs : UserSwitches(t) \/ UserCloses(t)

TabsSpec == TabsInit /\ [][TabsNext]_tabsVars

-----------------------------------------------------------------------------
\* The tab a call has checked is the one it is about to act on.
ActsOnChecked == \/ call.at = "acting" /\ call.tool # "extract"
                 \/ call.at = "typing" /\ call.elem # "none"

\* What is clicked or filled in is a tab the task has created or navigated, on the page it is for,
\* unless the user switches tabs while a call runs, or a new-tab hotkey was pressed when the look
\* before it had failed; and however looks fail and tabs move, no navigation takes the chat away.
TaskStaysInItsTabs ==
    /\ ActsOnChecked /\ ~unsure => active \in own /\ SafePage(active)
    /\ call.at = "dismissing" /\ ~unsure => active \in own
    /\ page[ControlUi] = "control_ui"

=============================================================================
