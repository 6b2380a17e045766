--------------------------- MODULE DesktopTargets ---------------------------
(***************************************************************************)
(* The macOS client of the desktop tools: how a call finds the application,*)
(* the window and the element it is about, and what it does there.  A call *)
(* does not await; between two calls the user changes the desktop.         *)
(***************************************************************************)
EXTENDS Naturals, FiniteSets

CONSTANTS
    Apps, Windows,
    Titles,
    Similar,     \* titles one of which contains the other
    Labels,      \* of the text field in a window
    NoApp, NoWindow, NoTitle,
    MaxSteps     \* bound on calls and changes

ASSUME NoAppAssumption == NoApp \notin Apps

ASSUME SimilarAssumption ==
    Similar \subseteq Titles \X Titles /\ \A t \in Titles : <<t, t>> \in Similar

VARIABLES
    running, front,
    windows,     \* of a window: its application and title, the text in its field
    changed,     \* history: where the last call had an effect, as applications
    result,      \* of the last call
    steps

targetVars == <<running, front, windows, changed, result, steps>>

Opened == {w \in Windows : windows[w].app # NoApp}
Matches(t, u) == t # NoTitle /\ u # NoTitle /\ <<t, u>> \in Similar

Selectors ==
    {s \in [app : Apps \cup {NoApp}, window : Windows \cup {NoWindow}, title : Titles \cup {NoTitle}, role : {"field", "any"}] :
        s.window # NoWindow \/ s.title # NoTitle \/ s.role # "any"}

NoResult == [ok |-> TRUE, asked |-> NoApp, app |-> NoApp]

TargetInit ==
    /\ running \in SUBSET Apps /\ front \in running \cup {NoApp}
    /\ windows \in [Windows -> [app : running \cup {NoApp}, title : Titles, text : {"old"}]]
    /\ changed = {} /\ result = NoResult /\ steps = 0

\* _window_owner_for_query: any window with this number and this title.
Owners(s) == {w \in Opened : /\ s.window # NoWindow => w = s.window
                             /\ s.title # NoTitle => Matches(windows[w].title, s.title)}

\* The application a call without a name is about, if its window can be found, and the window.
Inferred(s) ==
    IF s.app # NoApp \/ (s.window = NoWindow /\ s.title = NoTitle) \/ Owners(s) = {} THEN {<<s.app, s.window>>}
    ELSE {<<windows[w].app, w>> : w \in Owners(s)}

\* _resolve_target_application: what does not run is replaced by the application in front.
Resolved(app) == IF app \in running THEN app ELSE front

\* _resolve_window_element: the title of the numbered window, or the title asked for.
WindowsOf(app, window, title) ==
    {w \in Opened : /\ windows[w].app = app
                    /\ \/ window \in Opened /\ Matches(windows[w].title, windows[window].title)
                       \/ Matches(windows[w].title, title)}

\* _element_matches: the window itself, or the field in it.
IsField(s, w) == s.title = NoTitle \/ Matches(Labels[w], s.title)

\* _resolve_element_target: a window, and whether the field or the window itself is meant.
Reached(s) ==
    UNION {LET app == Resolved(h[1])
               scoped == IF h[2] = NoWindow /\ s.title = NoTitle THEN {w \in Opened : windows[w].app = app}
                         ELSE WindowsOf(app, h[2], s.title)
           IN  {[app |-> app, window |-> w, field |-> f] : w \in scoped, f \in BOOLEAN} : h \in Inferred(s)}

Targets(s) == {c \in Reached(s) : /\ c.app # NoApp
                                  /\ c.field => s.role = "field" /\ IsField(s, c.window)
                                  /\ ~c.field => s.role = "any"}

Failed(s) == /\ result' = [ok |-> FALSE, asked |-> s.app, app |-> NoApp]
             /\ changed' = {} /\ UNCHANGED <<running, front, windows>>

Did(s, app, places) == result' = [ok |-> TRUE, asked |-> s.app, app |-> app] /\ changed' = places \ {NoApp}

Counted == steps < MaxSteps /\ steps' = steps + 1

\* Pressing a button, clicking in the middle of an element.
Click(s) ==
    /\ Counted
    /\ \/ Targets(s) = {} /\ Failed(s)
       \/ \E c \in Targets(s) :
             \/ Did(s, c.app, {c.app}) /\ UNCHANGED <<running, front, windows>>
             \/ Failed(s)                       \* neither pressed nor placed on the screen

\* Mutant of TypeInto: an element that takes no text is pressed before that is known.
TypeInto_PressFirst(s, c, sets, posts) ==
    \/ sets /\ c.field /\ windows' = [windows EXCEPT ![c.window].text = "new"] /\ Did(s, c.app, {c.app})
    \/ ~sets /\ ~posts /\ windows' = windows /\ changed' = {c.app} /\ result' = [ok |-> FALSE, asked |-> s.app, app |-> c.app]
    \/ ~sets /\ posts /\ windows' = windows /\ Did(s, c.app, {c.app, front})

\* The value is set; or the element is pressed and the keys go to the application in front.
TypeInto(s, c, sets, posts) ==
    \/ sets /\ c.field /\ windows' = [windows EXCEPT ![c.window].text = "new"] /\ Did(s, c.app, {c.app})
    \/ ~sets /\ ~posts /\ windows' = windows /\ changed' = {} /\ result' = [ok |-> FALSE, asked |-> s.app, app |-> c.app]
    \/ ~sets /\ posts /\ windows' = windows /\ Did(s, c.app, {c.app, front})

TypeText(s) ==
    /\ Counted
    /\ \/ Targets(s) = {} /\ Failed(s)
       \/ \E c \in Targets(s), sets, posts \in BOOLEAN : TypeInto(s, c, sets, posts) /\ UNCHANGED <<running, front>>

\* focus_window: the window is raised and its application comes to the front.
FocusWindow(s) ==
    /\ Counted
    /\ \E h \in Inferred(s) :
          LET app == Resolved(h[1])
              found == WindowsOf(app, s.window, s.title)
              named == s.window # NoWindow \/ s.title # NoTitle
          IN  IF app = NoApp \/ (named /\ found = {}) THEN Failed(s)
              ELSE front' = app /\ Did(s, app, {app}) /\ UNCHANGED <<running, windows>>

\* launch_app: what is opened has started by the time it is to be activated, or the application in
\* front is activated and reported in its place.
LaunchApp(a) ==
    /\ Counted /\ windows' = windows
    /\ \/ Failed([app |-> a])
       \/ \E started, waits \in BOOLEAN :
             /\ running' = IF started THEN running \cup {a} ELSE running
             /\ LET app == IF ~waits \/ (a \notin running' /\ front = NoApp) THEN a
                           ELSE IF a \in running' THEN a ELSE front
                IN  Did([app |-> a], app, {a}) /\ front' = IF waits /\ app \in running' THEN app ELSE front

UserFocuses(a) == /\ a \in running /\ front' = a /\ Counted /\ changed' = {} /\ result' = NoResult
                   /\ UNCHANGED <<running, windows>>

UserQuits(a) ==
    /\ a \in running /\ Counted /\ changed' = {} /\ result' = NoResult
    /\ running' = running \ {a}
    /\ front' \in IF front = a THEN running' \cup {NoApp} ELSE {front}
    /\ windows' = [w \in Windows |-> IF windows[w].app = a THEN [windows[w] EXCEPT !.app = NoApp] ELSE windows[w]]

\* An application starts by itself, or late.
AppStarts(a) == /\ a \notin running /\ running' = running \cup {a} /\ Counted /\ changed' = {} /\ result' = NoResult
                /\ UNCHANGED <<front, windows>>

TargetNext ==
    \/ \E s \in Selectors : Click(s) \/ TypeText(s)
    \/ \E s \in Selectors : s.role = "any" /\ FocusWindow(s)
    \/ \E a \in Apps : LaunchApp(a) \/ UserFocuses(a) \/ UserQuits(a) \/ AppStarts(a)

TargetSpec == TargetInit /\ [][TargetNext]_targetVars

-----------------------------------------------------------------------------
\* What a control call reports can be built on, as the recovery of computer_click and computer_fill
\* does: a call that fails has changed nothing, so that it may be tried elsewhere; one that succeeds
\* has acted on the application it reports, its keys at most on the one in front; and a call that
\* names an application that runs has not acted on another one, whatever windows are open.
ResultsAreHonest ==
    [][/\ ~result'.ok => changed' = {} /\ UNCHANGED <<running, front, windows>>
       /\ result'.ok => changed' \subseteq {result'.app, result'.asked, front'}
       /\ result'.ok /\ result'.asked \in running => result'.app = result'.asked]_targetVars

=============================================================================
