--------------------------- MODULE ManagedBrowser ---------------------------
(***************************************************************************)
(* The browser tools: every call works on the page of one session object   *)
(* that all calls share (_browser_session), replaced when it is dead or    *)
(* when a call asks for the other visibility.  Each await of starting and  *)
(* closing a session is a step, and other calls run in between.  The chat  *)
(* operator holds a conversation on such a page.                           *)
(*                                                                         *)
(* A field of a session object says what the object knows (pw, browser,    *)
(* page), and driver, window and tab what really runs.  With the bridge    *)
(* the same functions run in its process; a caller that loses its answer   *)
(* is told an error while they go on, which changes nothing here.  Left    *)
(* out: audit entries, bringing a window to the front, and following a     *)
(* link.  Messages of different visitors are taken to differ, and a page   *)
(* keeps its socket.                                                       *)
(***************************************************************************)
EXTENDS Naturals, Sequences, SequencesExt, FiniteSetsExt

CONSTANTS
    Visitors, NoVisitor,
    MaxBrowsers,       \* bound: session objects
    MaxFaults,         \* bound: failing starts and lost pages
    MaxReplies,        \* bound: answers on one page
    ChatObjects,       \* bound: the chat is opened in the first so many of the sessions
    DefaultHeadless    \* settings.browser_headless

ASSUME BrowserAssumption == MaxBrowsers \in Nat /\ DefaultHeadless \in BOOLEAN /\ NoVisitor \notin Visitors

Objects == 1..MaxBrowsers

VARIABLES
    shared,     \* _browser_session, 0 for None
    browsers,   \* the session objects, those nobody refers to included
    made,       \* how many there have been
    visits,     \* the call of each visitor
    screens,    \* what the page of a session shows
    faults,
    alone,      \* history: visitors whose call has met no other call and no fault
    crowded     \* history: two calls have overlapped

browserVars == <<shared, browsers, made, visits, screens, faults, alone, crowded>>

Unstarted == [pw |-> FALSE, browser |-> FALSE, page |-> FALSE, headless |-> TRUE,
              driver |-> FALSE, window |-> FALSE, tab |-> FALSE]

\* A page: where it is, whether the history has been shown, the message in the input, the message being
\* answered, the last message and the answers shown.
Blank == [at |-> "blank", shown |-> FALSE, input |-> NoVisitor, busy |-> NoVisitor,
          user |-> NoVisitor, agents |-> << >>]

\* A call: fits says that the browser whose page it took has the visibility it asked for, pageless that
\* it ended because it had no page.
NoVisit == [visible |-> "any", at |-> "idle", stage |-> 0, obj |-> 0,
            base |-> << >>, fits |-> TRUE, pageless |-> FALSE, reply |-> NoVisitor]

BrowserInit ==
    /\ shared = 0 /\ made = 0
    /\ browsers = [o \in Objects |-> Unstarted]
    /\ visits = [v \in Visitors |-> NoVisit]
    /\ screens = [o \in Objects |-> Blank]
    /\ faults = 0 /\ alone = {} /\ crowded = FALSE

Busy(v) == visits[v].at # "idle"
Others(v) == {w \in Visitors \ {v} : Busy(w)}

Becomes(v, r) == visits' = [visits EXCEPT ![v] = r]

\* A call ends; it has done its work, failed on the page, or got no page.
Ended(v) == [NoVisit EXCEPT !.fits = visits[v].fits]
EndVisit(v) == Becomes(v, Ended(v))
EndPageless(v) == Becomes(v, [Ended(v) EXCEPT !.pageless = TRUE])

-----------------------------------------------------------------------------
(* get_browser_session.                                                    *)

\* Mutant of Alive: a browser that still runs will do.
Alive_Window(b) == b.browser /\ b.window

Alive(b) == b.browser /\ b.window /\ b.page /\ b.tab

WantsHeadless(visible) == IF visible = "any" THEN DefaultHeadless ELSE visible = "no"
Mismatch(b, visible) == visible # "any" /\ b.headless # WantsHeadless(visible)

\* Mutant of NextStage: nothing to close without a page.
NextStage_WithPage(b, k) == IF b.page THEN Min({j \in k..3 : <<b.page, b.browser, b.pw>>[j]} \cup {4}) ELSE 4

\* The first thing that close() finds to close, from stage k on: page, browser, playwright; 4 for nothing.
NextStage(b, k) == Min({j \in k..3 : <<b.page, b.browser, b.pw>>[j]} \cup {4})

\* Nobody asks a closed session for its visibility again.
Cleared(b) == [b EXCEPT !.pw = FALSE, !.browser = FALSE, !.page = FALSE, !.headless = TRUE]

\* What still runs after stage k of close().
Stopped(b, k) == [b EXCEPT !.tab = FALSE, !.window = @ /\ k = 1, !.driver = @ /\ k < 3]

\* The page of a session that has lost it shows nothing.
Seen(bs) == screens' = [o \in Objects |-> IF bs[o].tab THEN screens[o] ELSE Blank]

\* A new session object, which other calls see before it is started.
CreateSession(v, r, bs) ==
    /\ made < MaxBrowsers
    /\ made' = made + 1 /\ shared' = made + 1
    /\ browsers' = bs
    /\ Becomes(v, [r EXCEPT !.at = "starting", !.stage = 0, !.obj = made + 1])

\* close() has come to stage k; after the last one the shared session is None, whichever it was by then.
CloseSession(v, r, o, bs, k) ==
    IF k = 4 THEN CreateSession(v, r, [bs EXCEPT ![o] = Cleared(@)])
    ELSE /\ Becomes(v, [r EXCEPT !.at = "closing", !.stage = k, !.obj = o])
         /\ browsers' = bs
         /\ UNCHANGED <<shared, made>>

\* The call goes on with the page of the session it is given, if there is one.
TakePage(v, r, o, bs) ==
    IF o # 0 /\ bs[o].page
    THEN Becomes(v, [r EXCEPT !.at = "acting", !.obj = o, !.fits = ~Mismatch(bs[o], r.visible)])
    ELSE EndPageless(v)

\* Until its first await, a call runs on its own.
GetSession(v, r) ==
    /\ crowded' = (crowded \/ Others(v) # {})
    /\ alone' = IF Others(v) = {} THEN alone \cup {v} ELSE alone \ ({v} \cup Others(v))
    /\ \/ shared = 0 /\ CreateSession(v, r, browsers)
       \/ /\ shared # 0
          /\ ~Alive(browsers[shared]) \/ Mismatch(browsers[shared], r.visible)
          /\ CloseSession(v, r, shared, browsers, NextStage(browsers[shared], 1))
       \/ /\ shared # 0 /\ Alive(browsers[shared]) /\ ~Mismatch(browsers[shared], r.visible)
          /\ TakePage(v, r, shared, browsers)
          /\ UNCHANGED <<shared, browsers, made>>
    /\ UNCHANGED <<screens, faults>>

\* The tools.  A call that the policy or the user refuses, whose address is not allowed, or that does
\* not reach the bridge ends before it has touched anything.  Until it has its page, a call is told from
\* others by the visibility it asks for only.
Asks(v, visible) == ~Busy(v) /\ GetSession(v, [NoVisit EXCEPT !.visible = visible])

BrowserNavigate(v) == \E visible \in {"any", "yes", "no"} : Asks(v, visible)
BrowserScreenshot(v) == Asks(v, "any")
BrowserExtractText(v) == Asks(v, "any")
BrowserClick(v) == Asks(v, "any")
BrowserFill(v) == Asks(v, "any")
BrowserPress(v) == Asks(v, "any")
ChatSendMessage(v) == \E visible \in {"yes", "no"} : Asks(v, visible)

\* close() ignores what fails.
CloseStage(v) ==
    LET o == visits[v].obj
        bs == [browsers EXCEPT ![o] = Stopped(@, visits[v].stage)]
    IN /\ visits[v].at = "closing"
       /\ CloseSession(v, visits[v], o, bs, NextStage(bs[o], visits[v].stage + 1))
       /\ Seen(bs)
       /\ UNCHANGED <<faults, alone, crowded>>

\* start(): playwright, the browser, its page.  Each needs that what came before it still runs.
StartDriver(v) ==
    /\ visits[v].at = "starting"
    /\ browsers' = [browsers EXCEPT ![visits[v].obj] = [@ EXCEPT !.pw = TRUE, !.driver = TRUE]]
    /\ Becomes(v, [visits[v] EXCEPT !.at = "launching"])
    /\ UNCHANGED <<shared, made, screens, faults, alone, crowded>>

Launch(v) ==
    /\ visits[v].at = "launching" /\ browsers[visits[v].obj].driver
    /\ browsers' = [browsers EXCEPT ![visits[v].obj] = [@ EXCEPT !.browser = TRUE, !.window = TRUE]]
    /\ Becomes(v, [visits[v] EXCEPT !.at = "opening"])
    /\ UNCHANGED <<shared, made, screens, faults, alone, crowded>>

\* The session returned is the shared one, which may be another by now.
OpenPage(v) ==
    LET o == visits[v].obj
        bs == [browsers EXCEPT ![o] = [@ EXCEPT !.page = TRUE, !.tab = TRUE,
                                                !.headless = WantsHeadless(visits[v].visible)]]
    IN /\ visits[v].at = "opening" /\ browsers[o].window
       /\ browsers' = bs
       /\ TakePage(v, visits[v], shared, bs)
       /\ UNCHANGED <<shared, made, screens, faults, alone, crowded>>

\* A step of start() fails by itself, or because another call has closed what it needs.
StartFails(v) ==
    LET b == browsers[visits[v].obj]
        pulled == (visits[v].at = "launching" /\ ~b.driver) \/ (visits[v].at = "opening" /\ ~b.window)
    IN /\ visits[v].at \in {"starting", "launching", "opening"}
       /\ pulled \/ faults < MaxFaults
       /\ faults' = IF pulled THEN faults ELSE faults + 1
       /\ alone' = IF pulled THEN alone ELSE alone \ {v}
       /\ EndPageless(v)
       /\ UNCHANGED <<shared, browsers, made, screens, crowded>>

\* The run a local call belongs to is aborted; a launch already under way may still bring up the browser.
CancelVisit(v) ==
    /\ Busy(v)
    /\ EndVisit(v)
    /\ browsers' \in {browsers} \cup
           {[browsers EXCEPT ![o] = [@ EXCEPT !.window = TRUE]] :
                o \in {visits[v].obj} \cap {p \in Objects : visits[v].at = "launching" /\ browsers[p].driver}}
    /\ UNCHANGED <<shared, made, screens, faults, alone, crowded>>

\* The user closes the page or the browser, or it crashes.
LosePage(o) ==
    /\ browsers[o].tab /\ faults < MaxFaults
    /\ faults' = faults + 1
    /\ \E stage \in {1, 2} : browsers' = [browsers EXCEPT ![o] = Stopped(@, stage)]
    /\ Seen(browsers')
    /\ alone' = alone \ {v \in Visitors : Busy(v)}
    /\ UNCHANGED <<shared, made, visits, crowded>>

-----------------------------------------------------------------------------
(* The local functions, on the page.                                       *)

Page(v) == screens[visits[v].obj]
OnPage(v) == visits[v].at = "acting" /\ browsers[visits[v].obj].tab
NoVisibility(v) == OnPage(v) /\ visits[v].visible = "any"
Shows(v, s) == screens' = [screens EXCEPT ![visits[v].obj] = s]
Does(v, s) == /\ EndVisit(v) /\ Shows(v, s)
              /\ UNCHANGED <<shared, browsers, made, faults, alone, crowded>>

\* The chat page sends what its input holds, and disables it until the run is done.
Submitted(s) ==
    IF s.at # "chat" \/ s.input = NoVisitor \/ s.busy # NoVisitor THEN s
    ELSE [s EXCEPT !.user = s.input, !.busy = s.input, !.input = NoVisitor]

\* With a selector, a blank page has nothing to offer; on the chat page it may be its input or its button.
NavigateLocal(v) == OnPage(v) /\ Does(v, [Blank EXCEPT !.at = "site"])
ScreenshotLocal(v) == NoVisibility(v) /\ Does(v, Page(v))
ExtractTextLocal(v) == NoVisibility(v) /\ Does(v, Page(v))
ClickLocal(v) ==
    /\ NoVisibility(v) /\ Page(v).at # "blank"
    /\ \E s \in {Page(v), Submitted(Page(v))} : Does(v, s)
FillLocal(v) ==
    /\ NoVisibility(v) /\ Page(v).at # "blank"
    /\ \/ Does(v, Page(v))
       \/ /\ Page(v).at = "chat" /\ Page(v).busy = NoVisitor
          /\ Does(v, [Page(v) EXCEPT !.input = v])
PressLocal(v) == NoVisibility(v) /\ \E s \in {Page(v), Submitted(Page(v))} : Does(v, s)

AtWork == {"acting", "connecting", "counted", "typed", "sent", "echoed"}

\* Nothing is found, a wait times out, or the page fails; a page that is gone fails every call.
VisitFails(v) ==
    /\ visits[v].at \in AtWork
    /\ IF browsers[visits[v].obj].tab THEN EndVisit(v) ELSE EndPageless(v)
    /\ UNCHANGED <<shared, browsers, made, screens, faults, alone, crowded>>

-----------------------------------------------------------------------------
(* The chat operator: open the page, count the answers shown, type, send,  *)
(* wait for the message and then for an answer.                            *)

ChatAt(v, at) == visits[v].at = at /\ browsers[visits[v].obj].tab
ChatGoes(v, r, s) == /\ Becomes(v, r) /\ Shows(v, s)
                     /\ UNCHANGED <<shared, browsers, made, faults, alone, crowded>>

\* The page is kept when it shows the chat already.
OpenChat(v) ==
    /\ ChatAt(v, "acting") /\ visits[v].visible # "any" /\ visits[v].obj \leq ChatObjects
    /\ ChatGoes(v, [visits[v] EXCEPT !.at = "connecting"],
                IF Page(v).at = "chat" THEN Page(v) ELSE [Blank EXCEPT !.at = "chat"])

CountAnswers(v) ==
    /\ ChatAt(v, "connecting") /\ Page(v).at = "chat" /\ Page(v).busy = NoVisitor
    /\ ChatGoes(v, [visits[v] EXCEPT !.at = "counted", !.base = Page(v).agents], Page(v))

\* Filling and clicking wait until the input is enabled and there.
TypeMessage(v) ==
    /\ ChatAt(v, "counted") /\ Page(v).at = "chat" /\ Page(v).busy = NoVisitor
    /\ ChatGoes(v, [visits[v] EXCEPT !.at = "typed"], [Page(v) EXCEPT !.input = v])

ClickSend(v) ==
    /\ ChatAt(v, "typed") /\ Page(v).at = "chat"
    /\ ChatGoes(v, [visits[v] EXCEPT !.at = "sent"], Submitted(Page(v)))

SeeMessage(v) ==
    /\ ChatAt(v, "sent") /\ Page(v).user = v
    /\ ChatGoes(v, [visits[v] EXCEPT !.at = "echoed"], Page(v))

\* Mutant of Changed: any answer on the page will do.
Changed_Any(base, agents) == agents # << >>

\* More answers than before, or another one in the last place.
Changed(base, agents) ==
    agents # << >> /\ (Len(agents) > Len(base) \/ (base # << >> /\ Last(agents) # Last(base)))

\* It stays as it is, with the input enabled, for the time of a stable answer.
TakeReply(v) ==
    /\ ChatAt(v, "echoed") /\ Page(v).at = "chat" /\ Page(v).busy = NoVisitor
    /\ Changed(visits[v].base, Page(v).agents)
    /\ ChatGoes(v, [Ended(v) EXCEPT !.reply = Last(Page(v).agents)], Page(v))

\* The chat page itself: the (empty) history of its new session replaces what it shows, and a run ends
\* with an answer or with an error.
PageShows(o, s) ==
    /\ browsers[o].tab /\ screens' = [screens EXCEPT ![o] = s]
    /\ UNCHANGED <<shared, browsers, made, visits, faults, alone, crowded>>

ShowHistory(o) ==
    /\ screens[o].at = "chat" /\ ~screens[o].shown
    /\ PageShows(o, [screens[o] EXCEPT !.shown = TRUE, !.user = NoVisitor, !.agents = << >>])

RunDone(o) ==
    /\ screens[o].busy # NoVisitor /\ screens[o].shown
    /\ \/ /\ Len(screens[o].agents) < MaxReplies
          /\ PageShows(o, [screens[o] EXCEPT !.busy = NoVisitor, !.agents = Append(@, screens[o].busy)])
       \/ PageShows(o, [screens[o] EXCEPT !.busy = NoVisitor])

BrowserNext ==
    \/ \E v \in Visitors :
        \/ BrowserNavigate(v) \/ BrowserScreenshot(v) \/ BrowserExtractText(v) \/ BrowserClick(v)
        \/ BrowserFill(v) \/ BrowserPress(v) \/ ChatSendMessage(v)
        \/ CloseStage(v)
        \/ StartDriver(v) \/ Launch(v) \/ OpenPage(v) \/ StartFails(v) \/ CancelVisit(v)
        \/ NavigateLocal(v) \/ ScreenshotLocal(v) \/ ExtractTextLocal(v) \/ ClickLocal(v)
        \/ FillLocal(v) \/ PressLocal(v) \/ VisitFails(v)
        \/ OpenChat(v) \/ CountAnswers(v) \/ TypeMessage(v) \/ ClickSend(v) \/ SeeMessage(v) \/ TakeReply(v)
    \/ \E o \in Objects : LosePage(o) \/ ShowHistory(o) \/ RunDone(o)

BrowserSpec == BrowserInit /\ [][BrowserNext]_browserVars

-----------------------------------------------------------------------------
\* Until two calls have overlapped, no playwright and no browser runs but that of the shared session,
\* however often a start has failed halfway, a page was lost, or a call was cancelled.
LoneBrowser == ~crowded => {o \in Objects : browsers[o].driver \/ browsers[o].window} \subseteq {shared}

\* Whatever calls have done to the session before, together or not: a call that meets no other call and
\* no fault gets a page, and one of the visibility it asked for (get_browser_session).
QuietCallsAreServed ==
    \A v \in alone : ~visits[v].pageless /\ visits[v].fits

\* The answer that a chat call on its own reports was given to its message, not to an earlier one whose
\* caller had stopped waiting (_wait_for_assistant_reply).
ReplyIsTheAnswer == \A v \in alone : visits[v].reply \in {v, NoVisitor}

=============================================================================
