---------------------------- MODULE GatewayProofs ----------------------------
(***************************************************************************)
(* Proofs about what the gateway does with its requests and what it leaves *)
(* behind: the runs of one chat session (ChatSession), the records and the *)
(* transcript of its requests (GatewayRuns), the approved records of       *)
(* self-improvement (SelfImprovement) and the artifacts missions reuse     *)
(* (Promotions).  Each part has its inductive invariant, one lemma for an  *)
(* action or a family of actions, and its theorem.                         *)
(*                                                                         *)
(* Of a chat session: a run that began alone can be aborted, which rests   *)
(* on the others being absent (LoneIsRegistered); and no event is sent     *)
(* twice or lost while it waits, which rests on every event being in one   *)
(* place only: in the queue, in one flush, or gone to a client or to the   *)
(* excused (Apart).                                                        *)
(***************************************************************************)
EXTENDS ChatSession, GatewayRuns, SelfImprovement, Promotions, FiniteSetTheorems, TLAPS

-----------------------------------------------------------------------------
(* The run that is alone. *)

RunsTypeOK ==
    /\ task \in [Requests -> Tasks]
    /\ registered \in Requests \cup {NoRun}
    /\ alone \subseteq Requests

\* While a run that began alone works and was not told to stop, there is no other.
LoneIsRegistered ==
    \A r \in alone :
        task[r].pc \in {"queued", "running", "answering"} /\ ~task[r].cancelled
            => registered = r /\ \A q \in Requests \ {r} : task[q] = NoTask

\* What is registered is at work and was not told to stop; so was nothing that has no task yet.
RegisteredWorks ==
    /\ registered # NoRun => task[registered].pc \in Live /\ ~task[registered].cancelled
    /\ \A r \in Requests : task[r].pc \in {"absent", "starting"} => ~task[r].cancelled

RunsInv == RunsTypeOK /\ LoneIsRegistered /\ RegisteredWorks

LEMMA RunsInitially == Init => RunsInv
<1> SUFFICES ASSUME Init PROVE RunsInv
    OBVIOUS
<1>1. NoTask \in Tasks
    BY DEF NoTask, Tasks
<1> QED
    BY <1>1 DEF Init, RunsInv, RunsTypeOK, LoneIsRegistered, RegisteredWorks, NoTask

\* abort marks the registered task and changes no other.
LEMMA AbortedTasks ==
    ASSUME RunsTypeOK
    PROVE  /\ Aborted \in [Requests -> Tasks]
           /\ \A q \in Requests : /\ Aborted[q].pc = task[q].pc
                                  /\ Aborted[q].cancelled = (task[q].cancelled \/ registered = q)
                                  /\ registered # q => Aborted[q] = task[q]
<1>1. CASE registered = NoRun
    BY <1>1, ChatSessionAssumption, Zenon DEF RunsTypeOK, Aborted, Tasks
<1>2. CASE registered # NoRun
  <2> DEFINE x == [task[registered] EXCEPT !.cancelled = TRUE]
  <2>1. registered \in Requests /\ task[registered] \in Tasks
      BY <1>2 DEF RunsTypeOK
  <2>2. x \in Tasks /\ x.pc = task[registered].pc /\ x.cancelled = TRUE
      BY <2>1 DEF Tasks
  <2>3. Aborted = [task EXCEPT ![registered] = x]
      BY <1>2 DEF Aborted
  <2> HIDE DEF x
  <2>4. /\ Aborted \in [Requests -> Tasks]
        /\ \A q \in Requests : Aborted[q] = IF q = registered THEN x ELSE task[q]
      BY <2>1, <2>2, <2>3 DEF RunsTypeOK
  <2>5. ASSUME NEW q \in Requests
        PROVE  /\ Aborted[q].pc = task[q].pc
               /\ Aborted[q].cancelled = (task[q].cancelled \/ registered = q)
               /\ registered # q => Aborted[q] = task[q]
    <3>1. task[q].cancelled \in BOOLEAN
        BY DEF RunsTypeOK, Tasks
    <3>2. CASE q = registered
        BY <2>2, <2>4, <3>1, <3>2
    <3>3. CASE q # registered
        BY <2>4, <3>1, <3>3
    <3> QED
        BY <3>2, <3>3
  <2> QED
      BY <2>4, <2>5
<1> QED
    BY <1>1, <1>2

\* A step of request r that goes on with its registration, or that ends its work and is not
\* registered any more.
LEMMA OwnStep ==
    ASSUME RunsInv, NEW r \in Requests, NEW x \in Tasks,
           task' = [task EXCEPT ![r] = x], task[r].pc # "absent", alone' = alone,
           x.pc \in {"absent", "starting"} => ~x.cancelled,
           \/ /\ registered' = registered /\ x.cancelled = task[r].cancelled /\ x.pc \in Live
              /\ x.pc \in {"queued", "running", "answering"} => task[r].pc \in {"queued", "running", "answering"}
           \/ /\ registered' \in {registered, NoRun} /\ registered' # r
              /\ x.pc \notin {"queued", "running", "answering"}
    PROVE  RunsInv'
<1>1. /\ task' \in [Requests -> Tasks]
      /\ \A q \in Requests : task'[q] = IF q = r THEN x ELSE task[q]
    BY DEF RunsInv, RunsTypeOK
<1>2. RunsTypeOK'
    BY <1>1 DEF RunsInv, RunsTypeOK
<1>3. LoneIsRegistered'
  <2> SUFFICES ASSUME NEW s \in alone, task'[s].pc \in {"queued", "running", "answering"}, ~task'[s].cancelled
               PROVE  registered' = s /\ \A q \in Requests \ {s} : task'[q] = NoTask
      BY DEF LoneIsRegistered
  <2>0. s \in Requests
      BY DEF RunsInv, RunsTypeOK
  <2>1. CASE s = r
      BY <1>1, <2>0, <2>1 DEF RunsInv, LoneIsRegistered
  <2>2. CASE s # r
    <3>1. task[r] = NoTask
        BY <1>1, <2>0, <2>2 DEF RunsInv, LoneIsRegistered
    <3> QED
        BY <3>1 DEF NoTask
  <2> QED
      BY <2>1, <2>2
<1>4. RegisteredWorks'
    BY <1>1, <1>2 DEF RunsInv, RunsTypeOK, RegisteredWorks
<1> QED
    BY <1>2, <1>3, <1>4 DEF RunsInv

\* A task is created and registered: whoever was alone is told to stop by then.
LEMMA RegistersKeeps ==
    ASSUME RunsInv, NEW r \in Requests, NEW x \in Tasks, x.pc = "queued", ~x.cancelled,
           task' \in [Requests -> Tasks],
           \A q \in Requests : task'[q] = (IF q = r THEN x ELSE Aborted[q]) \/ task'[q] = (IF q = r THEN x ELSE task[q]),
           \A s \in alone \ {r} : ~(task'[s].pc \in {"queued", "running", "answering"} /\ ~task'[s].cancelled),
           Registers(r)
    PROVE  RunsInv'
<1>1. RunsTypeOK'
    BY DEF RunsInv, RunsTypeOK, Registers
<1>0. task'[r] = x
    OBVIOUS
<1>2. ASSUME NEW q \in Requests \ {r}, task'[q].pc \in {"absent", "starting"} PROVE task'[q] = task[q]
  <2>1. task[q].pc \in {"absent", "starting"}
      BY <1>2, AbortedTasks DEF RunsInv
  <2>2. registered # q
      BY <2>1, ChatSessionAssumption DEF RunsInv, RegisteredWorks, Live
  <2> QED
      BY <2>2, AbortedTasks DEF RunsInv
<1>3. LoneIsRegistered'
  <2> SUFFICES ASSUME NEW s \in alone', task'[s].pc \in {"queued", "running", "answering"}, ~task'[s].cancelled
               PROVE  registered' = s /\ \A q \in Requests \ {s} : task'[q] = NoTask
      BY DEF LoneIsRegistered
  <2>1. s = r /\ \A q \in Requests \ {r} : task[q] = NoTask
      BY DEF Registers
  <2>2. ASSUME NEW q \in Requests \ {r} PROVE task'[q] = NoTask
    <3>1. task[q] = NoTask /\ Aborted[q].pc = task[q].pc
        BY <2>1, AbortedTasks DEF RunsInv
    <3>2. task'[q].pc = "absent"
        BY <3>1 DEF NoTask
    <3> QED
        BY <1>2, <3>1, <3>2
  <2> QED
      BY <2>1, <2>2 DEF Registers
<1>4. RegisteredWorks'
  <2>1. registered' = r
      BY DEF Registers
  <2>2. ASSUME NEW q \in Requests, task'[q].pc \in {"absent", "starting"} PROVE ~task'[q].cancelled
    <3>1. q # r
        BY <1>0, <2>2
    <3>2. task'[q] = task[q]
        BY <1>2, <2>2, <3>1
    <3> QED
        BY <2>2, <3>2 DEF RunsInv, RegisteredWorks
  <2> QED
      BY <1>0, <2>1, <2>2 DEF RegisteredWorks, Live
<1> QED
    BY <1>1, <1>3, <1>4 DEF RunsInv

LEMMA StartsKeep ==
    ASSUME RunsInv, NEW r \in Requests, StartAtOnce(r) \/ Start(r) \/ Create(r) PROVE RunsInv'
<1>1. /\ task[r] \in Tasks /\ Aborted \in [Requests -> Tasks]
      /\ task[r].pc \in {"absent", "starting"} => ~task[r].cancelled /\ registered # r
    BY AbortedTasks, ChatSessionAssumption DEF RunsInv, RunsTypeOK, RegisteredWorks, Live
<1>2. CASE StartAtOnce(r)
  <2> DEFINE x == [Aborted[r] EXCEPT !.pc = "queued"]
  <2>1. Aborted[r] = task[r] /\ ~task[r].cancelled
      BY <1>1, <1>2, AbortedTasks DEF StartAtOnce, RunsInv
  <2>2. x \in Tasks /\ x.pc = "queued" /\ ~x.cancelled
      BY <1>1, <2>1 DEF Tasks, Live
  <2>3. task' = [Aborted EXCEPT ![r] = x]
      BY <1>2 DEF StartAtOnce
  <2> HIDE DEF x
  <2>4. /\ task' \in [Requests -> Tasks]
        /\ \A q \in Requests : task'[q] = IF q = r THEN x ELSE Aborted[q]
      BY <1>1, <2>2, <2>3
  <2>5. ASSUME NEW s \in alone \ {r}, task'[s].pc \in {"queued", "running", "answering"}, ~task'[s].cancelled
        PROVE  FALSE
    <3>1. s \in Requests /\ task'[s] = Aborted[s]
        BY <2>4, <2>5 DEF RunsInv, RunsTypeOK
    <3>2. task[s].pc = task'[s].pc /\ ~task[s].cancelled /\ registered # s
        BY <2>5, <3>1, AbortedTasks DEF RunsInv
    <3> QED
        BY <2>5, <3>2 DEF RunsInv, LoneIsRegistered
  <2>6. Registers(r)
      BY <1>2 DEF StartAtOnce
  <2> QED
      BY <2>2, <2>4, <2>5, <2>6, RegistersKeeps
<1>3. CASE Start(r)
  <2> DEFINE x == [Aborted[r] EXCEPT !.pc = "starting"]
  <2>1. Aborted[r] = task[r] /\ ~task[r].cancelled
      BY <1>1, <1>3, AbortedTasks DEF Start, RunsInv
  <2>2. x \in Tasks /\ x.pc = "starting" /\ ~x.cancelled
      BY <1>1, <2>1 DEF Tasks, Live
  <2>3. task' = [Aborted EXCEPT ![r] = x]
      BY <1>3 DEF Start
  <2> HIDE DEF x
  <2>4. /\ task' \in [Requests -> Tasks]
        /\ \A q \in Requests : task'[q] = IF q = r THEN x ELSE Aborted[q]
      BY <1>1, <2>2, <2>3
  <2>5. registered' = NoRun /\ alone' = alone
      BY <1>3 DEF Start
  <2>6. RunsTypeOK'
      BY <2>4, <2>5 DEF RunsInv, RunsTypeOK
  <2>7. LoneIsRegistered'
    <3> SUFFICES ASSUME NEW s \in alone, task'[s].pc \in {"queued", "running", "answering"}, ~task'[s].cancelled
                 PROVE  FALSE
        BY <2>5 DEF LoneIsRegistered
    <3>1. s \in Requests /\ s # r
        BY <2>2, <2>4 DEF RunsInv, RunsTypeOK
    <3>2. task[s].pc = task'[s].pc /\ ~task[s].cancelled /\ registered # s
        BY <2>4, <3>1, AbortedTasks DEF RunsInv
    <3> QED
        BY <3>2 DEF RunsInv, LoneIsRegistered
  <2>8. RegisteredWorks'
    <3>1. ASSUME NEW q \in Requests, q # r, task'[q].pc \in {"absent", "starting"} PROVE ~task'[q].cancelled
      <4>1. task[q].pc \in {"absent", "starting"} /\ task'[q] = Aborted[q]
          BY <2>4, <3>1, AbortedTasks DEF RunsInv
      <4>2. registered # q /\ ~task[q].cancelled
          BY <4>1, ChatSessionAssumption DEF RunsInv, RegisteredWorks, Live
      <4> QED
          BY <4>1, <4>2, AbortedTasks DEF RunsInv
    <3> QED
        BY <2>2, <2>4, <2>5, <3>1 DEF RegisteredWorks
  <2> QED
      BY <2>6, <2>7, <2>8 DEF RunsInv
<1>4. CASE Create(r)
  <2> DEFINE x == [task[r] EXCEPT !.pc = "queued"]
  <2>1. task[r].pc = "starting" /\ ~task[r].cancelled
      BY <1>1, <1>4 DEF Create
  <2>2. x \in Tasks /\ x.pc = "queued" /\ ~x.cancelled
      BY <1>1, <2>1 DEF Tasks, Live
  <2>3. task' = [task EXCEPT ![r] = x]
      BY <1>4 DEF Create
  <2> HIDE DEF x
  <2>4. /\ task' \in [Requests -> Tasks]
        /\ \A q \in Requests : task'[q] = IF q = r THEN x ELSE task[q]
      BY <2>2, <2>3 DEF RunsInv, RunsTypeOK
  <2>5. ASSUME NEW s \in alone \ {r}, task'[s].pc \in {"queued", "running", "answering"}, ~task'[s].cancelled
        PROVE  FALSE
    <3>1. s \in Requests /\ task'[s] = task[s]
        BY <2>4, <2>5 DEF RunsInv, RunsTypeOK
    <3>2. task[r] = NoTask
        BY <2>5, <3>1 DEF RunsInv, LoneIsRegistered
    <3> QED
        BY <2>1, <3>2 DEF NoTask
  <2>6. Registers(r)
      BY <1>4 DEF Create
  <2> QED
      BY <2>2, <2>4, <2>5, <2>6, RegistersKeeps
<1> QED
    BY <1>2, <1>3, <1>4

LEMMA AbortKeeps == ASSUME RunsInv, Abort PROVE RunsInv'
<1>1. /\ task' = Aborted /\ registered' = NoRun /\ alone' = alone
    BY DEF Abort
<1>2. RunsTypeOK'
    BY <1>1, AbortedTasks DEF RunsInv, RunsTypeOK
<1>3. LoneIsRegistered'
  <2> SUFFICES ASSUME NEW s \in alone, Aborted[s].pc \in {"queued", "running", "answering"}, ~Aborted[s].cancelled
               PROVE  FALSE
      BY <1>1 DEF LoneIsRegistered
  <2>1. s \in Requests
      BY DEF RunsInv, RunsTypeOK
  <2>2. task[s].pc = Aborted[s].pc /\ ~task[s].cancelled /\ registered # s
      BY <2>1, AbortedTasks DEF RunsInv
  <2> QED
      BY <2>2 DEF RunsInv, LoneIsRegistered
<1>4. RegisteredWorks'
  <2> SUFFICES ASSUME NEW q \in Requests, Aborted[q].pc \in {"absent", "starting"} PROVE ~Aborted[q].cancelled
      BY <1>1 DEF RegisteredWorks
  <2>1. task[q].pc \in {"absent", "starting"}
      BY AbortedTasks DEF RunsInv
  <2>2. registered # q /\ ~task[q].cancelled
      BY <2>1, ChatSessionAssumption DEF RunsInv, RegisteredWorks, Live
  <2> QED
      BY <2>2, AbortedTasks DEF RunsInv
<1> QED
    BY <1>2, <1>3, <1>4 DEF RunsInv

LEMMA WorkKeeps ==
    ASSUME RunsInv, NEW r \in Requests,
           Begin(r) \/ Answer(r) \/ Interrupt(r) \/ Dropped(r) \/ InnerCleanup(r) \/ Finish(r)
    PROVE  RunsInv'
<1>1. task[r] \in Tasks /\ NoTask \in Tasks /\ NoTask.pc = "absent" /\ NoTask.cancelled = FALSE
    BY DEF RunsInv, RunsTypeOK, Tasks, NoTask
<1>2. registered = r => ~task[r].cancelled
    BY ChatSessionAssumption DEF RunsInv, RegisteredWorks
<1>3. ASSUME NEW to \in {"running", "answering", "aborting", "rethrown"}
      PROVE  /\ [task[r] EXCEPT !.pc = to] \in Tasks
             /\ [task[r] EXCEPT !.pc = to].pc = to
             /\ [task[r] EXCEPT !.pc = to].cancelled = task[r].cancelled
    BY <1>1, <1>3 DEF Tasks, Live
<1>4. CASE Begin(r) \/ Answer(r)
  <2>1. PICK to \in {"running", "answering"} :
            /\ task[r].pc \in {"queued", "running"}
            /\ task' = [task EXCEPT ![r] = [task[r] EXCEPT !.pc = to]]
            /\ registered' = registered /\ alone' = alone
      BY <1>4 DEF Begin, Answer, Goes
  <2> DEFINE x == [task[r] EXCEPT !.pc = to]
  <2>2. x \in Tasks /\ x.pc = to /\ x.cancelled = task[r].cancelled /\ task' = [task EXCEPT ![r] = x]
      BY <1>3, <2>1
  <2> HIDE DEF x
  <2>3. x.pc \in Live /\ x.pc \notin {"absent", "starting"} /\ task[r].pc # "absent"
        /\ task[r].pc \in {"queued", "running", "answering"}
      BY <2>1, <2>2 DEF Live
  <2> QED
      BY <2>1, <2>2, <2>3, OwnStep
<1>5. CASE Interrupt(r) \/ InnerCleanup(r)
  <2>1. PICK to \in {"aborting", "rethrown"} :
            /\ task[r].pc \in {"running", "answering", "aborting"}
            /\ task' = [task EXCEPT ![r] = [task[r] EXCEPT !.pc = to]]
            /\ registered' \in {registered, NoRun} /\ registered' # r /\ alone' = alone
      BY <1>2, <1>5, ChatSessionAssumption DEF Interrupt, InnerCleanup, Goes, Cleared
  <2> DEFINE x == [task[r] EXCEPT !.pc = to]
  <2>2. x \in Tasks /\ x.pc = to /\ task' = [task EXCEPT ![r] = x]
      BY <1>3, <2>1
  <2> HIDE DEF x
  <2>3. x.pc \notin {"queued", "running", "answering", "absent", "starting"} /\ task[r].pc # "absent"
      BY <2>1, <2>2
  <2> QED
      BY <2>1, <2>2, <2>3, OwnStep
<1>6. CASE Dropped(r) \/ Finish(r)
  <2>1. /\ task' = [task EXCEPT ![r] = NoTask] /\ task[r].pc # "absent"
        /\ registered' \in {registered, NoRun} /\ registered' # r /\ alone' = alone
      BY <1>2, <1>6, ChatSessionAssumption DEF Dropped, Finish, Cleared
  <2>2. NoTask.pc \notin {"queued", "running", "answering"} /\ ~NoTask.cancelled
      BY <1>1
  <2> QED
      BY <1>1, <2>1, <2>2, OwnStep
<1> QED
    BY <1>4, <1>5, <1>6

LEMMA RunsStep == RunsInv /\ [Next]_vars => RunsInv'
<1> SUFFICES ASSUME RunsInv, [Next]_vars PROVE RunsInv'
    OBVIOUS
<1>1. ASSUME NEW r \in Requests, RunStep(r) PROVE RunsInv'
    BY <1>1, StartsKeep, WorkKeeps DEF RunStep
<1>2. CASE Abort
    BY <1>2, AbortKeeps
<1>3. CASE UNCHANGED runVars
    BY <1>3 DEF runVars, RunsInv, RunsTypeOK, LoneIsRegistered, RegisteredWorks
<1>4. CASE (\E c \in Conns : ConnStep(c)) \/ (\E f \in Flushers : FlushOne(f)) \/ Emit \/ Evict \/ Beat
    BY <1>3, <1>4 DEF ConnStep, Connect, Greet, Leave, Close, FlushOne, Emit, Evict, Beat
<1>5. CASE UNCHANGED vars
    BY <1>3, <1>5 DEF vars
<1> QED
    BY <1>1, <1>2, <1>4, <1>5 DEF Next

\* A run that had the session to itself when it was created is the one an abort reaches, for any
\* number of later requests and clients (ConnectionManager.abort, clear_task).
THEOREM LoneRunsAreReachable == Spec => []LoneRunIsReachable
<1>1. RunsInv => LoneRunIsReachable
    BY DEF RunsInv, LoneIsRegistered, LoneRunIsReachable
<1> QED
    BY <1>1, RunsInitially, RunsStep, PTL DEF Spec

-----------------------------------------------------------------------------
(* The events. *)

Distinct(s) == \A i, j \in 1..Len(s) : s[i] = s[j] => i = j

\* An event is in the queue or in a flush.
Kept(e) == e \in Members(pending) \/ \E f \in Flushers : e \in Members(carried[f])

EventsTypeOK ==
    /\ conn \in [Conns -> Handlers]
    /\ pending \in Seq(Events) /\ carried \in [Flushers -> Seq(Events)]
    /\ emitted \in 0..MaxEvents /\ arrived \in [Events -> Nat]

\* Every event is in one place of the queue or of one flush.
Apart ==
    /\ Distinct(pending)
    /\ \A f \in Flushers : /\ Distinct(carried[f])
                           /\ Members(pending) \cap Members(carried[f]) = {}
                           /\ \A g \in Flushers \ {f} : Members(carried[f]) \cap Members(carried[g]) = {}

\* What is kept was emitted and did not arrive yet.
KeptIsUnsent == \A e \in Events : (Kept(e) => arrived[e] = 0 /\ e <= emitted) /\ (e > emitted => arrived[e] = 0)

\* A handler that does not serve yet flushes nothing.
TakesOnce == \A c \in Conns : conn[c].stage # "serving" => carried[c] = << >>

EventsInv == EventsTypeOK /\ Apart /\ KeptIsUnsent /\ TakesOnce /\ SentOnce /\ NoneLost

LEMMA EmptyHasNone == << >> \in Seq(Events) /\ Members(<< >>) = {} /\ Distinct(<< >>)
BY DEF Members, Distinct

LEMMA HeadAndTail ==
    ASSUME NEW s \in Seq(Events), s # << >>
    PROVE  /\ Head(s) \in Events /\ Tail(s) \in Seq(Events)
           /\ Members(s) = {Head(s)} \cup Members(Tail(s))
           /\ Distinct(s) => Distinct(Tail(s)) /\ Head(s) \notin Members(Tail(s))
<1>1. /\ Len(s) \in Nat /\ Len(s) # 0 /\ Head(s) = s[1] /\ Tail(s) \in Seq(Events)
      /\ Len(Tail(s)) = Len(s) - 1 /\ \A i \in 1..(Len(s) - 1) : Tail(s)[i] = s[i + 1]
      /\ \A i \in 1..Len(s) : s[i] \in Events
    OBVIOUS
<1>2. Members(s) = {Head(s)} \cup Members(Tail(s))
  <2>1. ASSUME NEW i \in 1..Len(s), i # 1 PROVE s[i] \in Members(Tail(s))
    <3>1. i - 1 \in 1..(Len(s) - 1) /\ (i - 1) + 1 = i
        BY <1>1, <2>1
    <3>2. Tail(s)[i - 1] = s[i]
        BY <1>1, <3>1
    <3> QED
        BY <1>1, <3>1, <3>2 DEF Members
  <2>2. ASSUME NEW i \in 1..(Len(s) - 1) PROVE Tail(s)[i] \in Members(s)
    <3>1. i + 1 \in 1..Len(s) /\ Tail(s)[i] = s[i + 1]
        BY <1>1, <2>2
    <3> QED
        BY <3>1 DEF Members
  <2>3. Members(s) \subseteq {Head(s)} \cup Members(Tail(s))
      BY <1>1, <2>1 DEF Members
  <2>4. Members(Tail(s)) \subseteq Members(s)
      BY <1>1, <2>2 DEF Members
  <2>5. Head(s) \in Members(s)
    <3>1. 1 \in 1..Len(s)
        BY <1>1
    <3> QED
        BY <1>1, <3>1 DEF Members
  <2> QED
      BY <2>3, <2>4, <2>5
<1>3. ASSUME Distinct(s) PROVE Distinct(Tail(s)) /\ Head(s) \notin Members(Tail(s))
  <2>1. ASSUME NEW i \in 1..(Len(s) - 1), NEW j \in 1..(Len(s) - 1), Tail(s)[i] = Tail(s)[j] PROVE i = j
    <3>1. i + 1 \in 1..Len(s) /\ j + 1 \in 1..Len(s) /\ s[i + 1] = s[j + 1]
        BY <1>1, <2>1
    <3>2. i + 1 = j + 1
        BY <1>3, <3>1 DEF Distinct
    <3> QED
        BY <3>2
  <2>2. ASSUME NEW i \in 1..(Len(s) - 1) PROVE Tail(s)[i] # Head(s)
    <3>1. i + 1 \in 1..Len(s) /\ 1 \in 1..Len(s) /\ i + 1 # 1 /\ Tail(s)[i] = s[i + 1]
        BY <1>1, <2>2
    <3> QED
        BY <1>1, <1>3, <3>1 DEF Distinct
  <2> QED
      BY <1>1, <2>1, <2>2 DEF Distinct, Members
<1> QED
    BY <1>1, <1>2, <1>3

LEMMA AddedAtTheEnd ==
    ASSUME NEW s \in Seq(Events), NEW e \in Events
    PROVE  /\ Append(s, e) \in Seq(Events) /\ Members(Append(s, e)) = Members(s) \cup {e}
           /\ Distinct(s) /\ e \notin Members(s) => Distinct(Append(s, e))
<1>1. /\ Append(s, e) \in Seq(Events) /\ Len(s) \in Nat /\ Len(Append(s, e)) = Len(s) + 1
      /\ \A i \in 1..Len(s) : Append(s, e)[i] = s[i]
      /\ Append(s, e)[Len(s) + 1] = e
    OBVIOUS
<1>2. \A i : i \in 1..(Len(s) + 1) <=> i \in 1..Len(s) \/ i = Len(s) + 1
    BY <1>1
<1>3. Members(Append(s, e)) = Members(s) \cup {e}
    BY <1>1, <1>2 DEF Members
<1>4. ASSUME Distinct(s), e \notin Members(s), NEW i \in 1..(Len(s) + 1), NEW j \in 1..(Len(s) + 1),
             Append(s, e)[i] = Append(s, e)[j]
      PROVE  i = j
    BY <1>1, <1>2, <1>4 DEF Distinct, Members
<1> QED
    BY <1>1, <1>3, <1>4 DEF Distinct

LEMMA EventsInitially == Init => EventsInv
<1> SUFFICES ASSUME Init PROVE EventsInv
    OBVIOUS
<1>1. EventsTypeOK
    BY EmptyHasNone, ChatSessionAssumption DEF Init, EventsTypeOK, NoHandler, Handlers
<1>2. Apart /\ TakesOnce
    BY EmptyHasNone DEF Init, Apart, TakesOnce, Flushers
<1>3. KeptIsUnsent /\ SentOnce /\ NoneLost
    BY EmptyHasNone DEF Init, KeptIsUnsent, Kept, SentOnce, NoneLost, Events
<1> QED
    BY <1>1, <1>2, <1>3 DEF EventsInv

\* The whole queue goes into a flush that was empty.
LEMMA TakingKeeps ==
    ASSUME EventsInv, NEW f \in Flushers, carried[f] = << >>, TakesAll(f), conn' \in [Conns -> Handlers],
           UNCHANGED <<emitted, arrived, excused>>,
           \A c \in Conns : conn'[c].stage # "serving" => conn[c].stage # "serving" /\ c # f
    PROVE  EventsInv'
<1>1. /\ pending' = << >> /\ carried' \in [Flushers -> Seq(Events)]
      /\ \A g \in Flushers : carried'[g] = IF g = f THEN pending ELSE carried[g]
      /\ Members(carried[f]) = {}
    BY EmptyHasNone DEF TakesAll, EventsInv, EventsTypeOK
<1>2. \A e : Kept(e)' <=> Kept(e)
    BY <1>1, EmptyHasNone DEF Kept
<1>3. EventsTypeOK'
    BY <1>1, EmptyHasNone DEF EventsInv, EventsTypeOK
<1>4. Apart'
    BY <1>1, EmptyHasNone DEF EventsInv, Apart
<1>5. KeptIsUnsent' /\ SentOnce' /\ NoneLost'
    BY <1>2 DEF EventsInv, KeptIsUnsent, SentOnce, NoneLost, Kept
<1>6. TakesOnce'
    BY <1>1 DEF EventsInv, TakesOnce, Flushers
<1> QED
    BY <1>3, <1>4, <1>5, <1>6 DEF EventsInv

\* One event leaves a flush, for a client or for nobody.
LEMMA FlushKeeps == ASSUME EventsInv, NEW f \in Flushers, FlushOne(f) PROVE EventsInv'
<1> DEFINE e == Head(carried[f])
<1>1. /\ carried[f] \in Seq(Events) /\ carried[f] # << >> /\ e \in Events
      /\ Tail(carried[f]) \in Seq(Events) /\ Members(carried[f]) = {e} \cup Members(Tail(carried[f]))
      /\ Distinct(Tail(carried[f])) /\ e \notin Members(Tail(carried[f]))
    BY HeadAndTail DEF FlushOne, EventsInv, EventsTypeOK, Apart
<1>2. /\ carried' \in [Flushers -> Seq(Events)]
      /\ \A g \in Flushers : carried'[g] = IF g = f THEN Tail(carried[f]) ELSE carried[g]
      /\ pending' = pending /\ emitted' = emitted /\ conn' = conn
    BY <1>1 DEF FlushOne, EventsInv, EventsTypeOK
<1>3. Kept(e) /\ arrived[e] = 0 /\ e <= emitted
    BY <1>1 DEF Kept, EventsInv, KeptIsUnsent
<1>4. \/ /\ \A d \in Events : arrived'[d] = IF d = e THEN arrived[d] + 1 ELSE arrived[d]
         /\ arrived' \in [Events -> Nat] /\ excused' = excused
      \/ arrived' = arrived /\ excused' = excused \cup {e}
  <2>1. Sent(e) /\ arrived \in [Events -> Nat] /\ e \in Events
      BY <1>1 DEF FlushOne, EventsInv, EventsTypeOK
  <2> HIDE DEF e
  <2> QED
      BY <2>1 DEF Sent
<1> HIDE DEF e
<1>5. /\ \A d : Kept(d)' => Kept(d) /\ d # e
      /\ \A d : Kept(d) /\ d # e => Kept(d)'
    BY <1>1, <1>2 DEF Kept, EventsInv, Apart
<1>6. EventsTypeOK'
    BY <1>2, <1>4 DEF EventsInv, EventsTypeOK
<1>7. Apart'
    BY <1>1, <1>2 DEF EventsInv, Apart
<1>8. emitted \in Nat /\ arrived \in [Events -> Nat] /\ Events \subseteq Nat /\ 1..emitted \subseteq Events
    BY ChatSessionAssumption DEF EventsInv, EventsTypeOK, Events
<1>9. KeptIsUnsent'
    BY <1>1, <1>2, <1>3, <1>4, <1>5, <1>8, SMTT(30) DEF EventsInv, KeptIsUnsent
<1>10. SentOnce'
    BY <1>1, <1>3, <1>4, <1>8 DEF EventsInv, SentOnce
<1>11. NoneLost'
  <2> SUFFICES ASSUME NEW d \in 1..emitted PROVE arrived'[d] > 0 \/ d \in excused' \/ Kept(d)'
      BY <1>2 DEF NoneLost, Kept
  <2>1. d \in Events /\ arrived[d] \in Nat
      BY <1>8
  <2>2. CASE d = e
      BY <1>3, <1>4, <2>1, <2>2
  <2>3. CASE d # e
    <3>1. arrived[d] > 0 \/ d \in excused \/ Kept(d)
        BY DEF EventsInv, NoneLost, Kept
    <3> QED
        BY <1>4, <1>5, <2>1, <2>3, <3>1
  <2> QED
      BY <2>2, <2>3
<1>12. TakesOnce'
  <2>1. \A c \in Conns : carried[c] = << >> => carried'[c] = << >>
      BY <1>1, <1>2 DEF Flushers
  <2> QED
      BY <1>2, <2>1 DEF EventsInv, TakesOnce
<1> QED
    BY <1>6, <1>7, <1>9, <1>10, <1>11, <1>12 DEF EventsInv

\* A new event is sent, or queued behind the others, of which the first may be dropped.
LEMMA EmitKeeps == ASSUME EventsInv, Emit PROVE EventsInv'
<1> DEFINE e == emitted + 1
<1>1. /\ e \in Events /\ emitted' = e /\ emitted \in Nat /\ e \in 0..MaxEvents
      /\ carried' = carried /\ conn' = conn /\ Events \subseteq Nat
      /\ 1..emitted \subseteq Events /\ \A d \in 1..e : d \in 1..emitted \/ d = e
    BY ChatSessionAssumption DEF Emit, EventsInv, EventsTypeOK, Events
<1>2. ~Kept(e) /\ arrived[e] = 0 /\ arrived \in [Events -> Nat]
    BY <1>1 DEF EventsInv, KeptIsUnsent, EventsTypeOK
<1>a. \A d \in Events : d > e => d > emitted
    BY <1>1
<1>b. \A d \in Events : d <= emitted => d <= e
    BY <1>1
<1> HIDE DEF e
<1>3. CASE socket # NoConn
  <2>1. /\ pending' = pending
        /\ \/ /\ \A d \in Events : arrived'[d] = IF d = e THEN arrived[d] + 1 ELSE arrived[d]
              /\ arrived' \in [Events -> Nat] /\ excused' = excused
           \/ arrived' = arrived /\ excused' = excused \cup {e}
      BY <1>1, <1>2, <1>3 DEF Emit, Sent, e
  <2>2. \A d : Kept(d)' <=> Kept(d)
      BY <1>1, <2>1 DEF Kept
  <2>3. EventsTypeOK' /\ Apart' /\ TakesOnce'
      BY <1>1, <2>1 DEF EventsInv, EventsTypeOK, Apart, TakesOnce
  <2>4. KeptIsUnsent'
    <3> SUFFICES ASSUME NEW d \in Events
                 PROVE  (Kept(d) => arrived'[d] = 0 /\ d <= e) /\ (d > e => arrived'[d] = 0)
        BY <1>1, <2>2 DEF KeptIsUnsent
    <3>1. d > e => d # e
        BY <1>1
    <3> QED
        BY <1>a, <1>b, <1>2, <2>1, <3>1 DEF EventsInv, KeptIsUnsent
  <2>5. SentOnce'
      BY <1>1, <1>2, <2>1 DEF EventsInv, SentOnce
  <2>6. NoneLost'
    <3> SUFFICES ASSUME NEW d \in 1..e PROVE arrived'[d] > 0 \/ d \in excused' \/ Kept(d)'
        BY <1>1 DEF NoneLost, Kept
    <3>1. CASE d = e
        BY <1>1, <1>2, <2>1, <3>1
    <3>2. CASE d # e
      <4>1. d \in 1..emitted /\ d \in Events
          BY <1>1, <3>2
      <4>2. arrived[d] > 0 \/ d \in excused \/ Kept(d)
          BY <4>1 DEF EventsInv, NoneLost, Kept
      <4> QED
          BY <2>1, <2>2, <3>2, <4>1, <4>2
    <3> QED
        BY <3>1, <3>2
  <2> QED
      BY <2>3, <2>4, <2>5, <2>6 DEF EventsInv
<1>4. CASE socket = NoConn
  <2>0. arrived' = arrived /\ Queued(e)
      BY <1>4 DEF Emit, e
  <2>1. PICK s \in Seq(Events) :
            /\ pending' = Append(s, e) /\ Distinct(s) /\ Members(s) \subseteq Members(pending)
            /\ \A d \in Members(pending) : d \in Members(s) \/ d \in excused'
            /\ excused \subseteq excused'
    <3>1. CASE Len(pending) >= MaxPending
      <4>1. pending \in Seq(Events) /\ pending # << >>
          BY <3>1, ChatSessionAssumption DEF EventsInv, EventsTypeOK
      <4>2. pending' = Append(Tail(pending), e) /\ excused' = excused \cup {Head(pending)}
          BY <2>0, <3>1 DEF Queued
      <4> QED
          BY <4>1, <4>2, HeadAndTail DEF EventsInv, Apart
    <3>2. CASE ~(Len(pending) >= MaxPending)
        BY <2>0, <3>2 DEF Queued, EventsInv, EventsTypeOK, Apart
    <3> QED
        BY <3>1, <3>2
  <2>2. e \notin Members(s) /\ \A f \in Flushers : e \notin Members(carried[f])
      BY <1>2, <2>1 DEF Kept
  <2>3. pending' \in Seq(Events) /\ Members(pending') = Members(s) \cup {e} /\ Distinct(pending')
      BY <1>1, <2>1, <2>2, AddedAtTheEnd
  <2>4. /\ \A d : Kept(d)' => Kept(d) \/ d = e
        /\ \A d : Kept(d) => Kept(d)' \/ d \in excused'
        /\ \A d : d = e => Kept(d)'
      BY <1>1, <2>1, <2>3 DEF Kept
  <2>5. EventsTypeOK' /\ TakesOnce' /\ SentOnce'
      BY <1>1, <2>0, <2>3 DEF EventsInv, EventsTypeOK, TakesOnce, SentOnce
  <2>6. Apart'
      BY <1>1, <2>1, <2>2, <2>3 DEF EventsInv, Apart
  <2>7. KeptIsUnsent'
    <3> SUFFICES ASSUME NEW d \in Events
                 PROVE  (Kept(d)' => arrived[d] = 0 /\ d <= e) /\ (d > e => arrived[d] = 0)
        BY <1>1, <2>0 DEF KeptIsUnsent
    <3>1. d = e => d <= e
        BY <1>1
    <3> QED
        BY <1>a, <1>b, <1>2, <2>4, <3>1 DEF EventsInv, KeptIsUnsent
  <2>8. NoneLost'
    <3> SUFFICES ASSUME NEW d \in 1..e PROVE arrived[d] > 0 \/ d \in excused' \/ Kept(d)'
        BY <1>1, <2>0 DEF NoneLost, Kept
    <3>1. CASE d = e
        BY <2>4, <3>1
    <3>2. CASE d # e
      <4>1. d \in 1..emitted
          BY <1>1, <3>2
      <4>2. arrived[d] > 0 \/ d \in excused \/ Kept(d)
          BY <4>1 DEF EventsInv, NoneLost, Kept
      <4> QED
          BY <2>1, <2>4, <4>2
    <3> QED
        BY <3>1, <3>2
  <2> QED
      BY <2>5, <2>6, <2>7, <2>8 DEF EventsInv
<1> QED
    BY <1>3, <1>4

LEMMA EvictKeeps == ASSUME EventsInv, Evict PROVE EventsInv'
<1>1. /\ pending' = << >> /\ Members(pending') = {} /\ excused' = excused \cup Members(pending)
      /\ carried' = carried /\ conn' = conn /\ emitted' = emitted /\ arrived' = arrived
    BY EmptyHasNone DEF Evict, runVars
<1>2. /\ \A d : Kept(d)' => Kept(d)
      /\ \A d : Kept(d) => Kept(d)' \/ d \in excused'
    BY <1>1 DEF Kept
<1>3. EventsTypeOK' /\ Apart' /\ TakesOnce' /\ SentOnce'
    BY <1>1, EmptyHasNone DEF EventsInv, EventsTypeOK, Apart, TakesOnce, SentOnce
<1>4. KeptIsUnsent'
    BY <1>1, <1>2 DEF EventsInv, KeptIsUnsent
<1>5. NoneLost'
  <2> SUFFICES ASSUME NEW d \in 1..emitted PROVE arrived[d] > 0 \/ d \in excused' \/ Kept(d)'
      BY <1>1 DEF NoneLost, Kept
  <2>1. arrived[d] > 0 \/ d \in excused \/ Kept(d)
      BY DEF EventsInv, NoneLost, Kept
  <2> QED
      BY <1>1, <1>2, <2>1
<1> QED
    BY <1>3, <1>4, <1>5 DEF EventsInv

\* Clients come and go, but a handler ends its flush first.
LEMMA HandlersKeep ==
    ASSUME EventsInv, NEW c \in Conns, Connect(c) \/ Leave(c) \/ Close(c) PROVE EventsInv'
<1>1. pending' = pending /\ carried' = carried /\ emitted' = emitted /\ arrived' = arrived /\ excused' = excused
    BY DEF Connect, Leave, Close, Disconnected, eventVars
<1>2. PICK x \in Handlers : /\ conn' = [conn EXCEPT ![c] = x]
                            /\ x.stage # "serving" => carried[c] = << >>
  <2>1. CASE Connect(c)
      BY <2>1 DEF Connect, Handlers, EventsInv, TakesOnce
  <2>2. CASE Leave(c)
    <3> DEFINE x == [conn[c] EXCEPT !.client = "gone"]
    <3>1. x \in Handlers /\ x.stage = conn[c].stage
        BY DEF Handlers, EventsInv, EventsTypeOK
    <3> QED
        BY <2>2, <3>1 DEF Leave, EventsInv, TakesOnce
  <2>3. CASE Close(c)
      BY <2>3 DEF Close, NoHandler, Handlers
  <2> QED
      BY <2>1, <2>2, <2>3
<1>3. EventsTypeOK' /\ TakesOnce'
    BY <1>1, <1>2 DEF EventsInv, EventsTypeOK, TakesOnce
<1>4. Apart' /\ KeptIsUnsent' /\ SentOnce' /\ NoneLost'
    BY <1>1 DEF EventsInv, Apart, KeptIsUnsent, Kept, SentOnce, NoneLost
<1> QED
    BY <1>3, <1>4 DEF EventsInv

LEMMA GreetKeeps == ASSUME EventsInv, NEW c \in Conns, Greet(c) PROVE EventsInv'
<1> DEFINE x == [conn[c] EXCEPT !.stage = "serving"]
<1>1. x \in Handlers /\ x.stage = "serving" /\ conn' = [conn EXCEPT ![c] = x]
    BY DEF Greet, Handlers, EventsInv, EventsTypeOK
<1> HIDE DEF x
<1>2. conn' \in [Conns -> Handlers] /\ \A d \in Conns : conn'[d] = IF d = c THEN x ELSE conn[d]
    BY <1>1 DEF EventsInv, EventsTypeOK
<1>3. c \in Flushers /\ carried[c] = << >> /\ TakesAll(c) /\ UNCHANGED <<emitted, arrived, excused>>
    BY DEF Greet, Flushers, EventsInv, TakesOnce
<1>4. \A d \in Conns : conn'[d].stage # "serving" => conn[d].stage # "serving" /\ d # c
    BY <1>1, <1>2
<1> QED
    BY <1>2, <1>3, <1>4, TakingKeeps

LEMMA BeatKeeps == ASSUME EventsInv, Beat PROVE EventsInv'
<1>1. /\ Heartbeat \in Flushers /\ carried[Heartbeat] = << >> /\ TakesAll(Heartbeat)
      /\ conn' = conn /\ conn \in [Conns -> Handlers] /\ UNCHANGED <<emitted, arrived, excused>>
    BY DEF Beat, Flushers, EventsInv, EventsTypeOK
<1>2. \A d \in Conns : conn'[d].stage # "serving" => conn[d].stage # "serving" /\ d # Heartbeat
    BY <1>1, ChatSessionAssumption
<1> QED
    BY <1>1, <1>2, TakingKeeps

LEMMA EventsStep == EventsInv /\ [Next]_vars => EventsInv'
<1> SUFFICES ASSUME EventsInv, [Next]_vars PROVE EventsInv'
    OBVIOUS
<1>1. ASSUME NEW c \in Conns, ConnStep(c) PROVE EventsInv'
    BY <1>1, HandlersKeep, GreetKeeps DEF ConnStep
<1>2. CASE (\E f \in Flushers : FlushOne(f)) \/ Emit \/ Evict \/ Beat
    BY <1>2, FlushKeeps, EmitKeeps, EvictKeeps, BeatKeeps
<1>3. CASE UNCHANGED <<conn, eventVars>>
    BY <1>3 DEF eventVars, EventsInv, EventsTypeOK, Apart, KeptIsUnsent, Kept, TakesOnce, SentOnce, NoneLost
<1>4. CASE (\E r \in Requests : RunStep(r)) \/ Abort \/ UNCHANGED vars
    BY <1>3, <1>4 DEF RunStep, StartAtOnce, Start, Create, Begin, Answer, Interrupt, Dropped, InnerCleanup,
                      Finish, Goes, Abort, vars
<1> QED
    BY <1>1, <1>2, <1>4 DEF Next

\* No event is received twice, and none that was emitted disappears but at a full queue, with an evicted
\* session or towards a client that has gone (send_or_queue_json, flush_pending).
THEOREM EventsAreAccounted == Spec => []EventsAccounted
<1>1. EventsInv => EventsAccounted
    BY DEF EventsInv, EventsAccounted
<1> QED
    BY <1>1, EventsInitially, EventsStep, PTL DEF Spec


-----------------------------------------------------------------------------
\* Requests of the gateway.


WorkPoints == Awaits \cup {"none", "queued", "ended", "failed", "dropped", "lost"}
WorkType == [kind : Kinds \cup {"none"}, at : WorkPoints, record : Asks \cup {NoAsk}, cancelled : BOOLEAN]
RecordStatuses == {"none", "running", "pending", "completed", "failed"}

GatewayTypeOK ==
    /\ work \in [Asks -> WorkType]
    /\ record \in [Asks -> RecordStatuses]
    /\ approvalOf \in [Asks -> Asks \cup {NoAsk}]
    /\ held \in Asks \cup {NoAsk} /\ waiting \in Asks \cup {NoAsk}
    /\ shown \subseteq Asks \cup {NoAsk}
    /\ orphaned \subseteq Asks \cup {NoAsk}
    /\ stops \in Nat

\* A request that has not come has done nothing; a resumed plan has a record of another request,
\* anybody else his own or none, and a record exists from the moment its request entered the loop.
RecordsAreOwned ==
    \A r \in Asks :
        /\ Kind(r) = "none" <=> At(r, {"none"})
        /\ Kind(r) = "none" => work[r].record = NoAsk
        /\ Kind(r) = "resume" => work[r].record \notin {NoAsk, r}
        /\ Kind(r) # "resume" => work[r].record \in {NoAsk, r}
        /\ record[r] # "none" <=> work[r].record = r
        /\ work[r].record # NoAsk => record[work[r].record] # "none"
        /\ approvalOf[r] \in {NoAsk, r}
        /\ Kind(r) # "resume" /\ At(r, {"queued"}) => work[r].record = NoAsk
        /\ At(r, {"routing"}) => work[r].record = NoAsk

\* A record has one run at a time, and runs in the loop have the session's workflow.
OneHolder ==
    /\ \A q, r \in Asks : \A t \in Asks : Holds(q, t) /\ Holds(r, t) => q = r
    /\ \A r \in Asks : At(r, {"entering", "loop"}) =>
          work[r].record \in Asks /\ record[work[r].record] = "running"
    /\ \A r \in Asks : At(r, {"loop"}) => held = work[r].record

\* While an approval is waited for, its workflow is the session's and nobody works on its record.
WaitingIsPending ==
    waiting # NoAsk =>
        /\ held = waiting /\ record[waiting] = "pending" /\ approvalOf[waiting] = waiting
        /\ \A q \in Asks : ~Holds(q, waiting)

NobodyForgotten ==
    \A t \in Asks : t \notin orphaned =>
        /\ record[t] = "running" => \E r \in Asks : Holds(r, t)
        /\ record[t] = "pending" => waiting = t \/ \E r \in Asks : Holds(r, t)

GatewayInv == GatewayTypeOK /\ RecordsAreOwned /\ OneHolder /\ WaitingIsPending /\ NobodyForgotten

Lasts(s, x) == s # << >> /\ s[Len(s)] = x

\* What a chat request has written and told at the points of its way; one over HTTP is never cancelled.
Agrees(r) ==
    /\ Kind(r) \in {"post", "post_control"} => ~work[r].cancelled /\ ~At(r, {"abort", "inner_abort"})
    /\ Kind(r) \in {"chat", "post"} =>
        /\ At(r, {"telling"}) => Lasts(entries[r], "answer")
        /\ Kind(r) = "chat" /\ At(r, {"asking"}) => Lasts(entries[r], "answer")
        /\ At(r, {"abort"}) => Lasts(entries[r], "aborted")
        /\ At(r, {"inner_abort"}) => work[r].record # NoAsk
        /\ At(r, {"ended"}) => \E x \in {"answer", "aborted"} : Lasts(entries[r], x) /\ Lasts(told[r], x)

TranscriptInv ==
    /\ entries \in [Asks -> Seq({"answer", "aborted"})] /\ told \in [Asks -> Seq({"answer", "aborted"})]
    /\ \A r \in Asks : Agrees(r)

-----------------------------------------------------------------------------
\* Cancelling marks requests and changes nothing else of them; those over HTTP are spared.
LEMMA CancelledKeeps ==
    ASSUME GatewayTypeOK
    PROVE  /\ Cancelled \in [Asks -> WorkType]
           /\ \A q \in Asks : /\ Cancelled[q].kind = work[q].kind /\ Cancelled[q].at = work[q].at
                              /\ Cancelled[q].record = work[q].record
                              /\ Cancelled[q].kind \in {"post", "post_control"} =>
                                    Cancelled[q].cancelled = work[q].cancelled
<1>1. ASSUME NEW q \in Asks
      PROVE  /\ Cancelled[q] \in WorkType
             /\ Cancelled[q].kind = work[q].kind /\ Cancelled[q].at = work[q].at
             /\ Cancelled[q].record = work[q].record
             /\ Cancelled[q].kind \in {"post", "post_control"} => Cancelled[q].cancelled = work[q].cancelled
  BY DEF GatewayTypeOK, WorkType, Cancelled, Kind, Sockets
<1> QED
  BY <1>1 DEF Cancelled

LEMMA GatewayInitially == GatewayInit => GatewayInv /\ TranscriptInv
<1> SUFFICES ASSUME GatewayInit PROVE GatewayInv /\ TranscriptInv
  OBVIOUS
<1> USE GatewayRunsAssumption DEF GatewayInit, Unborn, Kind, At, Holds
<1>1. GatewayTypeOK
  BY DEF GatewayTypeOK, WorkType, WorkPoints, RecordStatuses
<1>2. RecordsAreOwned /\ OneHolder /\ WaitingIsPending /\ NobodyForgotten
  BY DEF RecordsAreOwned, OneHolder, WaitingIsPending, NobodyForgotten
<1>3. TranscriptInv
  BY DEF TranscriptInv, Agrees
<1> QED
  BY <1>1, <1>2, <1>3 DEF GatewayInv

\* A request that moves on outside the control loop, or leaves it with its record marked as cut off,
\* disturbs nothing: every step but those that begin a request or work on a record is one of these.
LEMMA QuietMove ==
    ASSUME GatewayInv, NEW r \in Asks, Kind(r) # "none",
           work' \in [Asks -> WorkType], \A q \in Asks \ {r} : work'[q] = work[q],
           work'[r].kind = work[r].kind, work'[r].record = work[r].record,
           work'[r].at \notin {"none", "queued", "entering", "loop"},
           work'[r].at = "routing" => work[r].record = NoAsk,
           Holds(r, work[r].record) => work[r].record \in orphaned' \cup {NoAsk},
           orphaned \subseteq orphaned', orphaned' \subseteq Asks \cup {NoAsk}, shown' \subseteq Asks \cup {NoAsk},
           UNCHANGED <<record, approvalOf, held, waiting, stops>>
    PROVE  GatewayInv'
<1> USE GatewayRunsAssumption DEF Kind, At, Holds
<1>0. GatewayTypeOK /\ RecordsAreOwned /\ OneHolder /\ WaitingIsPending /\ NobodyForgotten
  BY DEF GatewayInv
<1>1. GatewayTypeOK'
  BY <1>0 DEF GatewayTypeOK
<1>2. RecordsAreOwned'
  BY <1>0 DEF GatewayTypeOK, RecordsAreOwned
<1>3. OneHolder'
  BY <1>0 DEF GatewayTypeOK, OneHolder
<1>4. WaitingIsPending'
  BY <1>0 DEF GatewayTypeOK, WaitingIsPending
<1>5. NobodyForgotten'
  BY <1>0 DEF GatewayTypeOK, NobodyForgotten, WorkType
<1> QED
  BY <1>1, <1>2, <1>3, <1>4, <1>5 DEF GatewayInv

LEMMA AskKeeps == ASSUME GatewayInv, NEW r \in Asks, NEW kind \in Kinds, Ask(r, kind) PROVE GatewayInv'
<1> USE GatewayRunsAssumption DEF At, Kind, Holds
<1>0. GatewayTypeOK /\ RecordsAreOwned /\ OneHolder /\ WaitingIsPending /\ NobodyForgotten
  BY DEF GatewayInv
<1>1. /\ work'[r] = [kind |-> kind, at |-> "queued", record |-> NoAsk, cancelled |-> FALSE]
      /\ work' \in [Asks -> WorkType]
      /\ \A q \in Asks \ {r} : /\ work'[q].kind = work[q].kind /\ work'[q].at = work[q].at
                               /\ work'[q].record = work[q].record
  BY <1>0, CancelledKeeps DEF Ask, GatewayTypeOK, WorkType, WorkPoints, Kinds, Awaits
<1>2. GatewayTypeOK'
  BY <1>0, <1>1 DEF Ask, GatewayTypeOK
<1>3. RecordsAreOwned'
  <2>1. work[r].record = NoAsk /\ record[r] = "none" /\ kind # "none"
    BY <1>0 DEF Ask, RecordsAreOwned, Kinds
  <2> QED
    BY <1>0, <1>1, <2>1 DEF Ask, GatewayTypeOK, WorkType, RecordsAreOwned
<1>4. OneHolder' /\ WaitingIsPending'
  BY <1>0, <1>1 DEF Ask, GatewayTypeOK, WorkType, RecordsAreOwned, OneHolder, WaitingIsPending
<1>5. NobodyForgotten'
  BY <1>0, <1>1 DEF Ask, GatewayTypeOK, WorkType, RecordsAreOwned, NobodyForgotten
<1> QED
  BY <1>2, <1>3, <1>4, <1>5 DEF GatewayInv

LEMMA ChatAbortKeeps == ASSUME GatewayInv, ChatAbort PROVE GatewayInv'
<1> USE DEF At, Kind, Holds
<1>0. GatewayTypeOK /\ RecordsAreOwned /\ OneHolder /\ WaitingIsPending /\ NobodyForgotten
  BY DEF GatewayInv
<1>1. /\ work' \in [Asks -> WorkType]
      /\ \A q \in Asks : /\ work'[q].kind = work[q].kind /\ work'[q].at = work[q].at
                         /\ work'[q].record = work[q].record
  BY <1>0, CancelledKeeps DEF ChatAbort
<1>2. GatewayTypeOK' /\ RecordsAreOwned'
  BY <1>0, <1>1 DEF ChatAbort, GatewayTypeOK, RecordsAreOwned
<1>3. OneHolder' /\ WaitingIsPending' /\ NobodyForgotten'
  BY <1>0, <1>1 DEF ChatAbort, GatewayTypeOK, OneHolder, WaitingIsPending, NobodyForgotten
<1> QED
  BY <1>2, <1>3 DEF GatewayInv

\* An approval that is waited for belongs to one record, and its run takes that record up.
LEMMA ApproveKeeps == ASSUME GatewayInv, NEW g \in Asks, NEW r \in Asks, Approve(g, r) PROVE GatewayInv'
<1> USE GatewayRunsAssumption DEF At, Kind, Holds
<1>0. GatewayTypeOK /\ RecordsAreOwned /\ OneHolder /\ WaitingIsPending /\ NobodyForgotten
  BY DEF GatewayInv
<1>1. Asking(g) = {g} /\ g # r /\ record[g] = "pending" /\ held = g
  BY <1>0 DEF Approve, Asking, WaitingIsPending, RecordsAreOwned
<1>2. work' = [Cancelled EXCEPT ![r] = [kind |-> "resume", at |-> "queued", record |-> g, cancelled |-> FALSE]]
  BY <1>1 DEF Approve
<1>3. [kind |-> "resume", at |-> "queued", record |-> g, cancelled |-> FALSE] \in WorkType
  BY DEF WorkType, WorkPoints, Kinds
<1>4. /\ work'[r] = [kind |-> "resume", at |-> "queued", record |-> g, cancelled |-> FALSE]
      /\ work' \in [Asks -> WorkType]
      /\ \A q \in Asks \ {r} : /\ work'[q].kind = work[q].kind /\ work'[q].at = work[q].at
                               /\ work'[q].record = work[q].record
  BY <1>0, <1>2, <1>3, CancelledKeeps
<1>5. GatewayTypeOK'
  BY <1>0, <1>4 DEF Approve, GatewayTypeOK
<1>6. RecordsAreOwned'
  BY <1>0, <1>1, <1>4 DEF Approve, GatewayTypeOK, WorkType, RecordsAreOwned
<1>7. OneHolder' /\ WaitingIsPending'
  BY <1>0, <1>1, <1>4 DEF Approve, GatewayTypeOK, WorkType, OneHolder, WaitingIsPending
<1>8. NobodyForgotten'
  BY <1>0, <1>1, <1>4 DEF Approve, GatewayTypeOK, WorkType, RecordsAreOwned, NobodyForgotten
<1> QED
  BY <1>5, <1>6, <1>7, <1>8 DEF GatewayInv

\* The record a run enters the loop with is its own new one, or the one it holds already.
LEMMA RecordIsFree ==
    ASSUME GatewayInv, NEW r \in Asks, EnterLoop(r)
    PROVE  /\ RecordFor(r) \in Asks /\ waiting # RecordFor(r)
           /\ work[r].record \in {NoAsk, RecordFor(r)} /\ (work[r].record = NoAsk => RecordFor(r) = r)
           /\ \A q \in Asks \ {r} : ~Holds(q, RecordFor(r))
<1> USE GatewayRunsAssumption DEF At, Kind, Holds
<1>0. GatewayTypeOK /\ RecordsAreOwned /\ OneHolder /\ WaitingIsPending
  BY DEF GatewayInv
<1>1. CASE work[r].record = NoAsk
  <2>1. RecordFor(r) = r /\ record[r] = "none"
    BY <1>0, <1>1 DEF RecordFor, RecordsAreOwned
  <2>2. \A q \in Asks \ {r} : work[q].record # r
    BY <1>0, <2>1 DEF RecordsAreOwned
  <2> QED
    BY <1>0, <1>1, <2>1, <2>2 DEF WaitingIsPending
<1>2. CASE work[r].record # NoAsk
  <2>1. RecordFor(r) = work[r].record /\ work[r].record \in Asks
    BY <1>0, <1>2 DEF RecordFor, GatewayTypeOK, WorkType
  <2>2. At(r, {"queued"})
    BY <1>0, <1>2 DEF EnterLoop, RecordsAreOwned
  <2>3. Holds(r, work[r].record)
    BY <2>2
  <2> QED
    BY <1>0, <1>2, <2>1, <2>3 DEF OneHolder, WaitingIsPending
<1> QED
  BY <1>1, <1>2

LEMMA EnterLoopKeeps == ASSUME GatewayInv, NEW r \in Asks, EnterLoop(r) PROVE GatewayInv'
<1> USE GatewayRunsAssumption DEF At, Kind, Holds
<1>0. GatewayTypeOK /\ RecordsAreOwned /\ OneHolder /\ WaitingIsPending /\ NobodyForgotten
  BY DEF GatewayInv
<1> DEFINE t == RecordFor(r)
<1>1. /\ t \in Asks /\ waiting # t /\ work[r].record \in {NoAsk, t}
      /\ work[r].record = NoAsk => t = r
      /\ \A q \in Asks \ {r} : ~Holds(q, t)
  BY RecordIsFree
<1>2. /\ work' = [work EXCEPT ![r].at = "entering", ![r].record = t]
      /\ record' = [record EXCEPT ![t] = "running"] /\ At(r, {"queued", "routing"})
  BY DEF EnterLoop
<1> HIDE DEF t
<1>3. /\ work'[r] \in WorkType
      /\ work'[r].kind = work[r].kind /\ work'[r].at = "entering" /\ work'[r].record = t
      /\ \A q \in Asks \ {r} : work'[q] = work[q]
  <2>1. work'[r] = [work[r] EXCEPT !.at = "entering", !.record = t] /\ \A q \in Asks \ {r} : work'[q] = work[q]
    BY <1>0, <1>2 DEF GatewayTypeOK
  <2>2. work[r] \in WorkType /\ "entering" \in WorkPoints
    BY <1>0 DEF GatewayTypeOK, WorkPoints, Awaits
  <2> QED
    BY <1>1, <2>1, <2>2 DEF WorkType
<1>4. GatewayTypeOK'
  BY <1>0, <1>1, <1>2, <1>3 DEF EnterLoop, GatewayTypeOK, RecordStatuses
<1>5. RecordsAreOwned'
  BY <1>0, <1>1, <1>2, <1>3 DEF EnterLoop, GatewayTypeOK, RecordsAreOwned
<1>6. OneHolder'
  BY <1>0, <1>1, <1>2, <1>3 DEF EnterLoop, GatewayTypeOK, OneHolder
<1>7. WaitingIsPending'
  BY <1>0, <1>1, <1>2, <1>3 DEF EnterLoop, GatewayTypeOK, WaitingIsPending
<1>8. NobodyForgotten'
  BY <1>0, <1>1, <1>2, <1>3 DEF EnterLoop, GatewayTypeOK, NobodyForgotten
<1> QED
  BY <1>4, <1>5, <1>6, <1>7, <1>8 DEF GatewayInv

LEMMA GatewayStopsKeeps == ASSUME GatewayInv, GatewayStops PROVE GatewayInv'
<1> USE GatewayRunsAssumption DEF At, Kind, Holds
<1>0. GatewayTypeOK /\ RecordsAreOwned
  BY DEF GatewayInv
<1> DEFINE Over == {"ended", "failed", "dropped", "lost"}
<1>1. ASSUME NEW q \in Asks
      PROVE  /\ work'[q] \in WorkType /\ work'[q].kind = work[q].kind /\ work'[q].record = work[q].record
             /\ work'[q].at \in Over \cup {"none"} /\ (work'[q].at = "none" <=> work[q].at = "none")
  <2>1. work[q] \in WorkType /\ (work[q].kind = "none" <=> work[q].at = "none")
    BY <1>0 DEF GatewayTypeOK, RecordsAreOwned
  <2>2. work'[q] = IF Kind(q) = "none" \/ At(q, {"ended", "failed", "dropped"}) THEN work[q]
                   ELSE [work[q] EXCEPT !.at = "lost", !.cancelled = FALSE]
    BY DEF GatewayStops
  <2> QED
    BY <2>1, <2>2 DEF WorkType, WorkPoints
<1>2. work' \in [Asks -> WorkType]
  BY <1>1 DEF GatewayStops
<1>3. /\ UNCHANGED <<record, approvalOf, shown>> /\ held' = NoAsk /\ waiting' = NoAsk
      /\ stops' = stops + 1 /\ orphaned' \subseteq orphaned \cup Asks
  BY DEF GatewayStops
<1> HIDE DEF Over
<1>4. GatewayTypeOK'
  BY <1>0, <1>2, <1>3 DEF GatewayTypeOK
<1>5. RecordsAreOwned'
  BY <1>0, <1>1, <1>3 DEF GatewayTypeOK, RecordsAreOwned, Over
<1>6. OneHolder' /\ WaitingIsPending'
  BY <1>1, <1>3 DEF Over, OneHolder, WaitingIsPending
<1>7. NobodyForgotten'
  BY DEF GatewayStops, NobodyForgotten
<1> QED
  BY <1>4, <1>5, <1>6, <1>7 DEF GatewayInv

\* Whoever works in the loop writes the result into his own record, and nobody else holds that.
LEMMA AnsweredKeeps ==
    ASSUME GatewayInv, NEW r \in Asks, NEW status \in {"completed", "failed", "pending"}, NEW at \in {"telling", "asking"},
           At(r, {"entering", "loop"}), Answered(r, status, at),
           \/ /\ status # "pending" /\ UNCHANGED <<waiting, approvalOf>>
              /\ held' = held \/ (held' = NoAsk /\ At(r, {"loop"}))
           \/ /\ status = "pending" /\ At(r, {"loop"}) /\ Kind(r) # "resume" /\ waiting' = GoalOf(r)
              /\ approvalOf' = [approvalOf EXCEPT ![work[r].record] = GoalOf(r)] /\ UNCHANGED held
    PROVE  GatewayInv'
<1> USE GatewayRunsAssumption DEF At, Kind, Holds
<1>0. GatewayTypeOK /\ RecordsAreOwned /\ OneHolder /\ WaitingIsPending /\ NobodyForgotten
  BY DEF GatewayInv
<1> DEFINE t == work[r].record
<1>1. /\ t \in Asks /\ record[t] = "running" /\ waiting # t /\ GoalOf(r) = t
      /\ \A q \in Asks \ {r} : ~Holds(q, t)
      /\ At(r, {"loop"}) => held = t /\ waiting = NoAsk
      /\ Kind(r) # "none" /\ (Kind(r) # "resume" => t = r)
  BY <1>0 DEF OneHolder, WaitingIsPending, RecordsAreOwned, GoalOf
<1>2. /\ work' \in [Asks -> WorkType] /\ \A q \in Asks \ {r} : work'[q] = work[q]
      /\ work'[r].kind = work[r].kind /\ work'[r].record = t /\ work'[r].at = at
      /\ record' = [record EXCEPT ![t] = status]
  BY <1>0 DEF Answered, Moves, GatewayTypeOK, WorkType, WorkPoints, Awaits
<1>3. \A q \in Asks \ {r} : At(q, {"loop"}) => held # t
  BY <1>0, <1>1 DEF OneHolder
<1> HIDE DEF t
<1>4. GatewayTypeOK'
  BY <1>0, <1>1, <1>2 DEF Answered, GatewayTypeOK, RecordStatuses
<1>5. RecordsAreOwned'
  BY <1>0, <1>1, <1>2 DEF GatewayTypeOK, RecordsAreOwned, t
<1>6. OneHolder'
  BY <1>0, <1>1, <1>2, <1>3 DEF GatewayTypeOK, OneHolder
<1>7. WaitingIsPending'
  BY <1>0, <1>1, <1>2, <1>3 DEF GatewayTypeOK, RecordsAreOwned, WaitingIsPending
<1>8. NobodyForgotten'
  BY <1>0, <1>1, <1>2 DEF Answered, GatewayTypeOK, NobodyForgotten
<1> QED
  BY <1>4, <1>5, <1>6, <1>7, <1>8 DEF GatewayInv

LEMMA StartLoopKeeps == ASSUME GatewayInv, NEW r \in Asks, StartLoop(r) PROVE GatewayInv'
<1> USE GatewayRunsAssumption DEF At, Kind, Holds
<1>0. GatewayTypeOK /\ RecordsAreOwned /\ OneHolder /\ WaitingIsPending /\ NobodyForgotten
  BY DEF GatewayInv
<1> DEFINE t == work[r].record
<1>1. /\ t \in Asks /\ record[t] = "running" /\ waiting # t /\ GoalOf(r) = t
      /\ \A q \in Asks \ {r} : ~Holds(q, t)
      /\ held \in {NoAsk, t} /\ held' = t /\ Kind(r) # "none"
  BY <1>0 DEF StartLoop, OneHolder, WaitingIsPending, RecordsAreOwned, GoalOf
<1>2. /\ work' \in [Asks -> WorkType] /\ \A q \in Asks \ {r} : work'[q] = work[q]
      /\ work'[r].kind = work[r].kind /\ work'[r].record = t /\ work'[r].at = "loop"
  BY <1>0 DEF StartLoop, Moves, GatewayTypeOK, WorkType, WorkPoints, Awaits
<1>3. UNCHANGED <<record, approvalOf, waiting, shown, orphaned, stops>>
  BY DEF StartLoop
<1>4. \A q \in Asks \ {r} : ~At(q, {"loop"})
  BY <1>0, <1>1 DEF OneHolder
<1> HIDE DEF t
<1>5. GatewayTypeOK'
  BY <1>0, <1>1, <1>2, <1>3 DEF GatewayTypeOK
<1>6. RecordsAreOwned'
  BY <1>0, <1>1, <1>2, <1>3 DEF RecordsAreOwned, t
<1>7. OneHolder'
  BY <1>0, <1>1, <1>2, <1>3, <1>4 DEF OneHolder, t
<1>8. WaitingIsPending'
  BY <1>0, <1>1, <1>2, <1>3 DEF WaitingIsPending, t
<1>9. NobodyForgotten'
  BY <1>0, <1>1, <1>2, <1>3 DEF NobodyForgotten, t
<1> QED
  BY <1>5, <1>6, <1>7, <1>8, <1>9 DEF GatewayInv

LEMMA DenyKeeps == ASSUME GatewayInv, NEW g \in Asks, Deny(g) PROVE GatewayInv'
<1> USE GatewayRunsAssumption DEF At, Kind, Holds
<1>0. GatewayTypeOK /\ RecordsAreOwned /\ OneHolder /\ WaitingIsPending /\ NobodyForgotten
  BY DEF GatewayInv
<1>1. \A q \in Asks : ~At(q, {"loop"})
  BY <1>0 DEF Deny, OneHolder, WaitingIsPending
<1>2. GatewayTypeOK' /\ RecordsAreOwned'
  BY <1>0 DEF Deny, GatewayTypeOK, RecordsAreOwned
<1>3. OneHolder' /\ WaitingIsPending' /\ NobodyForgotten'
  BY <1>0, <1>1 DEF Deny, GatewayTypeOK, OneHolder, WaitingIsPending, NobodyForgotten
<1> QED
  BY <1>2, <1>3 DEF GatewayInv

\* What a request that is under way is and stays.
LEMMA MovesOn ==
    ASSUME GatewayInv, NEW r \in Asks, NEW at \in WorkPoints, Moves(r, at), ~At(r, {"none"})
    PROVE  /\ Kind(r) # "none" /\ work' \in [Asks -> WorkType] /\ \A q \in Asks \ {r} : work'[q] = work[q]
           /\ work'[r].kind = work[r].kind /\ work'[r].record = work[r].record /\ work'[r].at = at
           /\ work'[r].cancelled = work[r].cancelled
<1>0. GatewayTypeOK /\ RecordsAreOwned
  BY DEF GatewayInv
<1>1. work[r] \in WorkType /\ work' = [work EXCEPT ![r].at = at]
  BY <1>0 DEF GatewayTypeOK, Moves
<1>2. Kind(r) # "none"
  BY <1>0 DEF RecordsAreOwned
<1> QED
  BY <1>0, <1>1, <1>2 DEF GatewayTypeOK, WorkType

\* Every step of the gateway keeps the invariant.
LEMMA GatewayStepKeeps == GatewayInv /\ [GatewayNext]_gatewayVars => GatewayInv'
<1> SUFFICES ASSUME GatewayInv, [GatewayNext]_gatewayVars PROVE GatewayInv'
  OBVIOUS
<1> USE GatewayRunsAssumption
<1>0. /\ GatewayTypeOK /\ RecordsAreOwned
      /\ orphaned \subseteq Asks \cup {NoAsk} /\ shown \subseteq Asks \cup {NoAsk}
      /\ \A r \in Asks : work[r] \in WorkType
  BY DEF GatewayInv, GatewayTypeOK
<1>1. ASSUME NEW r \in Asks, NEW kind \in Kinds, Ask(r, kind) PROVE GatewayInv'
  BY <1>1, AskKeeps
<1>2. ASSUME NEW r \in Asks, BeginAsk(r) PROVE GatewayInv'
  <2>1. PICK at \in {"quoting", "routing"} : Moves(r, at)
    BY <1>2 DEF BeginAsk
  <2>2. work[r].record = NoAsk
    BY <1>0, <1>2 DEF BeginAsk, RecordsAreOwned, Kind
  <2> QED
    BY <1>0, <1>2, <2>1, <2>2, MovesOn, QuietMove DEF BeginAsk, At, Holds, WorkPoints, Awaits
<1>3. ASSUME NEW r \in Asks, Route(r) PROVE GatewayInv'
  BY <1>0, <1>3, MovesOn, QuietMove DEF Route, At, Holds, WorkPoints, Awaits
<1>4. ASSUME NEW r \in Asks, Forward(r) \/ AgentAnswers(r) \/ PostFails(r) PROVE GatewayInv'
  BY <1>0, <1>4, MovesOn, QuietMove DEF Forward, AgentAnswers, PostFails, At, Holds, WorkPoints, Awaits
<1>5. ASSUME NEW r \in Asks, EnterLoop(r) PROVE GatewayInv'
  BY <1>5, EnterLoopKeeps
<1>6. ASSUME NEW r \in Asks, StartLoop(r) PROVE GatewayInv'
  BY <1>6, StartLoopKeeps
<1>7. ASSUME NEW r \in Asks, RefuseLoop(r) PROVE GatewayInv'
  BY <1>7, AnsweredKeeps DEF RefuseLoop, At
<1>8. ASSUME NEW r \in Asks, NEW status \in {"completed", "failed"}, FinishLoop(r, status) PROVE GatewayInv'
  BY <1>8, AnsweredKeeps DEF FinishLoop, At
<1>9. ASSUME NEW r \in Asks, AskHuman(r) PROVE GatewayInv'
  BY <1>9, AnsweredKeeps DEF AskHuman, At
<1>10. ASSUME NEW r \in Asks, ShowApproval(r) PROVE GatewayInv'
  <2>1. shown' \subseteq Asks \cup {NoAsk}
    BY <1>0, <1>10 DEF ShowApproval, WorkType
  <2> QED
    BY <1>0, <1>10, <2>1, MovesOn, QuietMove DEF ShowApproval, At, Holds, WorkPoints, Awaits
<1>11. ASSUME NEW r \in Asks, Tell(r) PROVE GatewayInv'
  BY <1>0, <1>11, MovesOn, QuietMove DEF Tell, At, Holds, WorkPoints, Awaits
<1>12. ASSUME NEW r \in Asks, Drop(r) PROVE GatewayInv'
  <2>1. /\ orphaned \subseteq orphaned' /\ orphaned' \subseteq Asks \cup {NoAsk}
        /\ Holds(r, work[r].record) => work[r].record \in orphaned'
    BY <1>0, <1>12 DEF Drop, CutOff, WorkType
  <2> QED
    BY <1>0, <1>12, <2>1, MovesOn, QuietMove DEF Drop, At, WorkPoints, Awaits
<1>13. ASSUME NEW r \in Asks, InterruptAsk(r) PROVE GatewayInv'
  <2>1. /\ orphaned \subseteq orphaned' /\ orphaned' \subseteq Asks \cup {NoAsk}
        /\ Holds(r, work[r].record) => work[r].record \in orphaned'
    BY <1>0, <1>13 DEF InterruptAsk, CutOff, WorkType
  <2>2. PICK at \in {"inner_abort", "abort"} : work' = [work EXCEPT ![r].at = at, ![r].cancelled = FALSE]
    BY <1>13 DEF InterruptAsk
  <2>3. work' = [work EXCEPT ![r] = [work[r] EXCEPT !.at = at, !.cancelled = FALSE]]
    BY <1>0, <2>2 DEF GatewayTypeOK
  <2>4. [work[r] EXCEPT !.at = at, !.cancelled = FALSE] \in WorkType
    <3>1. at \in WorkPoints /\ work[r] \in WorkType
      BY <1>0 DEF WorkPoints, Awaits
    <3> QED
      BY <3>1 DEF WorkType
  <2>5. /\ Kind(r) # "none" /\ work' \in [Asks -> WorkType] /\ \A q \in Asks \ {r} : work'[q] = work[q]
        /\ work'[r].kind = work[r].kind /\ work'[r].record = work[r].record /\ work'[r].at = at
    BY <1>0, <1>13, <2>3, <2>4 DEF InterruptAsk, GatewayTypeOK, WorkType, RecordsAreOwned, At, Awaits
  <2> QED
    BY <1>0, <1>13, <2>1, <2>5, QuietMove DEF InterruptAsk
<1>14. ASSUME NEW r \in Asks, InnerAborted(r) \/ TellAborted(r) PROVE GatewayInv'
  <2>1. PICK at \in {"ended", "abort"} : Moves(r, at)
    BY <1>14 DEF InnerAborted, Rethrown, TellAborted
  <2> QED
    BY <1>0, <1>14, <2>1, MovesOn, QuietMove DEF InnerAborted, TellAborted, At, Holds, WorkPoints, Awaits
<1>15. ASSUME NEW g \in Asks, NEW r \in Asks, Approve(g, r) PROVE GatewayInv'
  BY <1>15, ApproveKeeps
<1>16. ASSUME NEW g \in Asks, Deny(g) PROVE GatewayInv'
  BY <1>16, DenyKeeps
<1>17. CASE ChatAbort \/ GatewayStops
  BY <1>17, ChatAbortKeeps, GatewayStopsKeeps
<1>18. CASE UNCHANGED gatewayVars
  BY <1>18 DEF gatewayVars, GatewayInv, GatewayTypeOK, RecordsAreOwned, OneHolder, WaitingIsPending,
               NobodyForgotten, Holds, At, Kind
<1> QED
  BY <1>1, <1>2, <1>3, <1>4, <1>5, <1>6, <1>7, <1>8, <1>9, <1>10, <1>11, <1>12, <1>13, <1>14, <1>15,
     <1>16, <1>17, <1>18 DEF GatewayNext

\* The record _run_control_loop_with_task leaves on disk tells how it stands with its run: running and
\* pending ones have somebody who works on them or will, unless an abort, a restart or a refusal cut
\* them off, and nobody shares a record.
THEOREM RecordsFollowTheirRuns == GatewaySpec => []RecordsFollowRuns
<1>1. GatewayInit => GatewayInv
  BY GatewayInitially
<1>2. GatewayInv /\ [GatewayNext]_gatewayVars => GatewayInv'
  BY GatewayStepKeeps
<1>3. GatewayInv => RecordsFollowRuns
  BY DEF GatewayInv, NobodyForgotten, OneHolder, RecordsFollowRuns
<1> QED
  BY <1>1, <1>2, <1>3, PTL DEF GatewaySpec

-----------------------------------------------------------------------------
LEMMA LastOfAppend ==
    ASSUME NEW S, NEW s \in Seq(S), NEW x \in S
    PROVE  Append(s, x) \in Seq(S) /\ Lasts(Append(s, x), x)
  BY DEF Lasts

\* A step of one request says nothing about the others.
LEMMA OnlyOneMoves ==
    ASSUME TranscriptInv, NEW r \in Asks, Agrees(r)',
           \A q \in Asks \ {r} : work'[q] = work[q],
           \/ entries' = entries
           \/ \E x \in {"answer", "aborted"} : entries' = [entries EXCEPT ![r] = Append(@, x)],
           \/ told' = told
           \/ \E x \in {"answer", "aborted"} : told' = [told EXCEPT ![r] = Append(@, x)]
    PROVE  TranscriptInv'
<1>1. entries' \in [Asks -> Seq({"answer", "aborted"})] /\ \A q \in Asks \ {r} : entries'[q] = entries[q]
  <2>1. CASE entries' = entries
    BY <2>1 DEF TranscriptInv
  <2>2. ASSUME NEW x \in {"answer", "aborted"}, entries' = [entries EXCEPT ![r] = Append(@, x)]
        PROVE  entries' \in [Asks -> Seq({"answer", "aborted"})] /\ \A q \in Asks \ {r} : entries'[q] = entries[q]
    <3>1. Append(entries[r], x) \in Seq({"answer", "aborted"})
      BY LastOfAppend DEF TranscriptInv
    <3> QED
      BY <2>2, <3>1 DEF TranscriptInv
  <2> QED
    BY <2>1, <2>2
<1>2. told' \in [Asks -> Seq({"answer", "aborted"})] /\ \A q \in Asks \ {r} : told'[q] = told[q]
  <2>1. CASE told' = told
    BY <2>1 DEF TranscriptInv
  <2>2. ASSUME NEW x \in {"answer", "aborted"}, told' = [told EXCEPT ![r] = Append(@, x)]
        PROVE  told' \in [Asks -> Seq({"answer", "aborted"})] /\ \A q \in Asks \ {r} : told'[q] = told[q]
    <3>1. Append(told[r], x) \in Seq({"answer", "aborted"})
      BY LastOfAppend DEF TranscriptInv
    <3> QED
      BY <2>2, <3>1 DEF TranscriptInv
  <2> QED
    BY <2>1, <2>2
<1>3. ASSUME NEW q \in Asks \ {r} PROVE Agrees(q)'
  BY <1>1, <1>2 DEF TranscriptInv, Agrees, Kind, At
<1> QED
  BY <1>1, <1>2, <1>3 DEF TranscriptInv

\* Requests that begin or are cancelled write nothing.
LEMMA CancelsAgree ==
    ASSUME GatewayTypeOK, TranscriptInv, UNCHANGED <<entries, told>>,
           \A q \in Asks : \/ work'[q] = Cancelled[q] \/ work'[q] = work[q]
                           \/ work'[q].at = "queued" /\ ~work'[q].cancelled
    PROVE  TranscriptInv'
<1>1. ASSUME NEW q \in Asks PROVE Agrees(q)'
  <2>1. Agrees(q) /\ entries'[q] = entries[q] /\ told'[q] = told[q]
    BY DEF TranscriptInv, Agrees
  <2>2. CASE work'[q] = Cancelled[q]
    <3>1. /\ Cancelled[q].kind = work[q].kind /\ Cancelled[q].at = work[q].at /\ Cancelled[q].record = work[q].record
          /\ Cancelled[q].kind \in {"post", "post_control"} => Cancelled[q].cancelled = work[q].cancelled
      BY CancelledKeeps
    <3> QED
      BY <2>1, <2>2, <3>1 DEF Agrees, Kind, At
  <2>3. CASE work'[q] = work[q] \/ (work'[q].at = "queued" /\ ~work'[q].cancelled)
    BY <2>1, <2>3 DEF Agrees, Kind, At
  <2> QED
    BY <2>2, <2>3
<1> QED
  BY <1>1 DEF TranscriptInv

LEMMA TranscriptStepKeeps == GatewayInv /\ TranscriptInv /\ [GatewayNext]_gatewayVars => TranscriptInv'
<1> SUFFICES ASSUME GatewayInv, TranscriptInv, [GatewayNext]_gatewayVars PROVE TranscriptInv'
  OBVIOUS
<1> USE GatewayRunsAssumption
<1>0. /\ GatewayTypeOK /\ RecordsAreOwned /\ work \in [Asks -> WorkType]
      /\ \A r \in Asks : Agrees(r) /\ entries[r] \in Seq({"answer", "aborted"}) /\ told[r] \in Seq({"answer", "aborted"})
      /\ entries \in [Asks -> Seq({"answer", "aborted"})] /\ told \in [Asks -> Seq({"answer", "aborted"})]
  BY DEF GatewayInv, GatewayTypeOK, TranscriptInv
<1>1. ASSUME NEW r \in Asks, NEW kind \in Kinds, Ask(r, kind) PROVE TranscriptInv'
  <2>1. \A q \in Asks : \/ work'[q] = Cancelled[q] \/ work'[q] = work[q]
                        \/ work'[q].at = "queued" /\ ~work'[q].cancelled
    BY <1>0, <1>1, CancelledKeeps DEF Ask
  <2> QED
    BY <1>0, <1>1, <2>1, CancelsAgree DEF Ask
<1>2. ASSUME NEW g \in Asks, NEW r \in Asks, Approve(g, r) PROVE TranscriptInv'
  <2>1. \A q \in Asks : \/ work'[q] = Cancelled[q] \/ work'[q] = work[q]
                        \/ work'[q].at = "queued" /\ ~work'[q].cancelled
    BY <1>0, <1>2, CancelledKeeps DEF Approve
  <2> QED
    BY <1>0, <1>2, <2>1, CancelsAgree DEF Approve
<1>3. CASE ChatAbort
  BY <1>0, <1>3, CancelsAgree DEF ChatAbort
<1>4. ASSUME NEW g \in Asks, Deny(g) PROVE TranscriptInv'
  BY <1>0, <1>4, CancelsAgree DEF Deny
<1>5. CASE GatewayStops
  <2>1. ASSUME NEW q \in Asks PROVE Agrees(q)'
    <3>1. Agrees(q) /\ work[q] \in WorkType /\ entries'[q] = entries[q] /\ told'[q] = told[q]
      BY <1>0, <1>5 DEF GatewayStops
    <3>2. \/ work'[q] = work[q]
          \/ work'[q] = [work[q] EXCEPT !.at = "lost", !.cancelled = FALSE]
      BY <1>0, <1>5 DEF GatewayStops
    <3> QED
      BY <3>1, <3>2 DEF Agrees, Kind, At, WorkType
  <2> QED
    BY <1>0, <1>5, <2>1 DEF GatewayStops, TranscriptInv
<1>6. ASSUME NEW r \in Asks, NEW at \in WorkPoints, ~At(r, {"none"}), Moves(r, at), at \notin {"telling", "asking", "abort", "inner_abort", "ended"},
             UNCHANGED <<entries, told>>
      PROVE  TranscriptInv'
  <2>1. /\ work'[r].kind = work[r].kind /\ work'[r].at = at /\ work'[r].cancelled = work[r].cancelled
        /\ \A q \in Asks \ {r} : work'[q] = work[q]
    BY <1>6, MovesOn
  <2>2. Agrees(r)'
    BY <1>0, <1>6, <2>1 DEF Agrees, Kind, At
  <2> QED
    BY <1>6, <2>1, <2>2, OnlyOneMoves
<1>7. ASSUME NEW r \in Asks, BeginAsk(r) \/ Route(r) \/ Forward(r) \/ PostFails(r) \/ StartLoop(r) \/ Drop(r)
      PROVE  TranscriptInv'
  BY <1>6, <1>7 DEF BeginAsk, Route, Forward, PostFails, StartLoop, Drop, At, WorkPoints, Awaits
<1>8. ASSUME NEW r \in Asks, EnterLoop(r) PROVE TranscriptInv'
  <2>1. \A q \in Asks : work'[q] = IF q = r THEN [work[r] EXCEPT !.at = "entering", !.record = RecordFor(r)] ELSE work[q]
    BY <1>0, <1>8 DEF EnterLoop
  <2>2. Agrees(r)'
    BY <1>0, <1>8, <2>1 DEF EnterLoop, Agrees, Kind, At, WorkType
  <2> QED
    BY <1>8, <2>1, <2>2, OnlyOneMoves DEF EnterLoop
<1>9. ASSUME NEW r \in Asks, ~At(r, {"none"}), Moves(r, "telling"), Lasts(entries[r], "answer")',
             \/ entries' = entries /\ Kind(r) # "post"
             \/ entries' = Noted(r),
             UNCHANGED told
      PROVE  TranscriptInv'
  <2>1. /\ work'[r].kind = work[r].kind /\ work'[r].at = "telling" /\ work'[r].cancelled = work[r].cancelled
        /\ \A q \in Asks \ {r} : work'[q] = work[q]
    BY <1>9, MovesOn DEF WorkPoints, Awaits
  <2>2. Agrees(r)'
    BY <1>0, <1>9, <2>1 DEF Agrees, Kind, At
  <2> QED
    BY <1>9, <2>1, <2>2, OnlyOneMoves DEF Noted
<1>10. ASSUME NEW r \in Asks, entries' = Noted(r) PROVE Lasts(entries[r], "answer")'
  BY <1>0, <1>10, LastOfAppend DEF Noted
<1>11. ASSUME NEW r \in Asks, AgentAnswers(r) PROVE TranscriptInv'
  BY <1>9, <1>10, <1>11 DEF AgentAnswers, At
<1>12. ASSUME NEW r \in Asks, NEW status \in {"completed", "failed"}, RefuseLoop(r) \/ FinishLoop(r, status)
       PROVE  TranscriptInv'
  BY <1>9, <1>10, <1>12 DEF RefuseLoop, FinishLoop, Answered, At
<1>13. ASSUME NEW r \in Asks, AskHuman(r) PROVE TranscriptInv'
  <2>1. /\ work'[r].kind = work[r].kind /\ work'[r].at = "asking" /\ work'[r].cancelled = work[r].cancelled
        /\ \A q \in Asks \ {r} : work'[q] = work[q]
    BY <1>13, MovesOn DEF AskHuman, Answered, At, WorkPoints, Awaits
  <2>2. Kind(r) = "chat" => Lasts(entries[r], "answer")'
    BY <1>10, <1>13 DEF AskHuman, Answered
  <2>3. Agrees(r)'
    BY <1>0, <2>1, <2>2 DEF Agrees, Kind, At
  <2> QED
    BY <1>13, <2>1, <2>3, OnlyOneMoves DEF AskHuman, Answered, Noted
<1>14. ASSUME NEW r \in Asks, ShowApproval(r) PROVE TranscriptInv'
  <2>1. /\ work'[r].kind = work[r].kind /\ work'[r].at = "telling" /\ work'[r].cancelled = work[r].cancelled
        /\ \A q \in Asks \ {r} : work'[q] = work[q]
    BY <1>14, MovesOn DEF ShowApproval, At, WorkPoints, Awaits
  <2>2. Kind(r) \in {"chat", "post"} => Lasts(entries[r], "answer")'
    BY <1>0, <1>10, <1>14 DEF ShowApproval, Agrees, Kind, At
  <2>3. Agrees(r)'
    BY <1>0, <1>14, <2>1, <2>2 DEF Agrees, Kind, At
  <2> QED
    BY <1>14, <2>1, <2>3, OnlyOneMoves DEF ShowApproval, Noted
<1>15. ASSUME NEW r \in Asks, Tell(r) PROVE TranscriptInv'
  <2>1. /\ work'[r].kind = work[r].kind /\ work'[r].at = "ended" /\ work'[r].cancelled = work[r].cancelled
        /\ \A q \in Asks \ {r} : work'[q] = work[q]
    BY <1>15, MovesOn DEF Tell, At, WorkPoints
  <2>2. Lasts(told[r], "answer")'
    BY <1>0, <1>15, LastOfAppend DEF Tell
  <2>3. Agrees(r)'
    <3>1. Kind(r) \in {"chat", "post"} => Lasts(entries'[r], "answer")
      BY <1>0, <1>15 DEF Tell, Agrees, At
    <3> QED
      BY <1>0, <2>1, <2>2, <3>1 DEF Agrees, Kind, At
  <2> QED
    BY <1>15, <2>1, <2>3, OnlyOneMoves DEF Tell
<1>16. ASSUME NEW r \in Asks, InterruptAsk(r) PROVE TranscriptInv'
  <2>1. \A q \in Asks :
           work'[q] = IF q = r THEN [work[r] EXCEPT !.at = IF InLoop(r) THEN "inner_abort" ELSE "abort", !.cancelled = FALSE]
                      ELSE work[q]
    BY <1>0, <1>16 DEF InterruptAsk
  <2>2. ~InLoop(r) => Lasts(entries[r], "aborted")'
    BY <1>0, <1>16, LastOfAppend DEF InterruptAsk
  <2>3. Agrees(r)'
    BY <1>0, <1>16, <2>1, <2>2 DEF InterruptAsk, InLoop, Agrees, Kind, At, WorkType
  <2> QED
    BY <1>16, <2>1, <2>3, OnlyOneMoves DEF InterruptAsk
<1>17. ASSUME NEW r \in Asks, InnerAborted(r) PROVE TranscriptInv'
  <2>1. \A q \in Asks : work'[q] = IF q = r THEN [work[r] EXCEPT !.at = Rethrown(r)] ELSE work[q]
    BY <1>0, <1>17 DEF InnerAborted, Moves
  <2>2. Kind(r) = "chat" => Lasts(entries[r], "aborted")'
    BY <1>0, <1>17, LastOfAppend DEF InnerAborted, Rethrown
  <2>3. Agrees(r)'
    BY <1>0, <1>17, <2>1, <2>2 DEF InnerAborted, Rethrown, Agrees, Kind, At, WorkType
  <2> QED
    BY <1>17, <2>1, <2>3, OnlyOneMoves DEF InnerAborted
<1>18. ASSUME NEW r \in Asks, TellAborted(r) PROVE TranscriptInv'
  <2>1. \A q \in Asks : work'[q] = IF q = r THEN [work[r] EXCEPT !.at = "ended"] ELSE work[q]
    BY <1>0, <1>18 DEF TellAborted, Moves
  <2>2. Lasts(told[r], "aborted")'
    BY <1>0, <1>18, LastOfAppend DEF TellAborted
  <2>3. Agrees(r)'
    BY <1>0, <1>18, <2>1, <2>2 DEF TellAborted, Agrees, Kind, At, WorkType
  <2> QED
    BY <1>18, <2>1, <2>3, OnlyOneMoves DEF TellAborted
<1>19. CASE UNCHANGED gatewayVars
  BY <1>19 DEF gatewayVars, TranscriptInv, Agrees, Kind, At
<1> QED
  BY <1>1, <1>2, <1>3, <1>4, <1>5, <1>7, <1>8, <1>11, <1>12, <1>13, <1>14, <1>15, <1>16, <1>17, <1>18, <1>19
     DEF GatewayNext

\* What a client was told last of a chat message (chat.done, or the answer of POST /run) is what the
\* transcript shows last, wherever an abort met it: the handlers of CancelledError write before they tell.
THEOREM TranscriptAlwaysAgrees == GatewaySpec => []TranscriptAgrees
<1>1. GatewayInit => GatewayInv /\ TranscriptInv
  BY GatewayInitially
<1>2. GatewayInv /\ TranscriptInv /\ [GatewayNext]_gatewayVars => GatewayInv' /\ TranscriptInv'
  BY GatewayStepKeeps, TranscriptStepKeeps
<1>3. TranscriptInv => TranscriptAgrees
  BY DEF TranscriptInv, Agrees, Lasts, TranscriptAgrees
<1> QED
  BY <1>1, <1>2, <1>3, PTL DEF GatewaySpec

-----------------------------------------------------------------------------
\* Self-improvement.


NoOrder == [kind |-> "none"]
FlowPoints == {"none", "reuse", "preparing", "commands", "checking", "benchmarks", "recording", "closing",
               "ended", "cancelled", "raised"}
FlowType == [order : Orders \cup {NoOrder}, at : FlowPoints, try : 1..(Tries + 1), path : Seq(Slugs \cup Canaries),
             rank : Seq(0..3), winner : 0..Tries, promotable : BOOLEAN, proven : BOOLEAN]
CanaryType == [dir : {"none", "worktree", "ghost"}, passes : SUBSET Suites,
               benchmark : [suite : Suites \cup {"none"}, passed : BOOLEAN, fast : BOOLEAN], edited : BOOLEAN]

ImprovementTypeOK ==
    /\ canary \in [Canaries -> CanaryType] /\ flow \in [Flows -> FlowType] /\ second \in 0..MaxSecond
    /\ offered \subseteq approved

\* A benchmark that passed says what the canary is like, until somebody edits it.
BenchmarkHolds(c) == c.benchmark.passed => c.benchmark.suite \in c.passes \/ c.edited \/ c.dir = "ghost"

\* How far a run of candidates is: those that have a rank have a canary.
CandidatesOf(w) == IF w.order.kind = "search" THEN Tries ELSE 1
InStep(w) ==
    IF w.at = "none" THEN w.order = NoOrder
    ELSE IF w.order.kind \in {"package", "benchmark"}
    THEN /\ w.order \in Orders /\ w.at \notin {"reuse", "preparing", "commands"}
         /\ w.try = 1 /\ Len(w.path) = 1 /\ w.path[1] \in Canaries
    ELSE /\ w.order \in Orders /\ w.order.kind \in {"search", "demo"}
         /\ Len(w.path) = CandidatesOf(w) /\ Len(w.rank) <= CandidatesOf(w)
         /\ \A i \in 1..Len(w.path) : w.path[i] \in IF i <= Len(w.rank) THEN Canaries ELSE Slugs
         /\ w.try <= CandidatesOf(w) + 1
         /\ Len(w.rank) \in {w.try - 1, w.try}
         /\ w.at \in {"reuse", "preparing"} => Len(w.rank) = w.try - 1
         /\ w.at = "commands" => Len(w.rank) = w.try
         /\ w.at \in {"checking", "benchmarks"} /\ w.try <= CandidatesOf(w) => Len(w.rank) = w.try
         /\ w.order.kind = "demo" /\ w.at \notin {"ended", "cancelled", "raised"} => w.try = 1

\* The winner of a search is the best of those that were ranked; a winner that is packaged again exists.
WinnerIsBest(w) ==
    w.order.kind = "search" =>
        /\ w.winner <= Len(w.rank) /\ w.winner < w.try
        /\ w.winner = 0 => \A i \in 1..Len(w.rank) : w.rank[i] = 0
        /\ w.winner # 0 => \A i \in 1..Len(w.rank) : w.rank[i] <= w.rank[w.winner]
        /\ w.at \in {"checking", "benchmarks", "recording"} /\ w.try > Tries => w.winner # 0

\* What is about to be recorded is proven, has what its kind needs, and is the winner of its search.
RecordIsDue(w) ==
    w.at = "recording" =>
        w.proven /\ Deployable(w.order.promotes, w.order.linked) /\ (w.order.kind = "search" => w.try > Tries)

RunOK(w) == InStep(w) /\ WinnerIsBest(w) /\ RecordIsDue(w)

\* An approved record is of a run that is over, or about to be.
ApprovedOK(m) ==
    /\ m.proven /\ Deployable(m.promotes, m.linked) /\ m.by \in Flows
    /\ flow[m.by].at \in {"closing", "ended"}
    /\ RunKind(m.by) = "search" => flow[m.by].try > Tries /\ flow[m.by].winner # 0

ImprovementInv ==
    /\ ImprovementTypeOK
    /\ \A n \in Canaries : BenchmarkHolds(canary[n])
    /\ \A f \in Flows : RunOK(flow[f])
    /\ \A m \in approved : ApprovedOK(m)

CanariesOK(store) == store \in [Canaries -> CanaryType] /\ \A n \in Canaries : BenchmarkHolds(store[n])

-----------------------------------------------------------------------------
LEMMA ImprovementInitially == ImprovementInit => ImprovementInv
<1> SUFFICES ASSUME ImprovementInit PROVE ImprovementInv
  OBVIOUS
<1> USE SelfImprovementAssumption
<1>1. NoCanary \in CanaryType /\ BenchmarkHolds(NoCanary)
  BY DEF NoCanary, NoBenchmark, CanaryType, BenchmarkHolds
<1>2. NoFlow \in FlowType
  BY DEF NoFlow, FlowType, FlowPoints, NoOrder
<1>3. RunOK(NoFlow)
  BY DEF NoFlow, RunOK, InStep, WinnerIsBest, RecordIsDue, NoOrder
<1>4. ImprovementTypeOK
  BY <1>1, <1>2 DEF ImprovementInit, ImprovementTypeOK
<1> QED
  BY <1>1, <1>3, <1>4 DEF ImprovementInit, ImprovementInv

\* What is done to a canary leaves a passed benchmark true, or marks the canary as edited.
LEMMA CanariesStayOK ==
    ASSUME CanariesOK(canary), NEW n \in Canaries, NEW ns, NEW passes \in SUBSET Suites
    PROVE  /\ CanariesOK(Persisted(n)) /\ CanariesOK(Edited(n, passes))
           /\ CanariesOK(Cleaned(canary, ns)) /\ CanariesOK(Cleaned(Persisted(n), ns))
           /\ CanariesOK([canary EXCEPT ![n] = [NoCanary EXCEPT !.dir = "worktree"]])
<1>1. NoCanary \in CanaryType /\ BenchmarkHolds(NoCanary)
  BY DEF NoCanary, NoBenchmark, CanaryType, BenchmarkHolds
<1>2. ASSUME NEW store, CanariesOK(store) PROVE CanariesOK(Cleaned(store, ns))
  BY <1>1, <1>2 DEF CanariesOK, Cleaned
<1>3. CanariesOK(Persisted(n))
  <2>1. \A k \in Canaries : Persisted(n)[k] = IF k = n THEN [canary[n] EXCEPT !.dir = IF @ = "none" THEN "ghost" ELSE @]
                                              ELSE canary[k]
    BY DEF Persisted, CanariesOK
  <2>2. \A k \in Canaries : Persisted(n)[k] \in CanaryType /\ BenchmarkHolds(Persisted(n)[k])
    BY <2>1 DEF CanariesOK, CanaryType, BenchmarkHolds
  <2> QED
    BY <2>2 DEF Persisted, CanariesOK
<1>4. CanariesOK(Edited(n, passes))
  <2>1. \A k \in Canaries : Edited(n, passes)[k] =
           IF k = n THEN [canary[n] EXCEPT !.passes = passes, !.edited = canary[n].benchmark # NoBenchmark] ELSE canary[k]
    BY DEF Edited, CanariesOK
  <2> DEFINE touched == canary[n].benchmark # NoBenchmark
  <2>2. canary[n] \in CanaryType /\ touched \in BOOLEAN /\ (canary[n].benchmark.passed => touched)
    BY DEF CanariesOK, NoBenchmark
  <2> HIDE DEF touched
  <2>3. ASSUME NEW k \in Canaries
        PROVE  Edited(n, passes)[k] \in CanaryType /\ BenchmarkHolds(Edited(n, passes)[k])
    <3>1. Edited(n, passes)[k] = IF k = n THEN [canary[n] EXCEPT !.passes = passes, !.edited = touched] ELSE canary[k]
      BY <2>1 DEF touched
    <3> QED
      BY <2>2, <3>1 DEF CanariesOK, CanaryType, BenchmarkHolds
  <2> QED
    BY <2>3 DEF Edited, CanariesOK
<1>5. CanariesOK([canary EXCEPT ![n] = [NoCanary EXCEPT !.dir = "worktree"]])
  BY DEF CanariesOK, CanaryType, BenchmarkHolds, NoCanary, NoBenchmark
<1> QED
  BY <1>2, <1>3, <1>4, <1>5

\* A run that is over stays as it is; the steps of one run leave the others and their records alone.
LEMMA OneRunMoves ==
    ASSUME ImprovementInv, NEW f \in Flows, NEW w \in FlowType, flow' = [flow EXCEPT ![f] = w], RunOK(w),
           flow[f].at \in {"closing", "ended"} =>
               w.at \in {"closing", "ended"} /\ w.order = flow[f].order /\ w.try = flow[f].try /\ w.winner = flow[f].winner,
           CanariesOK(canary'), UNCHANGED <<approved, second>>, offered' \subseteq approved
    PROVE  ImprovementInv'
<1>1. ImprovementTypeOK'
  BY DEF ImprovementInv, ImprovementTypeOK, CanariesOK
<1>2. \A g \in Flows : flow'[g] = IF g = f THEN w ELSE flow[g]
  BY DEF ImprovementInv, ImprovementTypeOK
<1>3. \A g \in Flows : RunOK(flow'[g])
  BY <1>2 DEF ImprovementInv
<1>4. ASSUME NEW m \in approved PROVE ApprovedOK(m)'
  BY <1>2 DEF ImprovementInv, ApprovedOK, RunKind, Order
<1> QED
  BY <1>1, <1>3, <1>4 DEF ImprovementInv, CanariesOK

\* Where a run's canary is, and what the run may be.
LEMMA RunAtWork ==
    ASSUME ImprovementInv, NEW f \in Flows, flow[f].at \in {"commands", "checking", "benchmarks", "recording"}
    PROVE  /\ flow[f].order \in Orders /\ Order(f).suite \in Suites
           /\ flow[f].at # "recording" => Path(f) \in Canaries
<1> USE SelfImprovementAssumption
<1>1. flow[f] \in FlowType /\ InStep(flow[f]) /\ WinnerIsBest(flow[f])
  BY DEF ImprovementInv, ImprovementTypeOK, RunOK
<1>2. flow[f].order \in Orders /\ Order(f).suite \in Suites
  BY <1>1 DEF InStep, Order
<1>3. ASSUME flow[f].at # "recording" PROVE Path(f) \in Canaries
  <2>1. CASE Order(f).kind \in {"package", "benchmark"}
    BY <1>1, <2>1 DEF InStep, Order, Path, Refreshes, RunKind
  <2>2. CASE ~(Order(f).kind \in {"package", "benchmark"}) /\ Refreshes(f)
    <3>1. flow[f].at # "commands" /\ flow[f].winner # 0 /\ flow[f].winner \in 1..Len(flow[f].rank) /\ Len(flow[f].rank) <= Len(flow[f].path)
      BY <1>1, <1>3, <2>2 DEF InStep, WinnerIsBest, Order, Refreshes, RunKind, FlowType, CandidatesOf
    <3>2. flow[f].winner \in 1..Len(flow[f].path)
      BY <1>1, <3>1 DEF FlowType
    <3> QED
      BY <1>1, <1>3, <2>2, <3>1, <3>2 DEF InStep, Order, Path, Refreshes, RunKind, FlowType
  <2>3. CASE ~(Order(f).kind \in {"package", "benchmark"}) /\ ~Refreshes(f)
    <3>1. flow[f].try <= CandidatesOf(flow[f])
      BY <1>1, <1>3, <2>3 DEF InStep, Order, Refreshes, RunKind, FlowType, CandidatesOf
    <3>2. Len(flow[f].rank) = flow[f].try /\ flow[f].try \in 1..Len(flow[f].path)
      BY <1>1, <1>3, <2>3, <3>1 DEF InStep, Order, FlowType
    <3> QED
      BY <1>1, <1>3, <2>3, <3>2 DEF InStep, Order, Path, FlowType
  <2> QED
    BY <2>1, <2>2, <2>3
<1> QED
  BY <1>2, <1>3

\* Packaging a candidate ranks it, raises, or makes its approved record due when it passed its suite.
LEMMA PackagedKeeps ==
    ASSUME ImprovementInv, NEW f \in Flows, flow[f].at \in {"checking", "benchmarks"}, NEW passed \in BOOLEAN,
           Packaged(f, passed), CanariesOK(canary'), UNCHANGED <<approved, second, offered>>,
           passed => LET c == canary'[Path(f)] IN Order(f).suite \in c.passes \/ c.edited \/ c.dir = "ghost"
    PROVE  ImprovementInv'
<1> USE SelfImprovementAssumption
<1>0. flow[f] \in FlowType /\ InStep(flow[f]) /\ WinnerIsBest(flow[f]) /\ flow \in [Flows -> FlowType]
      /\ offered \subseteq approved
  BY DEF ImprovementInv, ImprovementTypeOK, RunOK
<1>1. flow[f].order \in Orders
  BY RunAtWork
<1>2. CASE Raises(f) /\ flow' = [flow EXCEPT ![f].at = "raised"]
  <2> DEFINE w == [flow[f] EXCEPT !.at = "raised"]
  <2>1. w \in FlowType /\ flow' = [flow EXCEPT ![f] = w]
    BY <1>0, <1>2 DEF FlowType, FlowPoints
  <2>2. RunOK(w)
    BY <1>0 DEF RunOK, InStep, WinnerIsBest, RecordIsDue, FlowType, CandidatesOf
  <2> QED
    BY <1>0, <2>1, <2>2, OneRunMoves
<1>3. ASSUME RunKind(f) = "search", ~Refreshes(f), NEW small \in {0, 1},
             flow' = [flow EXCEPT ![f] = Ranked(f, small + IF passed THEN 2 ELSE 0)]
      PROVE  ImprovementInv'
  <2> DEFINE r == small + IF passed THEN 2 ELSE 0
             t == flow[f].try
             w == Ranked(f, r)
  <2>1. r \in 0..3 /\ t \in 1..Tries /\ Len(flow[f].rank) = t
    BY <1>0, <1>3 DEF Refreshes, RunKind, Order, InStep, CandidatesOf, FlowType
  <2> HIDE DEF r
  <2> DEFINE won == IF flow[f].winner = 0 \/ r > flow[f].rank[flow[f].winner] THEN t ELSE flow[f].winner
             ranks == [flow[f].rank EXCEPT ![t] = r]
  <2>2. /\ ranks \in Seq(0..3) /\ Len(ranks) = t /\ \A i \in 1..t : ranks[i] = IF i = t THEN r ELSE flow[f].rank[i]
        /\ \A i \in 1..t : flow[f].rank[i] \in 0..3 /\ flow[f].winner \in 0..(t - 1)
    BY <1>0, <1>3, <2>1 DEF FlowType, WinnerIsBest, RunKind, Order
  <2> HIDE DEF ranks
  <2>3. won \in 1..t /\ \A i \in 1..t : ranks[i] <= ranks[won]
    <3> DEFINE old == flow[f].rank
               best == flow[f].winner
    <3>0. /\ best = 0 => \A i \in 1..t : old[i] = 0
          /\ best # 0 => \A i \in 1..t : old[i] <= old[best]
      BY <1>0, <1>3, <2>1 DEF WinnerIsBest, RunKind, Order
    <3>1. /\ \A i \in 1..t : ranks[i] = IF i = t THEN r ELSE old[i]
          /\ \A i \in 1..t : old[i] \in 0..3
          /\ best \in 0..(t - 1) /\ t \in 1..Tries /\ r \in 0..3
          /\ won = IF best = 0 \/ r > old[best] THEN t ELSE best
      BY <2>1, <2>2
    <3> HIDE DEF t, old, best, won
    <3>2. CASE best = 0
      BY <3>0, <3>1, <3>2
    <3>3. CASE best # 0 /\ r > old[best]
      BY <3>0, <3>1, <3>3
    <3>4. CASE best # 0 /\ ~(r > old[best])
      BY <3>0, <3>1, <3>4
    <3> QED
      BY <3>2, <3>3, <3>4
  <2>4. w = [flow[f] EXCEPT !.rank = ranks, !.at = "preparing", !.try = t + 1, !.winner = won]
    BY <1>0 DEF Ranked, FlowType, ranks
  <2> HIDE DEF w, won
  <2>5. /\ w \in FlowType /\ w.rank = ranks /\ w.at = "preparing" /\ w.try = t + 1 /\ w.winner = won
        /\ w.order = flow[f].order /\ w.path = flow[f].path
    <3>1. t + 1 \in 1..(Tries + 1) /\ won \in 0..Tries /\ "preparing" \in FlowPoints
      BY <2>1, <2>3, SMTT(40) DEF FlowPoints
    <3> QED
      BY <1>0, <2>2, <2>4, <3>1 DEF FlowType
  <2>6. InStep(w)
    <3>1. /\ flow[f].order.kind = "search" /\ flow[f].at # "none" /\ CandidatesOf(w) = Tries /\ CandidatesOf(flow[f]) = Tries
          /\ Len(flow[f].rank) = t /\ Len(w.rank) = t
      BY <1>0, <1>3, <2>1, <2>2, <2>5 DEF CandidatesOf, RunKind, Order
    <3>2. /\ Len(flow[f].path) = Tries
          /\ \A i \in 1..Len(flow[f].path) : flow[f].path[i] \in IF i <= t THEN Canaries ELSE Slugs
      BY <1>0, <1>1, <3>1 DEF InStep
    <3> QED
      BY <1>1, <2>1, <2>5, <3>1, <3>2 DEF InStep
  <2>7. WinnerIsBest(w) /\ RecordIsDue(w)
    BY <2>1, <2>2, <2>3, <2>5 DEF WinnerIsBest, RecordIsDue
  <2> QED
    BY <1>0, <1>3, <2>5, <2>6, <2>7, OneRunMoves DEF RunOK, w, r, won
<1>4. ASSUME ~Raises(f), RunKind(f) = "search" => Refreshes(f),
             flow' = [flow EXCEPT ![f].at = IF Records(f, passed) THEN "recording" ELSE "closing",
                                  ![f].promotable = passed,
                                  ![f].proven = LET c == canary'[Path(f)]
                                                IN Order(f).suite \in c.passes \/ c.edited \/ c.dir = "ghost"]
      PROVE  ImprovementInv'
  <2> DEFINE proof == LET c == canary'[Path(f)] IN Order(f).suite \in c.passes \/ c.edited \/ c.dir = "ghost"
             w == [flow[f] EXCEPT !.at = IF Records(f, passed) THEN "recording" ELSE "closing",
                                  !.promotable = passed, !.proven = proof]
  <2>1. proof \in BOOLEAN
    OBVIOUS
  <2>2. flow' = [flow EXCEPT ![f] = w]
    BY <1>0, <1>4
  <2>3. passed => proof
    OBVIOUS
  <2> HIDE DEF proof
  <2>4. w \in FlowType /\ w.at \in {"recording", "closing"} /\ w.proven = proof /\ w.order = flow[f].order
        /\ w.path = flow[f].path /\ w.rank = flow[f].rank /\ w.try = flow[f].try /\ w.winner = flow[f].winner
        /\ (w.at = "recording" <=> Records(f, passed))
    BY <1>0, <2>1 DEF FlowType, FlowPoints
  <2> HIDE DEF w
  <2>5. InStep(w)
    BY <1>0, <2>4 DEF InStep, CandidatesOf
  <2>6. WinnerIsBest(w)
    BY <1>0, <2>4 DEF WinnerIsBest
  <2>7. RecordIsDue(w)
    BY <1>4, <2>3, <2>4 DEF RecordIsDue, Records, RunKind, Order, Refreshes
  <2> QED
    BY <1>0, <2>2, <2>4, <2>5, <2>6, <2>7, OneRunMoves DEF RunOK
<1> QED
  BY <1>2, <1>3, <1>4 DEF Packaged

LEMMA ReplacedInSequence ==
    ASSUME NEW S, NEW s \in Seq(S), NEW k \in 1..Len(s), NEW x \in S
    PROVE  /\ [s EXCEPT ![k] = x] \in Seq(S) /\ Len([s EXCEPT ![k] = x]) = Len(s)
           /\ \A i \in 1..Len(s) : [s EXCEPT ![k] = x][i] = IF i = k THEN x ELSE s[i]
<1>1. s \in [1..Len(s) -> S] /\ Len(s) \in Nat
  OBVIOUS
<1>2. [s EXCEPT ![k] = x] \in [1..Len(s) -> S]
  BY <1>1
<1> QED
  BY <1>1, <1>2

LEMMA StartKeeps ==
    ASSUME ImprovementInv, NEW f \in Flows, NEW o \in Orders,
           \/ \E slugs \in [1..(IF o.kind = "search" THEN Tries ELSE 1) -> Slugs] : StartFlow(f, o, slugs)
           \/ \E n \in Canaries : UseTool(f, o, n)
    PROVE  ImprovementInv'
<1> USE SelfImprovementAssumption
<1>0. /\ flow \in [Flows -> FlowType] /\ flow[f].at = "none" /\ offered \subseteq approved /\ CanariesOK(canary)
      /\ UNCHANGED <<canary, approved, offered, second>>
  BY DEF ImprovementInv, ImprovementTypeOK, CanariesOK, StartFlow, UseTool
<1>1. PICK at \in {"reuse", "checking"}, path \in Seq(Slugs \cup Canaries) :
         /\ flow' = [flow EXCEPT ![f] = [NoFlow EXCEPT !.order = o, !.at = at, !.path = path]]
         /\ at = "reuse" => /\ o.kind \in {"search", "demo"} /\ Len(path) = IF o.kind = "search" THEN Tries ELSE 1
                            /\ \A i \in 1..Len(path) : path[i] \in Slugs
         /\ at = "checking" => o.kind \in {"package", "benchmark"} /\ Len(path) = 1 /\ path[1] \in Canaries
  <2>1. ASSUME NEW slugs \in [1..(IF o.kind = "search" THEN Tries ELSE 1) -> Slugs], StartFlow(f, o, slugs)
        PROVE  /\ slugs \in Seq(Slugs \cup Canaries) /\ Len(slugs) = IF o.kind = "search" THEN Tries ELSE 1
               /\ \A i \in 1..Len(slugs) : slugs[i] \in Slugs
    OBVIOUS
  <2>2. ASSUME NEW n \in Canaries, UseTool(f, o, n)
        PROVE  <<n>> \in Seq(Slugs \cup Canaries) /\ Len(<<n>>) = 1 /\ <<n>>[1] \in Canaries
    OBVIOUS
  <2> QED
    BY <2>1, <2>2 DEF StartFlow, UseTool
<1> DEFINE w == [NoFlow EXCEPT !.order = o, !.at = at, !.path = path]
<1>2. NoFlow \in FlowType /\ at \in FlowPoints
  BY DEF NoFlow, NoOrder, FlowType, FlowPoints
<1>3. /\ w \in FlowType /\ w.order = o /\ w.at = at /\ w.try = 1 /\ w.path = path /\ w.rank = << >> /\ w.winner = 0
  BY <1>2 DEF FlowType, NoFlow
<1> HIDE DEF w
<1>4. InStep(w)
  BY <1>1, <1>3 DEF InStep, CandidatesOf
<1>5. WinnerIsBest(w) /\ RecordIsDue(w)
  BY <1>1, <1>3 DEF WinnerIsBest, RecordIsDue
<1> QED
  BY <1>0, <1>1, <1>3, <1>4, <1>5, OneRunMoves DEF RunOK, w

LEMMA PrepareKeeps == ASSUME ImprovementInv, NEW f \in Flows, Prepare(f) PROVE ImprovementInv'
<1> USE SelfImprovementAssumption
<1>0. /\ flow \in [Flows -> FlowType] /\ flow[f] \in FlowType /\ InStep(flow[f]) /\ WinnerIsBest(flow[f])
      /\ offered \subseteq approved /\ CanariesOK(canary) /\ second \in 0..MaxSecond
  BY DEF ImprovementInv, ImprovementTypeOK, CanariesOK, RunOK
<1> DEFINE n == <<Path(f), second>>
           t == flow[f].try
<1>1. PICK ok \in BOOLEAN :
         /\ canary' = IF ok THEN [canary EXCEPT ![n] = [NoCanary EXCEPT !.dir = "worktree"]] ELSE canary
         /\ flow' = [flow EXCEPT ![f].path[t] = n,
                                 ![f].rank = Append(@, 0),
                                 ![f].at = IF ok THEN "commands"
                                           ELSE IF RunKind(f) = "demo" THEN "ended" ELSE "preparing",
                                 ![f].try = IF ok \/ RunKind(f) = "demo" THEN @ ELSE @ + 1]
  BY DEF Prepare
<1>2. /\ flow[f].at = "preparing" /\ UNCHANGED <<approved, offered, second>>
      /\ flow[f].order \in Orders /\ RunKind(f) \in {"search", "demo"}
      /\ Len(flow[f].path) = CandidatesOf(flow[f])
      /\ Len(flow[f].rank) = t - 1 /\ t \in 1..CandidatesOf(flow[f]) /\ CandidatesOf(flow[f]) <= Tries
      /\ \A i \in 1..Len(flow[f].path) : flow[f].path[i] \in IF i <= t - 1 THEN Canaries ELSE Slugs
      /\ RunKind(f) = "demo" => t = 1
  <2>1. /\ flow[f].at = "preparing" /\ t <= Candidates(f) /\ UNCHANGED <<approved, offered, second>>
        /\ Candidates(f) = CandidatesOf(flow[f])
    BY DEF Prepare, Candidates, CandidatesOf, RunKind, Order
  <2>2. ~(flow[f].order.kind \in {"package", "benchmark"})
    BY <1>0, <2>1 DEF InStep
  <2>3. t \in 1..(Tries + 1) /\ CandidatesOf(flow[f]) \in 1..Tries
    BY <1>0 DEF FlowType, CandidatesOf
  <2> QED
    BY <1>0, <2>1, <2>2, <2>3, SMTT(40) DEF InStep, RunKind, Order
<1>3. n \in Canaries /\ Path(f) = flow[f].path[t]
  <2>1. ~Refreshes(f)
    BY <1>0, <1>2 DEF Refreshes, FlowType
  <2>2. Path(f) = flow[f].path[t] /\ Path(f) \in Slugs
    BY <1>0, <1>2, <2>1 DEF Path
  <2> QED
    BY <1>0, <2>2 DEF Canaries
<1> HIDE DEF n
<1>4. CanariesOK(canary')
  BY <1>0, <1>1, <1>3, CanariesStayOK
<1> DEFINE path == [flow[f].path EXCEPT ![t] = n]
           rank == Append(flow[f].rank, 0)
           at == IF ok THEN "commands" ELSE IF RunKind(f) = "demo" THEN "ended" ELSE "preparing"
           try == IF ok \/ RunKind(f) = "demo" THEN t ELSE t + 1
           w == [flow[f] EXCEPT !.path = path, !.rank = rank, !.at = at, !.try = try]
<1>5. flow' = [flow EXCEPT ![f] = w]
  BY <1>0, <1>1 DEF FlowType
<1>6. /\ path \in Seq(Slugs \cup Canaries) /\ Len(path) = Len(flow[f].path)
      /\ \A i \in 1..Len(path) : path[i] = IF i = t THEN n ELSE flow[f].path[i]
  <2>1. flow[f].path \in Seq(Slugs \cup Canaries) /\ n \in Slugs \cup Canaries
    BY <1>0, <1>3 DEF FlowType
  <2>2. t \in 1..Len(flow[f].path)
    BY <1>2
  <2> HIDE DEF t
  <2> QED
    BY <2>1, <2>2, ReplacedInSequence
<1>7. rank \in Seq(0..3) /\ Len(rank) = t /\ \A i \in 1..t : rank[i] = IF i = t THEN 0 ELSE flow[f].rank[i]
  BY <1>0, <1>2 DEF FlowType
<1>8. at \in {"commands", "ended", "preparing"} /\ try \in {t, t + 1} /\ t \in 1..Tries
      /\ (at = "commands" => try = t) /\ (RunKind(f) = "demo" => try = t /\ at # "preparing")
      /\ (at = "preparing" => try = t + 1)
  BY <1>1, <1>2
<1> HIDE DEF path, rank, at, try, t
<1>9. w \in FlowType
  <2>1. at \in FlowPoints /\ try \in 1..(Tries + 1)
    BY <1>8 DEF FlowPoints
  <2> QED
    BY <1>0, <1>6, <1>7, <2>1 DEF FlowType
<1>10. /\ w.path = path /\ w.rank = rank /\ w.at = at /\ w.try = try /\ w.order = flow[f].order /\ w.winner = flow[f].winner
       /\ CandidatesOf(w) = CandidatesOf(flow[f])
  BY <1>0 DEF FlowType, CandidatesOf
<1> HIDE DEF w
<1>11. InStep(w)
  <2>1. /\ Len(flow[f].path) = CandidatesOf(flow[f]) /\ t \in 1..CandidatesOf(flow[f])
        /\ \A i \in 1..Len(flow[f].path) : flow[f].path[i] \in IF i <= t - 1 THEN Canaries ELSE Slugs
    BY <1>2 DEF t
  <2>2. \A i \in 1..Len(path) : path[i] \in IF i <= t THEN Canaries ELSE Slugs
    BY <1>3, <1>6, <1>8, <2>1
  <2>3. CandidatesOf(flow[f]) \in Nat
    BY DEF CandidatesOf
  <2> QED
    BY <1>2, <1>6, <1>7, <1>8, <1>10, <2>1, <2>2, <2>3 DEF InStep, RunKind, Order
<1>12. WinnerIsBest(w)
  <2>1. flow[f].rank \in Seq(0..3) /\ Len(flow[f].rank) = t - 1 /\ flow[f].winner \in 0..Tries
    BY <1>0, <1>2 DEF FlowType, t
  <2>2. RunKind(f) = "search" =>
           /\ flow[f].winner < t
           /\ flow[f].winner = 0 => \A i \in 1..(t - 1) : flow[f].rank[i] = 0
           /\ flow[f].winner # 0 => \A i \in 1..(t - 1) : flow[f].rank[i] <= flow[f].rank[flow[f].winner]
    BY <1>0, <2>1 DEF WinnerIsBest, RunKind, Order, t
  <2>3. flow[f].winner # 0 /\ RunKind(f) = "search" => flow[f].rank[flow[f].winner] \in 0..3
    BY <2>1, <2>2, <1>8, SMTT(30)
  <2>4. RunKind(f) = "search" =>
           /\ flow[f].winner <= t
           /\ flow[f].winner = 0 => \A i \in 1..t : rank[i] = 0
           /\ flow[f].winner # 0 => \A i \in 1..t : rank[i] <= rank[flow[f].winner]
    <3> DEFINE best == flow[f].winner
               old == flow[f].rank
    <3>1. ASSUME RunKind(f) = "search", best = 0 PROVE \A i \in 1..t : rank[i] = 0
      <4>1. \A i \in 1..(t - 1) : old[i] = 0
        BY <2>2, <3>1
      <4> HIDE DEF best, old
      <4> QED
        BY <1>7, <1>8, <4>1 DEF old
    <3>2. ASSUME RunKind(f) = "search", best # 0 PROVE \A i \in 1..t : rank[i] <= rank[best]
      <4>1. best \in 1..(t - 1) /\ rank[best] = old[best] /\ old[best] \in 0..3
        BY <1>7, <1>8, <2>1, <2>2, <2>3, <3>2
      <4>2. \A i \in 1..(t - 1) : old[i] <= old[best]
        BY <2>2, <3>2
      <4> HIDE DEF best, old
      <4> QED
        BY <1>7, <1>8, <4>1, <4>2 DEF old
    <3> QED
      BY <1>8, <2>1, <2>2, <3>1, <3>2
  <2> QED
    BY <1>7, <1>8, <1>10, <2>1, <2>2, <2>4 DEF WinnerIsBest, RunKind, Order
<1>13. RecordIsDue(w)
  BY <1>8, <1>10 DEF RecordIsDue
<1> QED
  BY <1>0, <1>2, <1>4, <1>5, <1>9, <1>11, <1>12, <1>13, OneRunMoves DEF RunOK

LEMMA CommandsKeep == ASSUME ImprovementInv, NEW f \in Flows, CommandsPass(f) \/ CommandsFail(f) PROVE ImprovementInv'
<1> USE SelfImprovementAssumption
<1>0. /\ flow \in [Flows -> FlowType] /\ flow[f] \in FlowType /\ InStep(flow[f]) /\ WinnerIsBest(flow[f])
      /\ offered \subseteq approved /\ CanariesOK(canary)
  BY DEF ImprovementInv, ImprovementTypeOK, CanariesOK, RunOK
<1>1. /\ flow[f].at = "commands" /\ Path(f) \in Canaries /\ flow[f].order \in Orders
      /\ UNCHANGED <<approved, offered, second>>
  BY RunAtWork DEF CommandsPass, CommandsFail
<1>2. ~(flow[f].order.kind \in {"package", "benchmark"})
  BY <1>0, <1>1 DEF InStep
<1>3. CanariesOK(canary')
  <2>1. CASE CommandsPass(f)
    BY <1>0, <1>1, <2>1, CanariesStayOK DEF CommandsPass
  <2>2. CASE CommandsFail(f)
    <3>1. PICK ns : canary' = Cleaned(Persisted(Path(f)), ns)
      BY <2>2 DEF CommandsFail
    <3>2. CanariesOK(Cleaned(Persisted(Path(f)), ns))
      BY <1>0, <1>1, CanariesStayOK
    <3> QED
      BY <3>1, <3>2
  <2> QED
    BY <2>1, <2>2
<1>4. PICK at \in {"checking", "ended", "preparing"}, try \in {flow[f].try, flow[f].try + 1} :
         /\ flow' = [flow EXCEPT ![f] = [flow[f] EXCEPT !.at = at, !.try = try]]
         /\ at = "preparing" => RunKind(f) # "demo" /\ try = flow[f].try + 1
         /\ at # "preparing" => try = flow[f].try
  <2>1. flow[f] = [flow[f] EXCEPT !.try = flow[f].try]
    BY <1>0 DEF FlowType
  <2>2. CASE CommandsPass(f)
    <3>1. flow' = [flow EXCEPT ![f] = [flow[f] EXCEPT !.at = "checking", !.try = flow[f].try]]
      BY <1>0, <2>2 DEF CommandsPass, FlowType
    <3> QED
      BY <3>1
  <2>3. CASE CommandsFail(f) /\ RunKind(f) = "demo"
    <3>1. flow' = [flow EXCEPT ![f] = [flow[f] EXCEPT !.at = "ended", !.try = flow[f].try]]
      BY <1>0, <2>3 DEF CommandsFail, FlowType
    <3> QED
      BY <3>1
  <2>4. CASE CommandsFail(f) /\ RunKind(f) # "demo"
    <3>1. flow' = [flow EXCEPT ![f] = [flow[f] EXCEPT !.at = "preparing", !.try = flow[f].try + 1]]
      BY <1>0, <2>4 DEF CommandsFail, FlowType
    <3> QED
      BY <2>4, <3>1
  <2> QED
    BY <2>2, <2>3, <2>4
<1> DEFINE w == [flow[f] EXCEPT !.at = at, !.try = try]
<1>5. /\ flow[f].order.kind \in {"search", "demo"} /\ Len(flow[f].rank) = flow[f].try
      /\ flow[f].try \in 1..CandidatesOf(flow[f]) /\ CandidatesOf(flow[f]) \in 1..Tries
  BY <1>0, <1>1, <1>2 DEF InStep, FlowType, CandidatesOf
<1>6. /\ w \in FlowType /\ w.at = at /\ w.try = try /\ w.order = flow[f].order /\ w.path = flow[f].path
      /\ w.rank = flow[f].rank /\ w.winner = flow[f].winner
  <2>1. at \in FlowPoints /\ try \in 1..(Tries + 1)
    BY <1>4, <1>5 DEF FlowPoints
  <2> QED
    BY <1>0, <2>1 DEF FlowType
<1> HIDE DEF w
<1>7. InStep(w)
  <2>1. CandidatesOf(w) = CandidatesOf(flow[f])
    BY <1>6 DEF CandidatesOf
  <2>2. /\ Len(flow[f].path) = CandidatesOf(flow[f])
        /\ \A i \in 1..Len(flow[f].path) : flow[f].path[i] \in IF i <= Len(flow[f].rank) THEN Canaries ELSE Slugs
        /\ flow[f].order.kind = "demo" => flow[f].try = 1
    BY <1>0, <1>1, <1>2 DEF InStep
  <2>3. CASE at = "preparing"
    <3>1. /\ w.at = "preparing" /\ w.try = flow[f].try + 1 /\ w.order.kind = "search"
          /\ Len(w.rank) = flow[f].try /\ Len(w.rank) <= CandidatesOf(w) /\ w.try <= CandidatesOf(w) + 1
      BY <1>4, <1>5, <1>6, <2>1, <2>3 DEF RunKind, Order
    <3> QED
      BY <1>1, <1>6, <2>1, <2>2, <3>1, SMTT(30) DEF InStep
  <2>4. CASE at # "preparing"
    BY <1>1, <1>2, <1>4, <1>5, <1>6, <2>1, <2>2, <2>4 DEF InStep
  <2> QED
    BY <2>3, <2>4
<1>8. WinnerIsBest(w) /\ RecordIsDue(w)
  BY <1>0, <1>4, <1>5, <1>6 DEF WinnerIsBest, RecordIsDue, FlowType, CandidatesOf
<1> QED
  BY <1>0, <1>1, <1>3, <1>4, <1>6, <1>7, <1>8, OneRunMoves DEF RunOK, w

\* A run that only changes where it is, outside the ways of its candidates.
LEMMA GoesTo ==
    ASSUME ImprovementInv, NEW f \in Flows, NEW at \in {"preparing", "checking", "benchmarks", "closing", "ended", "cancelled"},
           NEW promotable \in BOOLEAN, flow[f].at \notin {"none", "ended", "cancelled", "raised"},
           flow' = [flow EXCEPT ![f].at = at, ![f].promotable = promotable],
           at = "preparing" => flow[f].at = "reuse",
           at = "checking" => flow[f].at = "preparing" /\ flow[f].try > CandidatesOf(flow[f]) /\ HasWinner(f),
           at = "benchmarks" => flow[f].at = "checking",
           flow[f].at = "closing" => at = "ended",
           CanariesOK(canary'), UNCHANGED <<approved, second>>, offered' \subseteq approved
    PROVE  ImprovementInv'
<1> USE SelfImprovementAssumption
<1>0. flow \in [Flows -> FlowType] /\ flow[f] \in FlowType /\ InStep(flow[f]) /\ WinnerIsBest(flow[f])
  BY DEF ImprovementInv, ImprovementTypeOK, RunOK
<1> DEFINE w == [flow[f] EXCEPT !.at = at, !.promotable = promotable]
<1>1. flow' = [flow EXCEPT ![f] = w]
  BY <1>0
<1>2. /\ w \in FlowType /\ w.at = at /\ w.try = flow[f].try /\ w.order = flow[f].order /\ w.path = flow[f].path
      /\ w.rank = flow[f].rank /\ w.winner = flow[f].winner
  BY <1>0 DEF FlowType, FlowPoints
<1>3. at = "checking" => flow[f].winner # 0
  BY DEF HasWinner
<1> HIDE DEF w
<1>4. InStep(w)
  <2>1. CASE flow[f].order.kind \in {"package", "benchmark"}
    BY <1>0, <1>2, <2>1 DEF InStep
  <2>2. CASE ~(flow[f].order.kind \in {"package", "benchmark"})
    <3>1. CandidatesOf(w) = CandidatesOf(flow[f]) /\ CandidatesOf(w) \in Nat /\ flow[f].try \in Nat
      BY <1>0, <1>2 DEF CandidatesOf, FlowType
    <3>2. /\ flow[f].order \in Orders /\ flow[f].order.kind \in {"search", "demo"}
          /\ Len(flow[f].path) = CandidatesOf(flow[f]) /\ Len(flow[f].rank) <= CandidatesOf(flow[f])
          /\ \A i \in 1..Len(flow[f].path) : flow[f].path[i] \in IF i <= Len(flow[f].rank) THEN Canaries ELSE Slugs
          /\ flow[f].try <= CandidatesOf(flow[f]) + 1 /\ Len(flow[f].rank) \in {flow[f].try - 1, flow[f].try}
      BY <1>0, <2>2 DEF InStep
    <3>3. /\ flow[f].at = "reuse" => Len(flow[f].rank) = flow[f].try - 1
          /\ flow[f].at = "checking" /\ flow[f].try <= CandidatesOf(flow[f]) => Len(flow[f].rank) = flow[f].try
          /\ flow[f].order.kind = "demo" /\ flow[f].at \notin {"ended", "cancelled", "raised"} => flow[f].try = 1
      BY <1>0, <2>2 DEF InStep
    <3>4. /\ at \notin {"none", "reuse", "commands"}
          /\ at = "preparing" => Len(flow[f].rank) = flow[f].try - 1
          /\ at \in {"checking", "benchmarks"} /\ flow[f].try <= CandidatesOf(flow[f]) => Len(flow[f].rank) = flow[f].try
          /\ flow[f].order.kind = "demo" /\ at \notin {"ended", "cancelled", "raised"} => flow[f].try = 1
      BY <3>1, <3>3
    <3> QED
      BY <1>2, <3>1, <3>2, <3>4 DEF InStep
  <2> QED
    BY <2>1, <2>2
<1>5. WinnerIsBest(w) /\ RecordIsDue(w)
  BY <1>0, <1>2, <1>3 DEF WinnerIsBest, RecordIsDue
<1> QED
  BY <1>1, <1>2, <1>4, <1>5, OneRunMoves DEF RunOK

LEMMA CheckKeeps == ASSUME ImprovementInv, NEW f \in Flows, Check(f) PROVE ImprovementInv'
<1> USE SelfImprovementAssumption
<1>0. /\ flow \in [Flows -> FlowType] /\ flow[f] \in FlowType /\ CanariesOK(canary) /\ flow[f].at = "checking"
      /\ UNCHANGED <<approved, offered, second>> /\ offered \subseteq approved
  BY DEF ImprovementInv, ImprovementTypeOK, CanariesOK, Check
<1> DEFINE n == Path(f)
<1>1. n \in Canaries
  BY <1>0, RunAtWork
<1> HIDE DEF n
<1>2. canary' = canary /\ canary[n] \in CanaryType /\ BenchmarkHolds(canary[n])
  BY <1>0, <1>1 DEF Check, Packaged, CanariesOK, n
<1>3. CASE flow' = [flow EXCEPT ![f].at = "closing", ![f].promotable = FALSE]
  BY <1>0, <1>2, <1>3, GoesTo
<1>4. ASSUME NEW at \in {"ended", "benchmarks"}, flow' = [flow EXCEPT ![f].at = at] PROVE ImprovementInv'
  <2>1. flow' = [flow EXCEPT ![f].at = at, ![f].promotable = flow[f].promotable]
    BY <1>0, <1>4 DEF FlowType
  <2> QED
    BY <1>0, <1>2, <2>1, GoesTo DEF FlowType
<1>5. CASE Cached(n, Order(f).suite) /\ Packaged(f, canary[n].benchmark.passed)
  <2>1. canary[n].benchmark.passed \in BOOLEAN
    BY <1>2 DEF CanaryType
  <2>2. canary[n].benchmark.passed =>
           LET c == canary'[Path(f)] IN Order(f).suite \in c.passes \/ c.edited \/ c.dir = "ghost"
    BY <1>2, <1>5 DEF Cached, BenchmarkHolds, n
  <2> QED
    BY <1>0, <1>2, <1>5, <2>1, <2>2, PackagedKeeps
<1> QED
  BY <1>3, <1>4, <1>5 DEF Check, n

LEMMA RunBenchmarksKeeps == ASSUME ImprovementInv, NEW f \in Flows, RunBenchmarks(f) PROVE ImprovementInv'
<1> USE SelfImprovementAssumption
<1>0. /\ flow \in [Flows -> FlowType] /\ flow[f] \in FlowType /\ CanariesOK(canary) /\ flow[f].at = "benchmarks"
      /\ UNCHANGED <<approved, offered, second>> /\ offered \subseteq approved
  BY DEF ImprovementInv, ImprovementTypeOK, CanariesOK, RunBenchmarks
<1> DEFINE n == Path(f)
           suite == Order(f).suite
<1>1. n \in Canaries /\ suite \in Suites
  BY <1>0, RunAtWork
<1>2. PICK passed \in IF canary[n].dir = "worktree" THEN {(suite \in canary[n].passes)} ELSE BOOLEAN :
          /\ canary' = [Persisted(n) EXCEPT
                           ![n].benchmark = [suite |-> suite, passed |-> passed, fast |-> RunKind(f) = "benchmark"],
                           ![n].edited = FALSE]
          /\ IF RunKind(f) = "benchmark"
             THEN flow' = [flow EXCEPT ![f].at = "ended"] /\ UNCHANGED progress
             ELSE Packaged(f, passed)
  BY DEF RunBenchmarks
<1> HIDE DEF n, suite
<1> DEFINE fast == RunKind(f) = "benchmark"
           c == [canary[n] EXCEPT !.dir = IF @ = "none" THEN "ghost" ELSE @,
                                  !.benchmark = [suite |-> suite, passed |-> passed, fast |-> fast], !.edited = FALSE]
<1>3. /\ passed \in BOOLEAN /\ fast \in BOOLEAN
      /\ canary[n].dir = "worktree" => (passed => suite \in canary[n].passes)
  <2>1. CASE canary[n].dir = "worktree"
    <3>1. passed = (suite \in canary[n].passes)
      BY <2>1
    <3>2. (suite \in canary[n].passes) \in BOOLEAN
      OBVIOUS
    <3> QED
      BY <3>1, <3>2
  <2>2. CASE canary[n].dir # "worktree"
    BY <2>2
  <2> QED
    BY <2>1, <2>2
<1>4. canary' = [canary EXCEPT ![n] = c]
  BY <1>0, <1>1, <1>2 DEF Persisted, CanariesOK, CanaryType
<1> HIDE DEF fast
<1>5. c \in CanaryType /\ (passed => suite \in c.passes \/ c.dir = "ghost") /\ c.benchmark.suite = suite
      /\ c.benchmark.passed = passed
  <2>1. canary[n] \in CanaryType
    BY <1>0, <1>1 DEF CanariesOK
  <2> DEFINE b == [suite |-> suite, passed |-> passed, fast |-> fast]
  <2>2. b \in [suite : Suites \cup {"none"}, passed : BOOLEAN, fast : BOOLEAN] /\ b.suite = suite /\ b.passed = passed
    BY <1>1, <1>3
  <2> HIDE DEF b
  <2>3. /\ c.dir \in {"worktree", "ghost"} /\ c.passes = canary[n].passes /\ c.benchmark = b /\ c.edited = FALSE
        /\ c \in CanaryType /\ (canary[n].dir # "worktree" => c.dir = "ghost")
    BY <2>1, <2>2, ZenonT(30) DEF CanaryType, b
  <2> QED
    BY <1>3, <2>2, <2>3
<1> HIDE DEF c
<1>6. CanariesOK(canary') /\ canary'[n] = c
  BY <1>0, <1>1, <1>4, <1>5 DEF CanariesOK, BenchmarkHolds
<1>7. CASE flow' = [flow EXCEPT ![f].at = "ended"]
  <2>1. flow' = [flow EXCEPT ![f].at = "ended", ![f].promotable = flow[f].promotable]
    BY <1>0, <1>7 DEF FlowType
  <2> QED
    BY <1>0, <1>6, <2>1, GoesTo DEF FlowType
<1>8. CASE Packaged(f, passed)
  <2>1. passed => LET k == canary'[Path(f)] IN Order(f).suite \in k.passes \/ k.edited \/ k.dir = "ghost"
    BY <1>5, <1>6 DEF n, suite
  <2> QED
    BY <1>0, <1>3, <1>6, <1>8, <2>1, PackagedKeeps
<1> QED
  BY <1>2, <1>7, <1>8

LEMMA RecordKeeps == ASSUME ImprovementInv, NEW f \in Flows, Record(f) PROVE ImprovementInv'
<1> USE SelfImprovementAssumption
<1> PICK m : m = [by |-> f, canary |-> Path(f), suite |-> Order(f).suite, promotes |-> Order(f).promotes,
                  linked |-> Order(f).linked, proven |-> flow[f].proven]
  OBVIOUS
<1> DEFINE w == [flow[f] EXCEPT !.at = "closing"]
<1>0. /\ flow \in [Flows -> FlowType] /\ flow[f] \in FlowType /\ RunOK(flow[f]) /\ flow[f].at = "recording"
      /\ approved' \in {approved, approved \cup {m}} /\ flow' = [flow EXCEPT ![f] = w]
      /\ UNCHANGED <<canary, offered, second>>
  BY DEF ImprovementInv, ImprovementTypeOK, Record
<1>1. /\ w \in FlowType /\ w.at = "closing" /\ w.try = flow[f].try /\ w.order = flow[f].order /\ w.path = flow[f].path
      /\ w.rank = flow[f].rank /\ w.winner = flow[f].winner
  BY <1>0 DEF FlowType, FlowPoints
<1> HIDE DEF w
<1>2. RunOK(w)
  BY <1>0, <1>1 DEF RunOK, InStep, CandidatesOf, WinnerIsBest, RecordIsDue
<1>3. \A g \in Flows : flow'[g] = IF g = f THEN w ELSE flow[g]
  BY <1>0
<1>4. ApprovedOK(m)'
  BY <1>0, <1>1, <1>3 DEF ApprovedOK, RunOK, RecordIsDue, WinnerIsBest, RunKind, Order
<1>5. ASSUME NEW k \in approved PROVE ApprovedOK(k)'
  <2>1. ApprovedOK(k)
    BY DEF ImprovementInv
  <2> QED
    BY <1>0, <1>1, <1>3, <2>1 DEF ApprovedOK, RunKind, Order
<1>6. ImprovementTypeOK'
  BY <1>0, <1>1 DEF ImprovementInv, ImprovementTypeOK
<1> QED
  BY <1>0, <1>2, <1>3, <1>4, <1>5, <1>6 DEF ImprovementInv

LEMMA ImprovementStepKeeps == ImprovementInv /\ [ImprovementNext]_improvementVars => ImprovementInv'
<1> SUFFICES ASSUME ImprovementInv, [ImprovementNext]_improvementVars PROVE ImprovementInv'
  OBVIOUS
<1> USE SelfImprovementAssumption
<1>0. /\ flow \in [Flows -> FlowType] /\ offered \subseteq approved /\ CanariesOK(canary)
      /\ \A f \in Flows : InStep(flow[f]) /\ WinnerIsBest(flow[f])
  BY DEF ImprovementInv, ImprovementTypeOK, CanariesOK, RunOK
<1>1. ASSUME NEW f \in Flows, NEW o \in Orders,
             NEW slugs \in [1..(IF o.kind = "search" THEN Tries ELSE 1) -> Slugs], StartFlow(f, o, slugs)
      PROVE  ImprovementInv'
  BY <1>1, StartKeeps
<1>2. ASSUME NEW f \in Flows, NEW o \in Orders, NEW n \in Canaries, UseTool(f, o, n) PROVE ImprovementInv'
  BY <1>2, StartKeeps
<1>3. ASSUME NEW f \in Flows, NEW at \in {"preparing", "closing", "ended", "cancelled"},
             flow[f].at \notin {"none", "ended", "cancelled", "raised"},
             flow' = [flow EXCEPT ![f].at = at], at = "preparing" => flow[f].at = "reuse",
             flow[f].at = "closing" => at = "ended",
             CanariesOK(canary'), UNCHANGED <<approved, second>>, offered' \subseteq approved
      PROVE  ImprovementInv'
  <2>1. flow' = [flow EXCEPT ![f].at = at, ![f].promotable = flow[f].promotable] /\ flow[f].promotable \in BOOLEAN
    BY <1>0, <1>3 DEF FlowType
  <2> QED
    BY <1>3, <2>1, GoesTo
<1>4. ASSUME NEW f \in Flows, Reuse(f) PROVE ImprovementInv'
  BY <1>0, <1>3, <1>4 DEF Reuse, Loaded
<1>5. ASSUME NEW f \in Flows, Choose(f) PROVE ImprovementInv'
  <2>1. CandidatesOf(flow[f]) = Candidates(f) /\ HasWinner(f) \in BOOLEAN
    BY DEF CandidatesOf, Candidates, RunKind, Order, HasWinner
  <2>2. PICK at \in {"checking", "closing"} :
           flow' = [flow EXCEPT ![f].at = at, ![f].promotable = HasWinner(f)] /\ (at = "checking" => HasWinner(f))
    BY <1>0, <1>5 DEF Choose
  <2>3. /\ flow[f].at = "preparing" /\ flow[f].try > CandidatesOf(flow[f])
        /\ UNCHANGED <<canary, approved, offered, second>>
    BY <1>5, <2>1 DEF Choose
  <2> DEFINE promotable == HasWinner(f)
  <2>4. promotable \in BOOLEAN /\ flow' = [flow EXCEPT ![f].at = at, ![f].promotable = promotable]
        /\ (at = "checking" => HasWinner(f))
    BY <2>1, <2>2
  <2> HIDE DEF promotable
  <2> QED
    BY <1>0, <2>3, <2>4, GoesTo
<1>6. ASSUME NEW f \in Flows, CloseFlow(f) PROVE ImprovementInv'
  <2>1. CanariesOK(Cleaned(canary, Swept(f)))
    BY <1>0 DEF CanariesOK, Cleaned, NoCanary, NoBenchmark, CanaryType, BenchmarkHolds
  <2> QED
    BY <1>0, <1>3, <1>6, <2>1 DEF CloseFlow
<1>7. ASSUME NEW f \in Flows, Cancel(f) PROVE ImprovementInv'
  BY <1>0, <1>3, <1>7 DEF Cancel
<1>8. ASSUME NEW f \in Flows, Prepare(f) \/ CommandsPass(f) \/ CommandsFail(f) \/ Check(f) \/ RunBenchmarks(f) \/ Record(f)
      PROVE  ImprovementInv'
  BY <1>8, PrepareKeeps, CommandsKeep, CheckKeeps, RunBenchmarksKeeps, RecordKeeps
<1>9. ASSUME UNCHANGED <<flow, approved, offered>>, second' \in 0..MaxSecond, CanariesOK(canary') PROVE ImprovementInv'
  BY <1>9 DEF ImprovementInv, ImprovementTypeOK, CanariesOK, ApprovedOK, RunKind, Order
<1>10. ASSUME NEW n \in Canaries, Edit(n) \/ CleanUp(n) PROVE ImprovementInv'
  <2>1. CanariesOK(canary')
    BY <1>0, <1>10, CanariesStayOK DEF Edit, CleanUp
  <2> QED
    BY <1>9, <1>10, <2>1 DEF Edit, CleanUp, ImprovementInv, ImprovementTypeOK
<1>11. CASE Second
  BY <1>0, <1>9, <1>11 DEF Second, ImprovementInv, ImprovementTypeOK
<1>12. CASE UNCHANGED improvementVars
  BY <1>0, <1>9, <1>12 DEF improvementVars, ImprovementInv, ImprovementTypeOK
<1> QED
  BY <1>1, <1>2, <1>4, <1>5, <1>6, <1>7, <1>8, <1>10, <1>11, <1>12 DEF ImprovementNext

\* What the flows record as approved, and what is loaded from it as a skill, passed the suite it was
\* asked to pass as its canary was, has what its kind of promotion needs, and is the best candidate of
\* its search: a cached benchmark is never that of another suite or of files since changed unseen.
THEOREM ApprovalsAreAlwaysProven == ImprovementSpec => []ApprovalsAreProven
<1>1. ImprovementInit => ImprovementInv
  BY ImprovementInitially
<1>2. ImprovementInv /\ [ImprovementNext]_improvementVars => ImprovementInv'
  BY ImprovementStepKeeps
<1>3. ImprovementInv => ApprovalsAreProven
  <2> SUFFICES ASSUME ImprovementInv, NEW m \in approved
      PROVE  /\ m.proven /\ Deployable(m.promotes, m.linked)
             /\ RunKind(m.by) = "search" => \A i \in 1..Tries : flow[m.by].rank[i] <= flow[m.by].rank[flow[m.by].winner]
    BY DEF ImprovementInv, ImprovementTypeOK, ApprovalsAreProven
  <2>1. ApprovedOK(m)
    BY DEF ImprovementInv
  <2> DEFINE w == flow[m.by]
  <2>2. ASSUME RunKind(m.by) = "search" PROVE \A i \in 1..Tries : w.rank[i] <= w.rank[w.winner]
    <3>1. w \in FlowType /\ InStep(w) /\ WinnerIsBest(w) /\ w.at \in {"closing", "ended"} /\ w.try > Tries /\ w.winner # 0
      BY <2>1, <2>2 DEF ApprovedOK, ImprovementInv, ImprovementTypeOK, RunOK
    <3>2. w.order.kind = "search"
      BY <2>2 DEF RunKind, Order
    <3> HIDE DEF w
    <3>3. Len(w.rank) = Tries
      BY <3>1, <3>2, SelfImprovementAssumption DEF InStep, CandidatesOf, FlowType
    <3> QED
      BY <3>1, <3>2, <3>3 DEF WinnerIsBest
  <2> QED
    BY <2>1, <2>2 DEF ApprovedOK
<1> QED
  BY <1>1, <1>2, <1>3, PTL DEF ImprovementSpec

-----------------------------------------------------------------------------
\* Promotions.


SuitesRequired == {"memory_candidate_approval_boundary", "template_contract_generation",
                   "mission_review_artifact_shape", "approval_required_action"}
PackageType == [of : Improvements, missing : SUBSET SuitesRequired, security : {"none", "passed", "failed"},
                sound : BOOLEAN, gate : BOOLEAN]
ArtifactType == [of : Improvements, target : Targets, package : PackageType, status : {"approved", "rejected"},
                 expires : Nat, invalidated : BOOLEAN]
PlanType == [given : SUBSET ArtifactType, chosen : [Targets -> SUBSET ArtifactType], on : Nat]

PromotionTypeOK ==
    /\ candidateType \in [Improvements -> CandidateTypes]
    /\ package \subseteq PackageType
    /\ artifact \subseteq ArtifactType /\ IsFiniteSet(artifact)
    /\ plan \in [Missions -> PlanType] /\ day \in Nat

\* Whatever became of it later, a copy comes from a package that was ready for what it became.
Earned(a) ==
    /\ a.package.missing = {} /\ a.package.sound
    /\ {a.target, candidateType[a.of]} \cap Sensitive # {} => a.package.security = "passed"

\* A plan takes of each type the best of what it was given and could use.
PlanIsBest(p) ==
    \A t \in Targets :
        /\ Cardinality(p.chosen[t]) <= MaxPerType
        /\ \A a \in p.chosen[t] :
              /\ a.target = t /\ a.status = "approved" /\ ~Expired(a, p.on) /\ ~a.invalidated /\ Earned(a)
              /\ \A b \in p.given \ p.chosen[t] :
                    b.target = t /\ b.status = "approved" /\ ~Expired(b, p.on) /\ ~b.invalidated =>
                        Relevance[b.of] <= Relevance[a.of]

PromotionInv ==
    /\ PromotionTypeOK
    /\ \A p \in package : p.gate => p.sound
    /\ \A a \in artifact : Earned(a)
    /\ \A m \in Missions : PlanIsBest(plan[m])

LEMMA PromotionInitially == PromotionInit => PromotionInv
<1> SUFFICES ASSUME PromotionInit PROVE PromotionInv
  OBVIOUS
<1>1. NoPlan \in PlanType /\ \A t \in Targets : NoPlan.chosen[t] = {}
  BY PromotionsAssumption DEF NoPlan, PlanType
<1>2. Cardinality({}) = 0 /\ IsFiniteSet({})
  BY FS_EmptySet
<1>3. PlanIsBest(NoPlan)
  BY <1>1, <1>2, PromotionsAssumption DEF PlanIsBest
<1> QED
  BY <1>1, <1>2, <1>3 DEF PromotionInit, PromotionInv, PromotionTypeOK

\* A type that is sensitive needs the security suite, which an evaluation of such a candidate runs.
LEMMA BuildKeeps ==
    ASSUME PromotionInv, NEW i \in Improvements, NEW suite, Build(i, suite)
    PROVE  PromotionInv'
<1> USE PromotionsAssumption
<1>1. PICK result \in Evaluations, secure \in BOOLEAN, before \in {0, 1} :
          LET sensitive == candidateType[i] \in Sensitive
              missing == RequiredSuites(candidateType[i]) \
                             ({suite} \cup IF sensitive THEN {"approval_required_action"} ELSE {})
          IN package' = package \cup
                {[of |-> i, missing |-> missing,
                  security |-> IF ~sensitive THEN "none" ELSE IF secure THEN "passed" ELSE "failed",
                  sound |-> NoRegression(result, before),
                  gate |-> missing = {} /\ (sensitive => secure) /\ NoRegression(result, before)]}
  BY DEF Build
<1> DEFINE sensitive == candidateType[i] \in Sensitive
           missing == RequiredSuites(candidateType[i]) \
                          ({suite} \cup IF sensitive THEN {"approval_required_action"} ELSE {})
           p == [of |-> i, missing |-> missing,
                 security |-> IF ~sensitive THEN "none" ELSE IF secure THEN "passed" ELSE "failed",
                 sound |-> NoRegression(result, before),
                 gate |-> missing = {} /\ (sensitive => secure) /\ NoRegression(result, before)]
<1>2. RequiredSuites(candidateType[i]) \subseteq SuitesRequired
  BY DEF PromotionInv, PromotionTypeOK, CandidateTypes, RequiredSuites, SuitesRequired
<1>3. p \in PackageType /\ (p.gate => p.sound)
  BY <1>2 DEF PackageType, NoRegression, Evaluations
<1>4. package' = package \cup {p}
  BY <1>1
<1> HIDE DEF p
<1>5. UNCHANGED <<candidateType, artifact, plan, day>>
  BY DEF Build
<1>6. PromotionTypeOK'
  BY <1>3, <1>4, <1>5 DEF PromotionInv, PromotionTypeOK
<1> QED
  BY <1>3, <1>4, <1>5, <1>6 DEF PromotionInv, Earned, PlanIsBest

\* Approving, rejecting and invalidating add a copy that is as earned as the package it is made from.
LEMMA CopyKeeps ==
    ASSUME PromotionInv, NEW a \in ArtifactType, Earned(a), artifact' = artifact \cup {a},
           UNCHANGED <<candidateType, package, plan, day>>
    PROVE  PromotionInv'
<1>1. IsFiniteSet(artifact \cup {a})
  BY FS_AddElement DEF PromotionInv, PromotionTypeOK
<1>2. PromotionTypeOK'
  BY <1>1 DEF PromotionInv, PromotionTypeOK
<1> QED
  BY <1>2 DEF PromotionInv, Earned, PlanIsBest

LEMMA ApprovePackageKeeps ==
    ASSUME PromotionInv, NEW p \in package, NEW t \in Targets, ApprovePackage(p, t)
    PROVE  PromotionInv'
<1> USE PromotionsAssumption
<1>1. PICK expires \in 1..(MaxDay + 1) :
          artifact' = artifact \cup {[of |-> p.of, target |-> t, package |-> p, status |-> "approved",
                                      expires |-> expires, invalidated |-> FALSE]}
  BY DEF ApprovePackage
<1> DEFINE a == [of |-> p.of, target |-> t, package |-> p, status |-> "approved",
                 expires |-> expires, invalidated |-> FALSE]
<1>2. p \in PackageType /\ (p.gate => p.sound)
  BY DEF PromotionInv, PromotionTypeOK
<1>3. a \in ArtifactType
  BY <1>2 DEF ArtifactType, PackageType
<1>4. Earned(a)
  BY <1>2 DEF ApprovePackage, Ready, NeedsSecurity, Earned
<1>5. UNCHANGED <<candidateType, package, plan, day>>
  BY DEF ApprovePackage
<1> HIDE DEF a
<1> QED
  BY <1>1, <1>3, <1>4, <1>5, CopyKeeps DEF a

LEMMA ChoiceIsBest ==
    ASSUME PromotionInv, NEW given \in SUBSET artifact, NEW chosen \in [Targets -> SUBSET given],
           \A t \in Targets : chosen[t] \in Chosen(given, t)
    PROVE  PlanIsBest([given |-> given, chosen |-> chosen, on |-> day])
<1> USE PromotionsAssumption
<1>1. SUFFICES ASSUME NEW t \in Targets
      PROVE  /\ Cardinality(chosen[t]) <= MaxPerType
             /\ \A a \in chosen[t] :
                   /\ a.target = t /\ a.status = "approved" /\ ~Expired(a, day) /\ ~a.invalidated /\ Earned(a)
                   /\ \A b \in given \ chosen[t] :
                         b.target = t /\ b.status = "approved" /\ ~Expired(b, day) /\ ~b.invalidated =>
                             Relevance[b.of] <= Relevance[a.of]
  BY DEF PlanIsBest
<1> DEFINE usable == {a \in given : a.target = t /\ Usable(a)}
<1>2. /\ chosen[t] \subseteq usable
      /\ Cardinality(chosen[t]) = IF Cardinality(usable) < MaxPerType THEN Cardinality(usable) ELSE MaxPerType
      /\ \A a \in chosen[t], b \in usable \ chosen[t] : ~Before(b, a)
  BY DEF Chosen
<1>3. Cardinality(usable) \in Nat
  <2>1. usable \subseteq artifact /\ IsFiniteSet(artifact)
    BY DEF PromotionInv, PromotionTypeOK
  <2> QED
    BY <2>1, FS_Subset, FS_CardinalityType
<1>4. Cardinality(chosen[t]) <= MaxPerType
  BY <1>2, <1>3
<1>5. \A a \in chosen[t] : a.target = t /\ a.status = "approved" /\ ~Expired(a, day) /\ ~a.invalidated /\ Earned(a)
  BY <1>2 DEF Usable, PromotionInv
<1>6. ASSUME NEW a \in chosen[t], NEW b \in given \ chosen[t],
             b.target = t /\ b.status = "approved" /\ ~Expired(b, day) /\ ~b.invalidated
      PROVE  Relevance[b.of] <= Relevance[a.of]
  <2>1. a \in ArtifactType /\ b \in ArtifactType
    BY DEF PromotionInv, PromotionTypeOK
  <2>2. Relevance[a.of] \in Nat /\ Relevance[b.of] \in Nat /\ a.of \in Improvements /\ b.of \in Improvements
    BY <2>1 DEF ArtifactType
  <2>3. CASE Matches(b)
    <3>1. b \in usable
      BY <1>6, <2>3 DEF Usable
    <3>2. ~Before(b, a)
      BY <1>2, <3>1
    <3> QED
      BY <2>2, <3>2 DEF Before
  <2>4. CASE ~Matches(b)
    BY <2>2, <2>4 DEF Matches
  <2> QED
    BY <2>3, <2>4
<1> QED
  BY <1>4, <1>5, <1>6

LEMMA PromotionStepKeeps == PromotionInv /\ [PromotionNext]_promotionVars => PromotionInv'
<1> SUFFICES ASSUME PromotionInv, [PromotionNext]_promotionVars PROVE PromotionInv'
  OBVIOUS
<1>1. ASSUME NEW i \in Improvements, NEW suite \in RequiredSuites(candidateType[i]), Build(i, suite) PROVE PromotionInv'
  BY <1>1, BuildKeeps
<1>2. ASSUME NEW p \in package, NEW t \in Targets, ApprovePackage(p, t) PROVE PromotionInv'
  BY <1>2, ApprovePackageKeeps
<1>3. ASSUME NEW a \in artifact, Reject(a) \/ Invalidate(a) PROVE PromotionInv'
  <2>1. PICK c \in {[a EXCEPT !.status = "rejected"], [a EXCEPT !.invalidated = TRUE]} :
           artifact' = artifact \cup {c} /\ UNCHANGED <<candidateType, package, plan, day>>
    BY <1>3 DEF Reject, Invalidate
  <2>2. a \in ArtifactType /\ Earned(a)
    BY DEF PromotionInv, PromotionTypeOK
  <2>3. c \in ArtifactType /\ c.package = a.package /\ c.target = a.target /\ c.of = a.of
    BY <2>2 DEF ArtifactType
  <2>4. Earned(c)
    BY <2>2, <2>3 DEF Earned
  <2> QED
    BY <2>1, <2>3, <2>4, CopyKeeps
<1>4. ASSUME NEW m \in Missions, NEW given \in SUBSET artifact, StartMission(m, given) PROVE PromotionInv'
  <2>1. PICK chosen \in [Targets -> SUBSET given] :
           /\ \A t \in Targets : chosen[t] \in Chosen(given, t)
           /\ plan' = [plan EXCEPT ![m] = [given |-> given, chosen |-> chosen, on |-> day]]
    BY <1>4 DEF StartMission
  <2> DEFINE new == [given |-> given, chosen |-> chosen, on |-> day]
  <2>2. PlanIsBest(new)
    BY <2>1, ChoiceIsBest
  <2>3. new \in PlanType
    BY DEF PromotionInv, PromotionTypeOK, PlanType
  <2> HIDE DEF new
  <2>4. plan' = [plan EXCEPT ![m] = new] /\ UNCHANGED <<candidateType, package, artifact, day>>
    BY <1>4, <2>1 DEF StartMission, new
  <2>5. PromotionTypeOK'
    BY <2>3, <2>4 DEF PromotionInv, PromotionTypeOK
  <2>6. \A n \in Missions : PlanIsBest(plan'[n])
    BY <2>2, <2>4 DEF PromotionInv, PromotionTypeOK
  <2> QED
    BY <2>4, <2>5, <2>6 DEF PromotionInv, PlanIsBest, Earned
<1>5. CASE Day
  BY <1>5 DEF Day, PromotionInv, PromotionTypeOK, PlanIsBest, Earned
<1>6. CASE UNCHANGED promotionVars
  BY <1>6 DEF promotionVars, PromotionInv, PromotionTypeOK, PlanIsBest, Earned
<1> QED
  BY <1>1, <1>2, <1>3, <1>4, <1>5, <1>6 DEF PromotionNext

\* Whatever the reuse plan of a mission takes of the artifacts it was given was approved, in force and
\* evaluated as its type and what it became require, and nothing it left out would have served better.
THEOREM ReuseIsAlwaysEarned == PromotionSpec => []ReuseIsEarned
<1>1. PromotionInit => PromotionInv
  BY PromotionInitially
<1>2. PromotionInv /\ [PromotionNext]_promotionVars => PromotionInv'
  BY PromotionStepKeeps
<1>3. PromotionInv => ReuseIsEarned
  BY DEF PromotionInv, PlanIsBest, Earned, ReuseIsEarned
<1> QED
  BY <1>1, <1>2, <1>3, PTL DEF PromotionSpec

=============================================================================
