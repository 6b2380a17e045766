--------------------------- MODULE BackgroundProofs ---------------------------
(***************************************************************************)
(* Proofs about what runs beside the missions: the hand-over between the   *)
(* connections of the current tab, the session store, the cron scheduler   *)
(* and the audit log.  Each part has its inductive invariant, its step     *)
(* lemmas and its theorem.                                                 *)
(***************************************************************************)
EXTENDS CronScheduler, CurrentTabBridge, SessionStore, MemoryLifecycle, TaskStore, AuditLog, FoldTheorems,
        FiniteSetTheorems, SequenceTheorems, TLAPS

-----------------------------------------------------------------------------
(* CurrentTabBridge: what is added to make the safe hand-over inductive is *)
(* that a client has a handler that has not ended, and so has the          *)
(* connection of a call that waits.                                        *)

HandlerStages == {"none", "hello", "serving", "lost", "ended", "refused"}
CallStates == {"none", "waiting", "refused", "answered", "failed", "timed_out"}

BridgeTypeOK ==
    /\ handler \in [Conns -> HandlerStages]
    /\ newest \in Conns \cup {NoConn} /\ client \in Conns \cup {NoConn}
    /\ pending \in [Calls -> [at : CallStates, conn : Conns \cup {NoConn}]]

\* A handler that has ended is not the client's, and none is entered twice.
ClientHasHandler == client # NoConn => handler[client] \in {"serving", "lost"}

WaitsOnHandler ==
    \A c \in Calls : pending[c].at = "waiting" =>
        pending[c].conn \in Conns /\ handler[pending[c].conn] \in {"serving", "lost"}

BridgeInv == BridgeTypeOK /\ ClientHasHandler /\ WaitsOnHandler /\ NewestClientServes

LEMMA BridgeInitially == BridgeInit => BridgeInv
BY BridgeAssumption DEF BridgeInit, BridgeInv, BridgeTypeOK, HandlerStages, CallStates,
   ClientHasHandler, WaitsOnHandler, NewestClientServes

\* One step keeps the invariant.
LEMMA BridgeStep == BridgeInv /\ [BridgeNext]_bridgeVars => BridgeInv'
<1> SUFFICES ASSUME BridgeInv, [BridgeNext]_bridgeVars
             PROVE  BridgeInv'
    OBVIOUS
<1> USE BridgeAssumption DEF BridgeInv, BridgeTypeOK, HandlerStages, CallStates,
        ClientHasHandler, WaitsOnHandler, NewestClientServes
<1>1. ASSUME NEW s \in Conns, Connect(s) PROVE BridgeInv'
    BY <1>1 DEF Connect
<1>2. ASSUME NEW s \in Conns, Refuse(s) PROVE BridgeInv'
    BY <1>2 DEF Refuse
<1>3. ASSUME NEW s \in Conns, Accept(s) PROVE BridgeInv'
    BY <1>3 DEF Accept
<1>4. ASSUME NEW s \in Conns, Lose(s) PROVE BridgeInv'
    BY <1>4 DEF Lose
<1>5. ASSUME NEW s \in Conns, HandlerEnds(s) PROVE BridgeInv'
    BY <1>5 DEF HandlerEnds, ClientAfter, Fails
<1>6. ASSUME NEW c \in Calls, Call(c) PROVE BridgeInv'
    BY <1>6 DEF Call
<1>7. ASSUME NEW c \in Calls, TimeOut(c) PROVE BridgeInv'
    BY <1>7 DEF TimeOut
<1>8. ASSUME NEW c \in Calls, NEW s \in Conns, Respond(s, c) PROVE BridgeInv'
    BY <1>8 DEF Respond
<1>9. CASE UNCHANGED bridgeVars
    BY <1>9 DEF bridgeVars
<1> QED
    BY <1>1, <1>2, <1>3, <1>4, <1>5, <1>6, <1>7, <1>8, <1>9 DEF BridgeNext

\* The hand-over is safe: the connection accepted last keeps its place however late the
\* handlers of older ones end, and no call waits on a connection whose handler has ended
\* (current_tab_bridge.py, handle_connection and _fail_pending).
THEOREM HandoversAreSafe == BridgeSpec => []HandoverIsSafe
<1>1. BridgeInv => HandoverIsSafe
    BY DEF BridgeInv, HandoverIsSafe, NobodyWaitsForTheGone, NewestClientServes, WaitsOnHandler
<1> QED
    BY <1>1, BridgeInitially, BridgeStep, PTL DEF BridgeSpec

-----------------------------------------------------------------------------
(* SessionStore: an event that was appended without an overlap stays.  The *)
(* strengthening follows the event of a runner that is alone from its      *)
(* session object to what it will write and to the stored session          *)
(* (Carries), and says that whoever has read the session has read the kept *)
(* events with it (ReadsKept).                                             *)

RunnerSteps == {"idle", "created", "ready", "loading", "mapping", "mapped", "storing", "indexing"}
EventSet == Runners \X Nat
StoredLists == Seq(EventSet) \cup {NoSession}
EventsOf(s) == {s[i] : i \in DOMAIN s}
HasRead == {"mapping", "mapped", "storing"}

RunnerType == [at : RunnerSteps, local : StoredLists, count : Nat, delta : BOOLEAN,
               read : StoredLists, map : SUBSET EventSet]

StoreTypeOK ==
    /\ stored \in StoredLists /\ runner \in [Runners -> RunnerType]
    /\ deleting \in BOOLEAN /\ shared \subseteq EventSet
    /\ alone \subseteq Runners /\ kept \subseteq EventSet

\* A runner past its first command has a session object, and one that will write has read.
Holds(r) ==
    /\ runner[r].at # "idle" => runner[r].local \in Seq(EventSet)
    /\ runner[r].at \in HasRead => runner[r].read \in Seq(EventSet) /\ kept \subseteq EventsOf(runner[r].read)
ReadsKept == \A r \in Runners : Holds(r)

\* The runner that is alone, and where its event is.
Carries(r) ==
    /\ Writing = {r} /\ ~deleting /\ runner[r].at # "created"
    /\ runner[r].at = "loading" => EventOf(r) \in EventsOf(runner[r].local)
    /\ runner[r].at \in HasRead => EventOf(r) \in EventsOf(runner[r].read)
    /\ runner[r].at = "indexing" => stored \in Seq(EventSet) /\ EventOf(r) \in EventsOf(stored)
AloneCarries == \A r \in alone : Carries(r)

Stays == kept # {} => stored \in Seq(EventSet) /\ kept \subseteq EventsOf(stored)

StoreInv == StoreTypeOK /\ ReadsKept /\ AloneCarries /\ Stays

-----------------------------------------------------------------------------
\* What Append adds.
LEMMA AppendedEvents ==
    ASSUME NEW s \in Seq(EventSet), NEW e \in EventSet
    PROVE  /\ Append(s, e) \in Seq(EventSet)
           /\ EventsOf(Append(s, e)) = EventsOf(s) \cup {e}
<1>1. /\ Append(s, e) \in Seq(EventSet) /\ Len(s) \in Nat
      /\ DOMAIN s = 1..Len(s) /\ DOMAIN Append(s, e) = 1..(Len(s) + 1)
      /\ \A i \in 1..Len(s) : Append(s, e)[i] = s[i]
      /\ Append(s, e)[Len(s) + 1] = e
    OBVIOUS
<1>2. \A i : i \in 1..(Len(s) + 1) <=> i \in 1..Len(s) \/ i = Len(s) + 1
    BY <1>1
<1> QED
    BY <1>1, <1>2 DEF EventsOf

LEMMA StoreInitially == StoreInit => StoreInv
<1> SUFFICES ASSUME StoreInit PROVE StoreInv
    OBVIOUS
<1>1. IdleRunner \in RunnerType /\ IdleRunner.at = "idle"
    BY DEF IdleRunner, RunnerType, RunnerSteps, StoredLists
<1>2. /\ runner \in [Runners -> RunnerType]
      /\ \A r \in Runners : runner[r].at = "idle"
    BY <1>1 DEF StoreInit
<1>3. StoreTypeOK
    BY <1>2 DEF StoreInit, StoreTypeOK, StoredLists
<1>4. ReadsKept
    BY <1>2 DEF ReadsKept, Holds, HasRead
<1>5. AloneCarries /\ Stays
    BY DEF StoreInit, AloneCarries, Stays
<1> QED
    BY <1>3, <1>4, <1>5 DEF StoreInv

\* A step of one runner changes its entry only: its record stays a record of a runner.
LEMMA OneRunner ==
    ASSUME StoreTypeOK, NEW r \in Runners, NEW x \in RunnerType,
           runner' = [runner EXCEPT ![r] = x]
    PROVE  /\ runner' \in [Runners -> RunnerType]
           /\ \A q \in Runners : runner'[q] = IF q = r THEN x ELSE runner[q]
BY DEF StoreTypeOK

\* The four parts after a step of one runner that leaves the stored session and the kept events alone.
LEMMA QuietStep ==
    ASSUME StoreInv, NEW r \in Runners, NEW x \in RunnerType,
           runner' = [runner EXCEPT ![r] = x],
           stored' = stored, deleting' = deleting, kept' = kept, shared' \subseteq EventSet,
           x.local \in Seq(EventSet),
           x.at \in HasRead => x.read \in Seq(EventSet) /\ kept \subseteq EventsOf(x.read),
           alone' \subseteq alone \cup {r},
           r \in alone' => Carries(r)',
           alone' \subseteq {r} \/ r \in Writing \/ x.at \in {"idle", "ready"}
    PROVE  StoreInv'
<1>1. /\ runner' \in [Runners -> RunnerType]
      /\ \A q \in Runners : runner'[q] = IF q = r THEN x ELSE runner[q]
    BY OneRunner DEF StoreInv
<1>2. StoreTypeOK'
    BY <1>1 DEF StoreInv, StoreTypeOK
<1>3. ReadsKept'
    BY <1>1 DEF StoreInv, ReadsKept, Holds
<1>4. Stays'
    BY DEF StoreInv, Stays
<1>5. AloneCarries'
  <2> SUFFICES ASSUME NEW q \in alone' PROVE Carries(q)'
      BY DEF AloneCarries
  <2>1. CASE q = r
      BY <2>1
  <2>2. CASE q # r
    <3>1. q \in alone /\ q \in Runners
        BY <2>2 DEF StoreInv, StoreTypeOK
    <3>2. Carries(q) /\ runner'[q] = runner[q]
        BY <1>1, <2>2, <3>1 DEF StoreInv, AloneCarries
    <3>3. r \notin Writing /\ x.at \in {"idle", "ready"}
        BY <2>2, <3>2 DEF Carries
    <3>4. Writing' = Writing
        BY <1>1, <3>3 DEF Writing
    <3> QED
        BY <3>2, <3>4 DEF Carries, EventOf
  <2> QED
      BY <2>1, <2>2
<1> QED
    BY <1>2, <1>3, <1>4, <1>5 DEF StoreInv

-----------------------------------------------------------------------------
(* One lemma for each action. *)

LEMMA CreateSessionKeeps ==
    ASSUME StoreInv, NEW r \in Runners, CreateSession(r) PROVE StoreInv'
<1> DEFINE x == [runner[r] EXCEPT !.at = "created", !.local = << >>]
<1>1. runner[r] \in RunnerType
    BY DEF StoreInv, StoreTypeOK
<1> << >> \in Seq(EventSet)
    OBVIOUS
<1>2. x \in RunnerType /\ x.at = "created" /\ x.local \in Seq(EventSet)
    BY <1>1 DEF RunnerType, RunnerSteps, StoredLists
<1>3. /\ runner' \in [Runners -> RunnerType]
      /\ \A q \in Runners : runner'[q] = IF q = r THEN x ELSE runner[q]
    BY <1>2, OneRunner DEF CreateSession, StoreInv
<1> HIDE DEF x
<1>4. kept = {}
    BY StoreAssumption DEF CreateSession, StoreInv, Stays, EventSet
<1>5. StoreTypeOK'
    BY <1>3 DEF CreateSession, StoreInv, StoreTypeOK, StoredLists
<1>6. ReadsKept'
    BY <1>2, <1>3 DEF CreateSession, StoreInv, ReadsKept, Holds, HasRead
<1> QED
    BY <1>4, <1>5, <1>6 DEF CreateSession, StoreInv, AloneCarries, Stays

LEMMA CreateEndsKeeps ==
    ASSUME StoreInv, NEW r \in Runners, CreateEnds(r) PROVE StoreInv'
<1> DEFINE x == [runner[r] EXCEPT !.at = "ready"]
<1>1. runner[r] \in RunnerType /\ Holds(r)
    BY DEF StoreInv, StoreTypeOK, ReadsKept
<1>2. x \in RunnerType /\ x.at = "ready" /\ x.local \in Seq(EventSet)
    BY <1>1 DEF CreateEnds, RunnerType, RunnerSteps, Holds
<1>3. runner' = [runner EXCEPT ![r] = x]
    BY DEF CreateEnds
<1> HIDE DEF x
<1>4. alone = {}
  <2>1. ASSUME NEW q \in alone PROVE FALSE
      BY <2>1 DEF CreateEnds, StoreInv, StoreTypeOK, AloneCarries, Carries, Writing
  <2> QED
      BY <2>1
<1>5. /\ stored' = stored /\ deleting' = deleting /\ kept' = kept /\ shared' \subseteq EventSet
      /\ alone' = {} /\ x.at \notin HasRead
    BY <1>2, <1>4 DEF CreateEnds, StoreInv, StoreTypeOK, HasRead
<1> QED
    BY <1>2, <1>3, <1>4, <1>5, QuietStep

LEMMA GetSessionKeeps ==
    ASSUME StoreInv, NEW r \in Runners, GetSession(r) PROVE StoreInv'
<1> DEFINE x == [runner[r] EXCEPT !.at = "ready", !.local = stored]
<1>1. runner[r] \in RunnerType /\ stored \in Seq(EventSet)
    BY DEF GetSession, StoreInv, StoreTypeOK, StoredLists
<1>2. x \in RunnerType /\ x.at = "ready" /\ x.local \in Seq(EventSet)
    BY <1>1 DEF RunnerType, RunnerSteps, StoredLists
<1>3. runner' = [runner EXCEPT ![r] = x]
    BY DEF GetSession
<1> HIDE DEF x
<1>4. r \notin alone
    BY DEF GetSession, StoreInv, AloneCarries, Carries, Writing
<1>5. /\ stored' = stored /\ deleting' = deleting /\ kept' = kept /\ shared' \subseteq EventSet
      /\ alone' = alone /\ x.at \notin HasRead
    BY <1>2 DEF GetSession, StoreInv, StoreTypeOK, HasRead
<1> QED
    BY <1>2, <1>3, <1>4, <1>5, QuietStep

LEMMA AppendStartsKeeps ==
    ASSUME StoreInv, NEW r \in Runners, NEW delta \in BOOLEAN, AppendStarts(r, delta) PROVE StoreInv'
<1> DEFINE x == [runner[r] EXCEPT !.at = "loading", !.count = runner[r].count + 1, !.delta = delta,
                               !.local = Append(runner[r].local, <<r, runner[r].count + 1>>)]
<1>1. /\ runner[r] \in RunnerType /\ runner[r].at = "ready"
      /\ runner[r].local \in Seq(EventSet) /\ <<r, runner[r].count + 1>> \in EventSet
    BY DEF AppendStarts, StoreInv, StoreTypeOK, ReadsKept, Holds, RunnerType, EventSet
<1>2. /\ x \in RunnerType /\ x.at = "loading" /\ x.at \notin HasRead /\ x.count = runner[r].count + 1
      /\ x.local \in Seq(EventSet) /\ <<r, runner[r].count + 1>> \in EventsOf(x.local)
  <2>1. /\ Append(runner[r].local, <<r, runner[r].count + 1>>) \in Seq(EventSet)
        /\ <<r, runner[r].count + 1>> \in EventsOf(Append(runner[r].local, <<r, runner[r].count + 1>>))
      BY <1>1, AppendedEvents
  <2> DEFINE l == Append(runner[r].local, <<r, runner[r].count + 1>>)
  <2>2. l \in Seq(EventSet) /\ <<r, runner[r].count + 1>> \in EventsOf(l) /\ runner[r].count + 1 \in Nat
      BY <1>1, <2>1 DEF RunnerType
  <2> HIDE DEF l
  <2> DEFINE y == [runner[r] EXCEPT !.at = "loading", !.count = runner[r].count + 1, !.delta = delta, !.local = l]
  <2>3. y \in RunnerType /\ y.at = "loading" /\ y.count = runner[r].count + 1 /\ y.local = l
      BY <1>1, <2>2 DEF RunnerType, RunnerSteps, StoredLists
  <2>4. x = y
      BY DEF l
  <2> HIDE DEF y
  <2>5. y.at \notin HasRead
      BY <2>3 DEF HasRead
  <2> HIDE DEF x
  <2> QED
      BY <2>2, <2>3, <2>4, <2>5
<1>3. runner' = [runner EXCEPT ![r] = x]
    BY DEF AppendStarts
<1>4. /\ runner' \in [Runners -> RunnerType]
      /\ \A q \in Runners : runner'[q] = IF q = r THEN x ELSE runner[q]
    BY <1>2, <1>3, OneRunner DEF StoreInv
<1> HIDE DEF x
<1>5. /\ stored' = stored /\ deleting' = deleting /\ kept' = kept /\ shared' \subseteq EventSet
      /\ alone' \subseteq alone \cup {r} /\ (alone' \subseteq {r})
    BY <1>1 DEF AppendStarts, StoreInv, StoreTypeOK, Writing, Joins
<1>6. ASSUME r \in alone' PROVE Carries(r)'
  <2>1. Writing = {} /\ ~deleting
      BY <1>6 DEF AppendStarts, Joins
  <2>2. Writing' = {r}
      BY <1>2, <1>4, <2>1 DEF Writing
  <2> QED
      BY <1>2, <1>4, <1>5, <2>1, <2>2 DEF Carries, EventOf, HasRead
<1> QED
    BY <1>1, <1>2, <1>3, <1>5, <1>6, QuietStep

LEMMA AppendLoadsKeeps ==
    ASSUME StoreInv, NEW r \in Runners, AppendLoads(r) PROVE StoreInv'
<1> DEFINE x == [runner[r] EXCEPT !.read = NewStored(r), !.at = IF runner[r].delta THEN "mapping" ELSE "storing"]
<1>1. /\ runner[r] \in RunnerType /\ runner[r].at = "loading" /\ runner[r].local \in Seq(EventSet)
      /\ stored \in StoredLists /\ EventOf(r) \in EventSet
    BY DEF AppendLoads, StoreInv, StoreTypeOK, ReadsKept, Holds, RunnerType, EventSet, EventOf
<1>a. /\ NewStored(r) \in Seq(EventSet)
      /\ kept \subseteq EventsOf(NewStored(r))
  <2>1. CASE stored = NoSession
      BY <1>1, <2>1, StoreAssumption DEF NewStored, StoreInv, Stays, EventSet
  <2>2. CASE stored # NoSession
    <3>1. stored \in Seq(EventSet)
        BY <1>1, <2>2 DEF StoredLists
    <3> QED
        BY <1>1, <2>2, <3>1, AppendedEvents DEF NewStored, StoreInv, Stays
  <2> QED
      BY <2>1, <2>2
<1>b. r \in alone => EventOf(r) \in EventsOf(NewStored(r))
  <2>1. CASE stored = NoSession
      BY <1>1, <2>1 DEF NewStored, StoreInv, AloneCarries, Carries
  <2>2. CASE stored # NoSession
    <3>1. stored \in Seq(EventSet)
        BY <1>1, <2>2 DEF StoredLists
    <3> QED
        BY <1>1, <2>2, <3>1, AppendedEvents DEF NewStored
  <2> QED
      BY <2>1, <2>2
<1>2. /\ x \in RunnerType /\ x.at \in {"mapping", "storing"} /\ x.count = runner[r].count
      /\ x.local \in Seq(EventSet) /\ x.read = NewStored(r)
    BY <1>1, <1>a DEF RunnerType, RunnerSteps, StoredLists, HasRead
<1>3. runner' = [runner EXCEPT ![r] = x]
    BY DEF AppendLoads
<1>4. /\ runner' \in [Runners -> RunnerType]
      /\ \A q \in Runners : runner'[q] = IF q = r THEN x ELSE runner[q]
    BY <1>2, <1>3, OneRunner DEF StoreInv
<1> HIDE DEF x
<1>5. /\ stored' = stored /\ deleting' = deleting /\ kept' = kept /\ shared' \subseteq EventSet
      /\ alone' \subseteq alone \cup {r} /\ (r \in Writing)
    BY <1>1 DEF AppendLoads, StoreInv, StoreTypeOK, Writing, Joins
<1>6. ASSUME r \in alone' PROVE Carries(r)'
  <2>1. r \in alone /\ Carries(r)
      BY <1>5, <1>6 DEF StoreInv, AloneCarries, AppendLoads
  <2>2. Writing' = Writing
      BY <1>1, <1>2, <1>4 DEF Writing, AppendLoads
  <2> QED
      BY <1>1, <1>2, <1>4, <1>5, <2>1, <2>2, <1>b DEF Carries, EventOf, HasRead, AppendLoads
<1> QED
    BY <1>1, <1>2, <1>3, <1>5, <1>6, <1>a, QuietStep

LEMMA MapLoadsKeeps ==
    ASSUME StoreInv, NEW r \in Runners, MapLoads(r) PROVE StoreInv'
<1> DEFINE x == [runner[r] EXCEPT !.map = shared \cup {EventOf(r)}, !.at = "mapped"]
<1>1. /\ runner[r] \in RunnerType /\ runner[r].at = "mapping" /\ runner[r].local \in Seq(EventSet)
      /\ runner[r].read \in Seq(EventSet) /\ kept \subseteq EventsOf(runner[r].read)
      /\ shared \cup {EventOf(r)} \subseteq EventSet /\ runner[r].map \subseteq EventSet
    BY DEF MapLoads, StoreInv, StoreTypeOK, ReadsKept, Holds, HasRead, RunnerType, EventSet, EventOf
<1>2. /\ x \in RunnerType /\ x.at = "mapped" /\ x.count = runner[r].count
      /\ x.local \in Seq(EventSet) /\ x.read = runner[r].read
    BY <1>1 DEF RunnerType, RunnerSteps, StoredLists, HasRead
<1>3. runner' = [runner EXCEPT ![r] = x]
    BY DEF MapLoads
<1>4. /\ runner' \in [Runners -> RunnerType]
      /\ \A q \in Runners : runner'[q] = IF q = r THEN x ELSE runner[q]
    BY <1>2, <1>3, OneRunner DEF StoreInv
<1> HIDE DEF x
<1>5. /\ stored' = stored /\ deleting' = deleting /\ kept' = kept /\ shared' \subseteq EventSet
      /\ alone' \subseteq alone \cup {r} /\ (r \in Writing)
    BY <1>1 DEF MapLoads, StoreInv, StoreTypeOK, Writing, Joins
<1>6. ASSUME r \in alone' PROVE Carries(r)'
  <2>1. r \in alone /\ Carries(r)
      BY <1>5, <1>6 DEF StoreInv, AloneCarries, MapLoads
  <2>2. Writing' = Writing
      BY <1>1, <1>2, <1>4 DEF Writing, MapLoads
  <2> QED
      BY <1>1, <1>2, <1>4, <1>5, <2>1, <2>2 DEF Carries, EventOf, HasRead, MapLoads
<1> QED
    BY <1>1, <1>2, <1>3, <1>5, <1>6, QuietStep

LEMMA MapStoresKeeps ==
    ASSUME StoreInv, NEW r \in Runners, MapStores(r) PROVE StoreInv'
<1> DEFINE x == [runner[r] EXCEPT !.at = "storing", !.map = {}]
<1>1. /\ runner[r] \in RunnerType /\ runner[r].at = "mapped" /\ runner[r].local \in Seq(EventSet)
      /\ runner[r].read \in Seq(EventSet) /\ kept \subseteq EventsOf(runner[r].read)
      /\ shared \cup {EventOf(r)} \subseteq EventSet /\ runner[r].map \subseteq EventSet
    BY DEF MapStores, StoreInv, StoreTypeOK, ReadsKept, Holds, HasRead, RunnerType, EventSet, EventOf
<1>2. /\ x \in RunnerType /\ x.at = "storing" /\ x.count = runner[r].count
      /\ x.local \in Seq(EventSet) /\ x.read = runner[r].read
    BY <1>1 DEF RunnerType, RunnerSteps, StoredLists, HasRead
<1>3. runner' = [runner EXCEPT ![r] = x]
    BY DEF MapStores
<1>4. /\ runner' \in [Runners -> RunnerType]
      /\ \A q \in Runners : runner'[q] = IF q = r THEN x ELSE runner[q]
    BY <1>2, <1>3, OneRunner DEF StoreInv
<1> HIDE DEF x
<1>5. /\ stored' = stored /\ deleting' = deleting /\ kept' = kept /\ shared' \subseteq EventSet
      /\ alone' \subseteq alone \cup {r} /\ (r \in Writing)
    BY <1>1 DEF MapStores, StoreInv, StoreTypeOK, Writing, Joins
<1>6. ASSUME r \in alone' PROVE Carries(r)'
  <2>1. r \in alone /\ Carries(r)
      BY <1>5, <1>6 DEF StoreInv, AloneCarries, MapStores
  <2>2. Writing' = Writing
      BY <1>1, <1>2, <1>4 DEF Writing, MapStores
  <2> QED
      BY <1>1, <1>2, <1>4, <1>5, <2>1, <2>2 DEF Carries, EventOf, HasRead, MapStores
<1> QED
    BY <1>1, <1>2, <1>3, <1>5, <1>6, QuietStep

LEMMA AppendStoresKeeps ==
    ASSUME StoreInv, NEW r \in Runners, AppendStores(r) PROVE StoreInv'
<1> DEFINE x == [runner[r] EXCEPT !.at = "indexing", !.read = NoSession]
<1>1. /\ runner[r] \in RunnerType /\ runner[r].at = "storing" /\ runner[r].local \in Seq(EventSet)
      /\ runner[r].read \in Seq(EventSet) /\ kept \subseteq EventsOf(runner[r].read)
    BY DEF AppendStores, StoreInv, StoreTypeOK, ReadsKept, Holds, HasRead
<1>2. /\ x \in RunnerType /\ x.at = "indexing" /\ x.at \notin HasRead /\ x.count = runner[r].count
      /\ x.local \in Seq(EventSet)
    BY <1>1 DEF RunnerType, RunnerSteps, StoredLists, HasRead
<1>3. runner' = [runner EXCEPT ![r] = x]
    BY DEF AppendStores
<1>4. /\ runner' \in [Runners -> RunnerType]
      /\ \A q \in Runners : runner'[q] = IF q = r THEN x ELSE runner[q]
    BY <1>2, <1>3, OneRunner DEF StoreInv
<1> HIDE DEF x
<1>5. /\ stored' = runner[r].read /\ stored' \in Seq(EventSet) /\ deleting' = deleting
      /\ kept' = kept /\ alone' = alone /\ shared' = shared
    BY <1>1 DEF AppendStores
<1>6. StoreTypeOK'
    BY <1>4, <1>5 DEF StoreInv, StoreTypeOK, StoredLists
<1>7. ReadsKept'
    BY <1>2, <1>4, <1>5 DEF StoreInv, ReadsKept, Holds
<1>8. Stays'
    BY <1>1, <1>5 DEF Stays
<1>9. AloneCarries'
  <2> SUFFICES ASSUME NEW q \in alone' PROVE Carries(q)'
      BY DEF AloneCarries
  <2>1. q \in alone /\ Carries(q) /\ r \in Writing
      BY <1>1, <1>5 DEF StoreInv, AloneCarries, Writing
  <2>2. q = r
      BY <2>1 DEF Carries
  <2>3. Writing' = Writing
      BY <1>1, <1>2, <1>4 DEF Writing
  <2>4. EventOf(r) \in EventsOf(runner[r].read) /\ EventOf(r)' = EventOf(r)
      BY <1>1, <1>2, <1>4, <2>1, <2>2 DEF Carries, HasRead, EventOf
  <2> QED
      BY <1>2, <1>4, <1>5, <2>1, <2>2, <2>3, <2>4 DEF Carries
<1> QED
    BY <1>6, <1>7, <1>8, <1>9 DEF StoreInv

\* The event of a runner that was alone to its end joins the kept ones: nobody has read without it.
LEMMA AppendEndsKeeps ==
    ASSUME StoreInv, NEW r \in Runners, AppendEnds(r) PROVE StoreInv'
<1> DEFINE x == [runner[r] EXCEPT !.at = "ready"]
<1>1. /\ runner[r] \in RunnerType /\ runner[r].at = "indexing" /\ runner[r].local \in Seq(EventSet)
      /\ EventOf(r) \in EventSet
    BY DEF AppendEnds, StoreInv, StoreTypeOK, ReadsKept, Holds, RunnerType, EventOf, EventSet
<1>2. x \in RunnerType /\ x.at = "ready" /\ x.at \notin HasRead /\ x.local \in Seq(EventSet)
    BY <1>1 DEF RunnerType, RunnerSteps, HasRead
<1>3. runner' = [runner EXCEPT ![r] = x]
    BY DEF AppendEnds
<1>4. /\ runner' \in [Runners -> RunnerType]
      /\ \A q \in Runners : runner'[q] = IF q = r THEN x ELSE runner[q]
    BY <1>2, <1>3, OneRunner DEF StoreInv
<1> HIDE DEF x
<1>5. /\ stored' = stored /\ deleting' = deleting /\ shared' = shared
      /\ kept' = (IF r \in alone THEN kept \cup {EventOf(r)} ELSE kept)
    BY DEF AppendEnds
<1>6. alone' = {}
  <2>1. ASSUME NEW q \in alone PROVE q = r
      BY <1>1, <2>1 DEF StoreInv, AloneCarries, Carries, Writing
  <2> QED
      BY <2>1 DEF AppendEnds
<1>7. r \in alone => /\ stored \in Seq(EventSet) /\ EventOf(r) \in EventsOf(stored)
                     /\ \A q \in Runners : q # r => runner[q].at \notin HasRead
    BY <1>1 DEF StoreInv, AloneCarries, Carries, Writing, HasRead
<1>8. StoreTypeOK'
    BY <1>1, <1>4, <1>5, <1>6 DEF StoreInv, StoreTypeOK
<1>9. ReadsKept'
  <2> SUFFICES ASSUME NEW q \in Runners PROVE Holds(q)'
      BY DEF ReadsKept
  <2>1. CASE q = r
      BY <1>2, <1>4, <2>1 DEF Holds
  <2>2. CASE q # r
      BY <1>4, <1>5, <1>7, <2>2 DEF StoreInv, ReadsKept, Holds
  <2> QED
      BY <2>1, <2>2
<1>10. Stays'
    BY <1>5, <1>7 DEF StoreInv, Stays
<1>11. AloneCarries'
    BY <1>6 DEF AloneCarries
<1> QED
    BY <1>8, <1>9, <1>10, <1>11 DEF StoreInv

LEMMA DeletesKeep ==
    ASSUME StoreInv, DeleteStarts \/ DeleteEnds PROVE StoreInv'
<1>1. CASE DeleteStarts
  <2>1. /\ stored' = NoSession /\ deleting' \in BOOLEAN /\ shared' = shared /\ runner' = runner
        /\ alone' = {} /\ kept' = {}
      BY <1>1 DEF DeleteStarts
  <2>2. StoreTypeOK'
      BY <2>1 DEF StoreInv, StoreTypeOK, StoredLists
  <2>3. ReadsKept'
      BY <2>1 DEF StoreInv, ReadsKept, Holds
  <2> QED
      BY <2>1, <2>2, <2>3 DEF StoreInv, AloneCarries, Stays
<1>2. CASE DeleteEnds
  <2>1. /\ stored' = stored /\ deleting /\ deleting' \in BOOLEAN /\ shared' = shared /\ runner' = runner
        /\ alone' = alone /\ kept' = kept
      BY <1>2 DEF DeleteEnds
  <2>2. StoreTypeOK'
      BY <2>1 DEF StoreInv, StoreTypeOK
  <2>3. ReadsKept' /\ Stays'
      BY <2>1 DEF StoreInv, ReadsKept, Holds, Stays
  <2>4. AloneCarries'
      BY <2>1 DEF StoreInv, AloneCarries, Carries
  <2> QED
      BY <2>2, <2>3, <2>4 DEF StoreInv
<1> QED
    BY <1>1, <1>2

LEMMA StoreStep == StoreInv /\ [StoreNext]_storeVars => StoreInv'
<1> SUFFICES ASSUME StoreInv, [StoreNext]_storeVars PROVE StoreInv'
    OBVIOUS
<1>1. ASSUME NEW r \in Runners,
             CreateSession(r) \/ CreateEnds(r) \/ GetSession(r) \/ AppendLoads(r) \/ MapLoads(r)
                 \/ MapStores(r) \/ AppendStores(r) \/ AppendEnds(r)
      PROVE StoreInv'
    BY <1>1, CreateSessionKeeps, CreateEndsKeeps, GetSessionKeeps, AppendLoadsKeeps, MapLoadsKeeps,
       MapStoresKeeps, AppendStoresKeeps, AppendEndsKeeps
<1>2. ASSUME NEW r \in Runners, NEW delta \in BOOLEAN, AppendStarts(r, delta) PROVE StoreInv'
    BY <1>2, AppendStartsKeeps
<1>3. CASE DeleteStarts \/ DeleteEnds
    BY <1>3, DeletesKeep
<1>4. CASE UNCHANGED storeVars
  <2>1. /\ stored' = stored /\ deleting' = deleting /\ shared' = shared /\ runner' = runner
        /\ alone' = alone /\ kept' = kept
      BY <1>4 DEF storeVars
  <2>2. StoreTypeOK' /\ ReadsKept' /\ Stays'
      BY <2>1 DEF StoreInv, StoreTypeOK, ReadsKept, Holds, Stays
  <2>3. AloneCarries'
      BY <2>1 DEF StoreInv, AloneCarries, Carries, Writing, EventOf
  <2> QED
      BY <2>2, <2>3 DEF StoreInv
<1> QED
    BY <1>1, <1>2, <1>3, <1>4 DEF StoreNext

-----------------------------------------------------------------------------
\* An event that was appended while nobody else wrote stays in the stored session until the session
\* is deleted (append_event, _store_session).
THEOREM LoneAppendsStay == StoreSpec => []LoneAppendsLast
<1>1. StoreInv => LoneAppendsLast
  <2>1. NoSession \notin Seq(EventSet)
      BY StoreAssumption DEF EventSet
  <2> QED
      BY <2>1 DEF StoreInv, Stays, LoneAppendsLast, EventsOf
<1> QED
    BY <1>1, StoreInitially, StoreStep, PTL DEF StoreSpec

-----------------------------------------------------------------------------
(* CronScheduler: an occurrence is worked on by one run.                   *)

RunStages == {"created", "notifying", "spawning", "sleeping", "ended", "dropped", "lost"}
RunSet == [job : Jobs, slot : Int, attempt : Nat, at : RunStages]
RowFields == {"enabled", "next", "retries"}

\* A row that exists has its fields; the next run of a job bound to an event is never.
RowOK(j) ==
    Exists(j) =>
        /\ RowFields \subseteq DOMAIN rows[j]
        /\ rows[j].next \in Int
        /\ Event[j] # "" => rows[j].next = Never

CronTypeOK ==
    /\ now \in Nat /\ DOMAIN rows = Jobs
    /\ \A j \in Jobs : RowOK(j)
    /\ runs \in Seq(RunSet)

\* A run is for an occurrence that has come; once it has begun, the next run of its job is later.
RunOK(i) ==
    /\ runs[i].slot <= now /\ (runs[i].slot # Never => Event[runs[i].job] = "")
    /\ Begun(i) /\ runs[i].slot # Never /\ Exists(runs[i].job) => rows[runs[i].job].next > runs[i].slot

\* Two runs that are not for the same occurrence, and not both to begin.
Apart(i, k) ==
    runs[i].job = runs[k].job /\ runs[i].slot # Never /\ runs[k].slot # Never =>
        /\ runs[i].at = "created" => runs[k].at # "created"
        /\ (runs[i].at = "created" \/ Begun(i)) /\ Begun(k) => runs[i].slot # runs[k].slot

CronInv ==
    /\ CronTypeOK
    /\ \A i \in DOMAIN runs : RunOK(i)
    /\ \A i, k \in DOMAIN runs : i # k => Apart(i, k)

\* The frame of every step: what a table or a list of runs that stays as it is gives.
LEMMA CronFrame ==
    ASSUME CronInv
    PROVE  /\ now \in Nat /\ DOMAIN rows = Jobs /\ runs \in Seq(RunSet)
           /\ \A j \in Jobs : RowOK(j)
           /\ rows' = rows => \A j \in Jobs : RowOK(j)'
BY DEF CronInv, CronTypeOK, RowOK, Exists

\* What a run of the list is, and what it may turn into.
LEMMA RunIs ==
    ASSUME runs \in Seq(RunSet), NEW i \in DOMAIN runs
    PROVE  /\ runs[i] \in RunSet /\ runs[i].job \in Jobs /\ runs[i].slot \in Int
           /\ runs[i].attempt \in Nat /\ runs[i].at \in RunStages
<1>1. runs[i] \in RunSet
  OBVIOUS
<1> QED BY <1>1 DEF RunSet

LEMMA RunTurns ==
    ASSUME NEW r \in RunSet, NEW st \in RunStages, NEW n \in Nat, NEW q,
           q = [r EXCEPT !.at = st] \/ q = [r EXCEPT !.at = st, !.attempt = n]
    PROVE  q \in RunSet /\ q.job = r.job /\ q.slot = r.slot /\ q.at = st
BY DEF RunSet

\* The next time of a job by the clock is ahead.
LEMMA NextIsAhead ==
    ASSUME NEW j \in Jobs, NEW t \in Nat
    PROVE  NextTs(j, t) \in Int /\ (Event[j] # "" => NextTs(j, t) = Never) /\ (Event[j] = "" => NextTs(j, t) > t)
<1>1. CASE Event[j] # ""
  <2>1. NextTs(j, t) = Never
    BY <1>1 DEF NextTs
  <2>2. Never \in Int
    BY DEF Never
  <2> QED BY <1>1, <2>1, <2>2
<1>2. CASE Event[j] = ""
  <2>1. Period[j] \in Nat /\ Period[j] > 0
    <3>1. Period[j] \in Nat
      BY CronAssumption
    <3>2. Period[j] # 0
      BY <1>2, CronAssumption
    <3> QED BY <3>1, <3>2
  <2> DEFINE P == Period[j]
  <2> HIDE DEF P
  <2>2. P \in Nat /\ P > 0
    BY <2>1 DEF P
  <2>3. (t \div P + 1) * P > t /\ (t \div P + 1) * P \in Int
    BY <2>2
  <2> QED BY <1>2, <2>3 DEF NextTs, P
<1> QED BY <1>1, <1>2

\* Runs are started one for each job, in some order.
LEMMA StartedAre ==
    ASSUME CronTypeOK, NEW S \in SUBSET Jobs, \A j \in S : Exists(j)
    PROVE  /\ Started(S) \in Seq(RunSet)
           /\ \A i \in DOMAIN runs : i \in DOMAIN Started(S) /\ Started(S)[i] = runs[i]
           /\ \A i \in DOMAIN Started(S) : i \in DOMAIN runs \/ \E j \in S : Started(S)[i] = NewRun(j)
           /\ \A i, k \in DOMAIN Started(S) :
                 i # k /\ i \notin DOMAIN runs /\ k \notin DOMAIN runs => Started(S)[i].job # Started(S)[k].job
<1> DEFINE R == {NewRun(j) : j \in S}
           f == SetToSeq(R)
           n == Cardinality(S)
<1>1. n \in Nat /\ ExistsBijection(1..n, S)
  BY CronAssumption, FS_Subset, FS_CardinalityType
<1>2. PICK b : b \in Bijection(1..n, S)
  BY <1>1 DEF ExistsBijection
<1>3. /\ b \in [1..n -> S] /\ (\A x, y \in 1..n : b[x] = b[y] => x = y)
      /\ \A j \in S : \E x \in 1..n : b[x] = j
  BY <1>2 DEF Bijection, Injection, Surjection, IsInjective
<1>4. \A j \in S : NewRun(j).job = j /\ NewRun(j) \in RunSet
  BY DEF NewRun, RunSet, RunStages, CronTypeOK, RowOK
<1> DEFINE g == [x \in 1..n |-> NewRun(b[x])]
<1>5. g \in Bijection(1..n, R)
  <2>1. g \in [1..n -> R] /\ \A r \in R : \E x \in 1..n : g[x] = r
    BY <1>3
  <2>2. \A x, y \in 1..n : g[x] = g[y] => x = y
    BY <1>3, <1>4
  <2> HIDE DEF g, R
  <2> QED BY <2>1, <2>2 DEF Bijection, Injection, Surjection, IsInjective
<1>6. Cardinality(R) = n
  <2> HIDE DEF g, R, n
  <2> QED BY <1>1, <1>5, FS_CountingElements DEF ExistsBijection
<1>7. f \in [1..n -> R] /\ \A x, y \in 1..n : f[x] = f[y] => x = y
  <2>1. \E h \in [1..Cardinality(R) -> R] : IsInjective(h)
    <3> HIDE DEF g, R
    <3> QED BY <1>5, <1>6 DEF Bijection, Injection
  <2>2. f \in [1..Cardinality(R) -> R] /\ IsInjective(f)
    <3> HIDE DEF R
    <3> QED BY <2>1 DEF SetToSeq
  <2> HIDE DEF f, R
  <2> QED BY <1>6, <2>2 DEF IsInjective
<1>8. R \subseteq RunSet
  BY <1>4
<1>9. \A r \in R : \E j \in S : r = NewRun(j)
  OBVIOUS
<1>10. \A r, q \in R : r.job = q.job => r = q
  BY <1>4
<1> HIDE DEF R, f, n, g
<1>11. f \in Seq(RunSet) /\ Len(f) = n /\ DOMAIN f = 1..n
  BY <1>1, <1>7, <1>8
<1> DEFINE s == runs \o f
           m == Len(runs)
<1>12. runs \in Seq(RunSet) /\ m \in Nat /\ DOMAIN runs = 1..m
  BY DEF CronTypeOK
<1>13. s \in Seq(RunSet) /\ Len(s) = m + n /\ \A i \in 1..m + n : s[i] = IF i <= m THEN runs[i] ELSE f[i - m]
  BY <1>11, <1>12, ConcatProperties
<1> HIDE DEF s, m
<1>14. DOMAIN s = 1..m + n
  BY <1>13
<1>15. \A i \in 1..m + n : i \in 1..m \/ (i - m \in 1..n /\ s[i] = f[i - m])
  BY <1>1, <1>12, <1>13
<1>16. \A i \in DOMAIN s : i \in DOMAIN runs \/ (i - m \in 1..n /\ s[i] = f[i - m] /\ f[i - m] \in R)
  BY <1>7, <1>12, <1>14, <1>15
<1>17. \A i \in DOMAIN runs : i \in DOMAIN s /\ s[i] = runs[i]
  BY <1>1, <1>12, <1>13, <1>14
<1>18. ASSUME NEW i \in DOMAIN s, NEW k \in DOMAIN s, i # k, i \notin DOMAIN runs, k \notin DOMAIN runs
       PROVE  s[i].job # s[k].job
  <2>1. i - m # k - m
    BY <1>1, <1>12, <1>14, <1>18
  <2>2. f[i - m] # f[k - m]
    BY <1>7, <1>16, <1>18, <2>1
  <2> QED BY <1>10, <1>16, <1>18, <2>2
<1>19. Started(S) = s
  BY DEF Started, s, f, R
<1> QED BY <1>9, <1>13, <1>16, <1>17, <1>18, <1>19

\* More runs are started: those for an occurrence come when no other run waits to begin, and each
\* for an occurrence of now or before.
LEMMA StartMove ==
    ASSUME CronInv, NEW S \in SUBSET Jobs, \A j \in S : Exists(j),
           runs' = Started(S), UNCHANGED <<now, rows>>,
           \/ \A j \in S : rows[j].next = Never
           \/ (\A j \in S : rows[j].next <= now) /\ (\A i \in DOMAIN runs : runs[i].at # "created")
    PROVE  CronInv'
<1> DEFINE s == Started(S)
<1>1. /\ s \in Seq(RunSet)
      /\ \A i \in DOMAIN runs : i \in DOMAIN s /\ s[i] = runs[i]
      /\ \A i \in DOMAIN s : i \in DOMAIN runs \/ \E j \in S : s[i] = NewRun(j)
      /\ \A i, k \in DOMAIN s : i # k /\ i \notin DOMAIN runs /\ k \notin DOMAIN runs => s[i].job # s[k].job
  BY StartedAre DEF CronInv
<1> HIDE DEF s
<1>2. runs' = s
  BY DEF s
<1>3. CronTypeOK'
  BY <1>1, <1>2 DEF CronInv, CronTypeOK, RowOK, Exists
<1>4. ASSUME NEW i \in DOMAIN s, i \notin DOMAIN runs
      PROVE  /\ s[i].job \in S /\ s[i].slot = rows[s[i].job].next /\ s[i].at = "created" /\ s[i].slot <= now
             /\ s[i].slot # Never => Event[s[i].job] = ""
  <2>1. PICK j \in S : s[i] = NewRun(j)
    BY <1>1, <1>4
  <2>2. Never <= now /\ now \in Nat
    BY DEF Never, CronInv, CronTypeOK
  <2>3. rows[j].next <= now
    BY <2>2
  <2>4. rows[j].next # Never => Event[j] = ""
    BY DEF CronInv, CronTypeOK, RowOK
  <2>5. s[i].job = j /\ s[i].slot = rows[j].next /\ s[i].at = "created"
    BY <2>1 DEF NewRun
  <2> QED BY <2>3, <2>4, <2>5
<1>5. ASSUME NEW i \in DOMAIN s PROVE RunOK(i)'
  <2>1. CASE i \in DOMAIN runs
    BY <1>1, <1>2, <2>1 DEF CronInv, RunOK, Begun, Exists
  <2>2. CASE i \notin DOMAIN runs
    BY <1>2, <1>4, <2>2 DEF RunOK, Begun
  <2> QED BY <2>1, <2>2
<1>6. ASSUME NEW i \in DOMAIN s, NEW k \in DOMAIN s, i # k PROVE Apart(i, k)'
  <2>1. CASE i \in DOMAIN runs /\ k \in DOMAIN runs
    BY <1>1, <1>2, <1>6, <2>1 DEF CronInv, Apart, Begun
  <2>2. CASE i \notin DOMAIN runs /\ k \notin DOMAIN runs
    BY <1>1, <1>2, <1>6, <2>2 DEF Apart
  <2>3. CASE i \notin DOMAIN runs /\ k \in DOMAIN runs
    <3>1. s[k] = runs[k] /\ s[i].at = "created" /\ s[i].slot = rows[s[i].job].next /\ s[i].job \in S
      BY <1>1, <1>4, <2>3
    <3>2. CASE s[i].job = runs[k].job /\ s[i].slot # Never
      <4>1. runs[k].at # "created"
        BY <2>3, <3>1, <3>2
      <4>2. Begun(k) /\ runs[k].slot # Never => s[i].slot > runs[k].slot
        BY <2>3, <3>1, <3>2 DEF CronInv, RunOK
      <4>3. Begun(k) /\ runs[k].slot # Never => s[i].slot # runs[k].slot
        <5>1. rows[s[i].job].next \in Int /\ runs[k].slot \in Int
          BY <2>3, <3>1, RunIs, CronFrame DEF RowOK
        <5> QED BY <3>1, <4>2, <5>1
      <4> QED BY <1>2, <3>1, <4>1, <4>3 DEF Apart, Begun
    <3> QED BY <1>2, <3>1, <3>2 DEF Apart
  <2>4. CASE i \in DOMAIN runs /\ k \notin DOMAIN runs
    <3>1. s[i] = runs[i] /\ s[k].at = "created" /\ s[k].slot = rows[s[k].job].next /\ s[k].job \in S
      BY <1>1, <1>4, <2>4
    <3>2. CASE s[k].job = runs[i].job /\ s[k].slot # Never
      <4>1. runs[i].at # "created"
        BY <2>4, <3>1, <3>2
      <4> QED BY <1>2, <3>1, <4>1 DEF Apart, Begun
    <3> QED BY <1>2, <3>1, <3>2 DEF Apart
  <2> QED BY <2>1, <2>2, <2>3, <2>4
<1> QED BY <1>2, <1>3, <1>5, <1>6 DEF CronInv

\* The step puts the next run of a job by the clock ahead; or it may leave it where it was.
PutAhead(j) == (Exists(j)' /\ Event[j] = "") => rows'[j].next > now
PutAheadOrKept(j) == PutAhead(j) \/ (Exists(j) /\ rows'[j].next = rows[j].next)

\* A run keeps its job and occurrence, and puts its job ahead when it begins.
RunKept(k) ==
    /\ runs'[k].job = runs[k].job /\ runs'[k].slot = runs[k].slot
    /\ runs'[k].at = "created" => runs[k].at = "created"
    /\ Begun(k)' => Begun(k) \/ (runs[k].at = "created" /\ \A j \in Jobs : j = runs[k].job => PutAhead(j))

\* Everything but a start: the next run of a job stays, or is put ahead; the runs keep their jobs
\* and occurrences, and one that begins puts the next run of its job ahead.
LEMMA CronMove ==
    ASSUME CronInv, now' = now \/ now' = now + 1,
           DOMAIN rows' = Jobs, \A j \in Jobs : RowOK(j)',
           \A j \in Jobs : PutAheadOrKept(j),
           runs' \in Seq(RunSet), DOMAIN runs' = DOMAIN runs,
           \A k \in DOMAIN runs : RunKept(k)
    PROVE  CronInv'
<1>0. now \in Nat /\ now' \in Nat
  BY CronFrame
<1>1. CronTypeOK'
  BY <1>0 DEF CronTypeOK
<1>2. ASSUME NEW k \in DOMAIN runs PROVE RunOK(k)'
  <2>0. PICK j \in Jobs, t \in Int : j = runs[k].job /\ t = runs[k].slot
    BY <1>2, RunIs, CronFrame
  <2>1. /\ now \in Nat /\ t <= now /\ (t # Never => Event[j] = "")
        /\ Begun(k) /\ t # Never /\ Exists(j) => rows[j].next > t
    BY <1>2, <2>0, CronFrame DEF CronInv, RunOK
  <2>2. Exists(j)' => rows'[j].next \in Int
    BY DEF RowOK
  <2>3. runs'[k].job = j /\ runs'[k].slot = t
    BY <1>2, <2>0 DEF RunKept
  <2>4. ASSUME Begun(k)', t # Never, Exists(j)' PROVE rows'[j].next > t
    <3>1. Event[j] = "" /\ rows'[j].next \in Int
      BY <2>1, <2>2, <2>4
    <3>2. CASE PutAhead(j)
      <4>1. rows'[j].next > now
        BY <2>4, <3>1, <3>2 DEF PutAhead
      <4>2. t <= now /\ now \in Nat
        BY <2>1
      <4>3. rows'[j].next \in Int
        BY <3>1
      <4> QED BY <4>1, <4>2, <4>3
    <3>3. CASE ~PutAhead(j)
      <4>1. Begun(k) /\ Exists(j) /\ rows'[j].next = rows[j].next
        BY <1>2, <2>0, <2>4, <3>3 DEF RunKept, PutAheadOrKept
      <4> QED BY <2>1, <2>4, <4>1
    <3> QED BY <3>2, <3>3
  <2>5. t <= now'
    <3>1. t <= now /\ now \in Nat
      BY <2>1
    <3> QED BY <3>1
  <2> QED BY <2>1, <2>3, <2>4, <2>5 DEF RunOK
<1>3. ASSUME NEW i \in DOMAIN runs, NEW k \in DOMAIN runs, i # k PROVE Apart(i, k)'
  <2>1. Apart(i, k) /\ Apart(k, i)
    BY <1>3 DEF CronInv
  <2>2. /\ Begun(i)' => Begun(i) \/ runs[i].at = "created"
        /\ Begun(k)' => Begun(k) \/ runs[k].at = "created"
        /\ runs'[i].job = runs[i].job /\ runs'[i].slot = runs[i].slot
        /\ runs'[k].job = runs[k].job /\ runs'[k].slot = runs[k].slot
        /\ runs'[i].at = "created" => runs[i].at = "created"
        /\ runs'[k].at = "created" => runs[k].at = "created"
    BY <1>3 DEF RunKept
  <2> QED BY <2>1, <2>2 DEF Apart
<1> QED BY <1>1, <1>2, <1>3 DEF CronInv

\* The table changes, the runs do not.
LEMMA TableSteps ==
    ASSUME CronInv, NEW j \in Jobs, AddJob(j) \/ DeleteJob(j) \/ (\E enabled \in BOOLEAN : ToggleJob(j, enabled))
    PROVE  CronInv'
<1>1. now' = now /\ runs' = runs /\ now \in Nat /\ DOMAIN rows = Jobs /\ runs \in Seq(RunSet)
  BY CronFrame DEF AddJob, DeleteJob, ToggleJob
<1>2. PICK e : /\ rows' = [rows EXCEPT ![j] = e]
               /\ \/ e = [enabled |-> TRUE, next |-> NextTs(j, now), retries |-> 0]
                  \/ e = Deleted
                  \/ Exists(j) /\ \E enabled \in BOOLEAN : e = [rows[j] EXCEPT !.enabled = enabled]
  BY DEF AddJob, DeleteJob, ToggleJob
<1>3. DOMAIN rows' = Jobs /\ rows'[j] = e /\ \A k \in Jobs : k # j => rows'[k] = rows[k]
  BY <1>1, <1>2
<1>4. /\ RowOK(j)'
      /\ PutAheadOrKept(j)
  <2>1. CASE e = [enabled |-> TRUE, next |-> NextTs(j, now), retries |-> 0]
    <3>1. rows'[j].next = NextTs(j, now) /\ RowFields \subseteq DOMAIN rows'[j]
      BY <1>3, <2>1 DEF RowFields
    <3> QED BY <1>1, <3>1, NextIsAhead DEF RowOK, PutAheadOrKept, PutAhead
  <2>2. CASE e = Deleted
    BY <1>3, <2>2 DEF RowOK, Exists, PutAheadOrKept, PutAhead
  <2>3. CASE Exists(j) /\ \E enabled \in BOOLEAN : e = [rows[j] EXCEPT !.enabled = enabled]
    <3>1. RowFields \subseteq DOMAIN rows[j] /\ rows[j].next \in Int /\ (Event[j] # "" => rows[j].next = Never)
      BY <2>3, CronFrame DEF RowOK
    <3>2. e.next = rows[j].next /\ RowFields \subseteq DOMAIN e
      BY <2>3, <3>1 DEF RowFields
    <3> QED BY <1>3, <2>3, <3>1, <3>2 DEF RowOK, PutAheadOrKept
  <2> QED BY <1>2, <2>1, <2>2, <2>3
<1>5. \A k \in Jobs : RowOK(k)'
  BY <1>3, <1>4, CronFrame DEF RowOK, Exists
<1>6. \A k \in Jobs : PutAheadOrKept(k)
  BY <1>3, <1>4 DEF PutAheadOrKept, PutAhead, Exists
<1> QED BY <1>1, <1>3, <1>5, <1>6, CronMove DEF RunKept, Begun

\* What a run may write to the table.
LEMMA AdvancedIs ==
    ASSUME CronInv, NEW j \in Jobs, rows' = Advanced(j), now' = now
    PROVE  /\ DOMAIN rows' = Jobs /\ \A k \in Jobs : RowOK(k)'
           /\ PutAhead(j) /\ \A k \in Jobs : PutAheadOrKept(k)
<1>1. now \in Nat /\ DOMAIN rows = Jobs /\ \A k \in Jobs : RowOK(k)
  BY CronFrame
<1>2. CASE ~Exists(j)
  <2>1. rows' = rows
    BY <1>2 DEF Advanced
  <2> QED BY <1>1, <1>2, <2>1 DEF RowOK, Exists, PutAhead, PutAheadOrKept
<1>3. CASE Exists(j)
  <2> DEFINE e == [rows[j] EXCEPT !.next = NextTs(j, now)]
  <2>1. rows' = [rows EXCEPT ![j] = e]
    BY <1>3 DEF Advanced
  <2>2. RowFields \subseteq DOMAIN rows[j]
    BY <1>1, <1>3 DEF RowOK
  <2>3. e.next = NextTs(j, now) /\ RowFields \subseteq DOMAIN e
    BY <2>2 DEF RowFields
  <2> HIDE DEF e
  <2>4. DOMAIN rows' = Jobs /\ rows'[j] = e /\ \A k \in Jobs : k # j => rows'[k] = rows[k]
    BY <1>1, <2>1
  <2>5. RowOK(j)' /\ PutAhead(j)
    BY <1>1, <2>3, <2>4, NextIsAhead DEF RowOK, PutAhead
  <2> QED BY <1>1, <2>4, <2>5 DEF RowOK, Exists, PutAhead, PutAheadOrKept
<1> QED BY <1>2, <1>3

LEMMA RetriesIs ==
    ASSUME CronInv, NEW j \in Jobs, NEW n, now' = now,
           rows' = IF Exists(j) THEN [rows EXCEPT ![j].retries = n] ELSE rows
    PROVE  /\ DOMAIN rows' = Jobs /\ \A k \in Jobs : RowOK(k)'
           /\ \A k \in Jobs : PutAheadOrKept(k)
<1>1. DOMAIN rows = Jobs /\ \A k \in Jobs : RowOK(k)
  BY CronFrame
<1>2. CASE ~Exists(j)
  BY <1>1, <1>2 DEF RowOK, Exists, PutAhead, PutAheadOrKept
<1>3. CASE Exists(j)
  <2> DEFINE e == [rows[j] EXCEPT !.retries = n]
  <2>1. rows' = [rows EXCEPT ![j] = e]
    BY <1>3
  <2>2. RowFields \subseteq DOMAIN rows[j] /\ rows[j].next \in Int /\ (Event[j] # "" => rows[j].next = Never)
    BY <1>1, <1>3 DEF RowOK
  <2>3. e.next = rows[j].next /\ RowFields \subseteq DOMAIN e
    BY <2>2 DEF RowFields
  <2> HIDE DEF e
  <2>4. DOMAIN rows' = Jobs /\ rows'[j] = e /\ \A k \in Jobs : k # j => rows'[k] = rows[k]
    BY <1>1, <2>1
  <2> QED BY <1>1, <1>3, <2>2, <2>3, <2>4 DEF RowOK, Exists, PutAhead, PutAheadOrKept
<1> QED BY <1>2, <1>3

\* A run goes to its next step.
LEMMA RunChanges ==
    ASSUME runs \in Seq(RunSet), NEW i \in DOMAIN runs, NEW r \in RunSet, runs' = [runs EXCEPT ![i] = r]
    PROVE  /\ runs' \in Seq(RunSet) /\ DOMAIN runs' = DOMAIN runs /\ runs'[i] = r
           /\ \A k \in DOMAIN runs : k # i => runs'[k] = runs[k]
OBVIOUS

LEMMA RunStepsKeep ==
    ASSUME CronInv, NEW i \in DOMAIN runs, RunSteps(i)
    PROVE  CronInv'
<1>1. /\ now' = now /\ now \in Nat /\ DOMAIN rows = Jobs /\ runs \in Seq(RunSet) /\ \A j \in Jobs : RowOK(j)
  BY CronFrame DEF RunSteps, Begin, CallSpawn, SpawnReturns, SpawnRaises, Retry
<1>2. runs[i] \in RunSet /\ runs[i].job \in Jobs /\ runs[i].attempt \in Nat
  BY <1>1, RunIs
<1>3. PICK r : /\ runs' = [runs EXCEPT ![i] = r]
               /\ r \in RunSet /\ r.job = runs[i].job /\ r.slot = runs[i].slot /\ r.at # "created"
               /\ runs[i].at \in {"notifying", "spawning", "sleeping"} \/ (runs[i].at = "created" /\ Begin(i))
  <2>1. PICK st \in RunStages \ {"created"}, n \in Nat : \E q :
            /\ runs' = [runs EXCEPT ![i] = q]
            /\ q = [runs[i] EXCEPT !.at = st] \/ q = [runs[i] EXCEPT !.at = st, !.attempt = n]
            /\ runs[i].at \in {"notifying", "spawning", "sleeping"} \/ (runs[i].at = "created" /\ Begin(i))
    <3>1. CASE Begin(i)
      BY <3>1 DEF Begin, RunStages
    <3>2. CASE CallSpawn(i)
      BY <3>2 DEF CallSpawn, RunStages
    <3>3. CASE SpawnReturns(i)
      BY <3>3 DEF SpawnReturns, RunStages
    <3>4. CASE SpawnRaises(i)
      <4> DEFINE st == IF runs[i].attempt < MaxRetries[runs[i].job] THEN "sleeping" ELSE "ended"
      <4>1. runs' = [runs EXCEPT ![i].at = st] /\ runs[i].at = "spawning"
        BY <3>4 DEF SpawnRaises
      <4>2. st \in RunStages \ {"created"}
        BY DEF RunStages
      <4> HIDE DEF st
      <4> QED BY <4>1, <4>2
    <3>5. CASE Retry(i)
      <4> DEFINE n == runs[i].attempt + 1
                 q == [runs[i] EXCEPT !.at = "notifying", !.attempt = n]
      <4>1. runs' = [runs EXCEPT ![i] = q] /\ runs[i].at = "sleeping"
        BY <1>1, <3>5 DEF Retry
      <4>2. "notifying" \in RunStages \ {"created"} /\ n \in Nat
        BY <1>2 DEF RunStages
      <4>3. q = [runs[i] EXCEPT !.at = "notifying", !.attempt = n]
        OBVIOUS
      <4> HIDE DEF n, q
      <4> QED BY <4>1, <4>2, <4>3
    <3> QED BY <3>1, <3>2, <3>3, <3>4, <3>5 DEF RunSteps
  <2>2. PICK q :
            /\ runs' = [runs EXCEPT ![i] = q]
            /\ q = [runs[i] EXCEPT !.at = st] \/ q = [runs[i] EXCEPT !.at = st, !.attempt = n]
            /\ runs[i].at \in {"notifying", "spawning", "sleeping"} \/ (runs[i].at = "created" /\ Begin(i))
    BY <2>1
  <2>3. q \in RunSet /\ q.job = runs[i].job /\ q.slot = runs[i].slot /\ q.at = st
    <3>1. st \in RunStages
      BY <2>2
    <3>2. PICK r \in RunSet : r = runs[i]
      BY <1>2
    <3>3. q = [r EXCEPT !.at = st] \/ q = [r EXCEPT !.at = st, !.attempt = n]
      BY <2>2, <3>2
    <3>4. q \in RunSet /\ q.job = r.job /\ q.slot = r.slot /\ q.at = st
      BY <3>1, <3>3 DEF RunSet
    <3> QED BY <3>2, <3>4
  <2> QED BY <2>2, <2>3
<1>4. /\ runs' \in Seq(RunSet) /\ DOMAIN runs' = DOMAIN runs /\ runs'[i] = r
      /\ \A k \in DOMAIN runs : k # i => runs'[k] = runs[k]
  BY <1>1, <1>3, RunChanges
<1>5. /\ DOMAIN rows' = Jobs /\ \A k \in Jobs : RowOK(k)' /\ PutAheadOrKept(k)
      /\ Begin(i) => \A j \in Jobs : j = runs[i].job => PutAhead(j)
  <2>1. CASE Begin(i) \/ Retry(i)
    <3>2. PICK j \in Jobs : j = runs[i].job
      BY <1>2
    <3>1. rows' = Advanced(j)
      BY <2>1, <3>2 DEF Begin, Retry
    <3> QED BY <1>1, <3>1, <3>2, AdvancedIs
  <2>2. CASE CallSpawn(i)
    <3>1. rows' = rows /\ runs[i].at = "notifying"
      BY <2>2 DEF CallSpawn
    <3> QED BY <1>1, <3>1, CronFrame DEF Exists, Begin, PutAhead, PutAheadOrKept
  <2>3. CASE SpawnReturns(i) \/ SpawnRaises(i)
    <3>1. PICK n : rows' = IF Exists(runs[i].job) THEN [rows EXCEPT ![runs[i].job].retries = n] ELSE rows
      BY <2>3 DEF SpawnReturns, SpawnRaises
    <3>2. ~Begin(i)
      BY <2>3 DEF SpawnReturns, SpawnRaises, Begin
    <3> QED BY <1>1, <1>2, <3>1, <3>2, RetriesIs
  <2> QED BY <2>1, <2>2, <2>3 DEF RunSteps
<1>6. ASSUME NEW k \in DOMAIN runs PROVE RunKept(k)
  <2>1. CASE k # i
    BY <1>4, <1>6, <2>1 DEF RunKept, Begun
  <2>2. CASE k = i
    BY <1>3, <1>4, <1>5, <2>2 DEF RunKept, Begun
  <2> QED BY <2>1, <2>2
<1> QED BY <1>1, <1>4, <1>5, <1>6, CronMove

LEMMA StopStep ==
    ASSUME CronInv, GatewayStops
    PROVE  CronInv'
<1>1. /\ now' = now /\ rows' = rows /\ now \in Nat /\ DOMAIN rows = Jobs /\ runs \in Seq(RunSet)
      /\ (\A j \in Jobs : RowOK(j)')
      /\ runs' = [k \in DOMAIN runs |-> [runs[k] EXCEPT !.at = Stopped(@)]]
  BY CronFrame DEF GatewayStops
<1>2. \A st \in RunStages : /\ Stopped(st) \in RunStages /\ Stopped(st) # "created"
                            /\ Stopped(st) # "dropped" => st \notin {"created", "dropped"}
  BY DEF Stopped, RunStages
<1>3. ASSUME NEW k \in DOMAIN runs
      PROVE  /\ runs'[k] \in RunSet /\ runs'[k].job = runs[k].job /\ runs'[k].slot = runs[k].slot
             /\ runs'[k].at # "created" /\ (Begun(k)' => Begun(k))
  <2>1. runs[k] \in RunSet /\ runs'[k] = [runs[k] EXCEPT !.at = Stopped(runs[k].at)]
    BY <1>1, <1>3
  <2> DEFINE st == Stopped(runs[k].at)
             q == [runs[k] EXCEPT !.at = st]
  <2>2. st \in RunStages /\ st # "created" /\ (st # "dropped" => runs[k].at \notin {"created", "dropped"})
    BY <1>2, <2>1 DEF RunSet
  <2> HIDE DEF st
  <2>3. q \in RunSet /\ q.job = runs[k].job /\ q.slot = runs[k].slot /\ q.at = st
    BY <2>1, <2>2 DEF RunSet
  <2>4. runs'[k] = q
    BY <2>1 DEF st
  <2> HIDE DEF q
  <2> QED BY <2>2, <2>3, <2>4 DEF Begun
<1>4. DOMAIN runs' = DOMAIN runs /\ runs' \in Seq(RunSet)
  <2>1. DOMAIN runs' = 1..Len(runs) /\ Len(runs) \in Nat /\ DOMAIN runs = 1..Len(runs)
    BY <1>1
  <2>2. runs' \in [1..Len(runs) -> RunSet]
    <3>1. runs' = [k \in DOMAIN runs' |-> runs'[k]]
      BY <1>1
    <3>2. \A k \in 1..Len(runs) : runs'[k] \in RunSet
      BY <1>3, <2>1
    <3> QED BY <2>1, <3>1, <3>2
  <2> QED BY <2>1, <2>2
<1> QED BY <1>1, <1>3, <1>4, CronMove DEF Exists, PutAheadOrKept, PutAhead, RunKept

LEMMA StartSteps ==
    ASSUME CronInv, Tick \/ FireSystemEvent("connect") \/ GatewayStarts
    PROVE  CronInv'
<1>1. CASE Tick
  BY <1>1, StartMove DEF Tick, Due
<1>2. ASSUME NEW e, e # "", runs' = Started(Listening(e)), UNCHANGED <<now, rows>> PROVE CronInv'
  <2>1. \A j \in Listening(e) : Exists(j) /\ rows[j].next = Never
    BY <1>2, CronFrame DEF Listening, RowOK
  <2>2. Listening(e) \subseteq Jobs
    BY DEF Listening
  <2> QED BY <1>2, <2>1, <2>2, StartMove
<1> QED BY <1>1, <1>2 DEF FireSystemEvent, GatewayStarts

LEMMA CronStart ==
    ASSUME CronInit
    PROVE  CronInv
<1>1. runs \in Seq(RunSet) /\ DOMAIN runs = {}
  BY DEF CronInit
<1>2. \A j \in Jobs : ~Exists(j)
  BY DEF CronInit, Exists
<1> QED BY <1>1, <1>2 DEF CronInit, CronInv, CronTypeOK, RowOK

LEMMA CronStep ==
    ASSUME CronInv, [CronNext]_cronVars
    PROVE  CronInv'
<1>1. CASE UNCHANGED cronVars
  <2>1. now' = now /\ rows' = rows /\ runs' = runs
    BY <1>1 DEF cronVars
  <2>2. now' \in Nat /\ DOMAIN rows' = Jobs /\ runs' \in Seq(RunSet) /\ \A j \in Jobs : RowOK(j)'
    BY <2>1, CronFrame
  <2> QED BY <2>1, <2>2, CronMove DEF Begun, Exists, PutAheadOrKept, PutAhead, RunKept
<1>2. CASE CronTimePasses
  <2>1. now' = now + 1 /\ rows' = rows /\ runs' = runs
    BY <1>2 DEF CronTimePasses
  <2>2. now' \in Nat /\ DOMAIN rows' = Jobs /\ runs' \in Seq(RunSet) /\ \A j \in Jobs : RowOK(j)'
    BY <2>1, CronFrame
  <2> QED BY <2>1, <2>2, CronMove DEF Begun, Exists, PutAheadOrKept, PutAhead, RunKept
<1> QED BY <1>1, <1>2, TableSteps, RunStepsKeep, StopStep, StartSteps DEF CronNext

\* Every occurrence of a job is worked on by one run at most, retries included, whatever the clock,
\* the users and the crashes do (cron/scheduler.py, _tick and _run_job).
THEOREM OccurrencesAlwaysRunOnce == CronSpec => []OccurrencesRunOnce
<1>1. CronInit => CronInv
  BY CronStart
<1>2. CronInv /\ [CronNext]_cronVars => CronInv'
  BY CronStep
<1>3. CronInv => OccurrencesRunOnce
  BY DEF CronInv, OccurrencesRunOnce, Apart
<1> QED BY <1>1, <1>2, <1>3, PTL DEF CronSpec

-----------------------------------------------------------------------------
(* AuditLog: until calls overlap, readers get every entry of the file.     *)

CallFields == {"at", "writes", "line", "offset", "tx"}
Working == {"number", "append", "select"}

\* The entries among the first n lines of a file, and a database that holds just these.
EntriesTo(f, n) == {[line |-> i, entry |-> f[i]] : i \in {j \in 1..n : f[j] # Junk}}
HoldsTo(f, db, n) == db.rows = EntriesTo(f, n) /\ db.line = n /\ db.offset = n

\* What is committed is up to some line of the file.
CatalogOK == catalog.offset \in 0..Len(file) /\ HoldsTo(file, catalog, catalog.offset)

\* What a call that is alone knows, at each of its steps.
CallOK(p) ==
    /\ call[p].at \in {"idle", "offset", "file", "catch_up"} => lock # p
    /\ call[p].at \in {"offset", "file", "catch_up"} => call[p].line = catalog.line
    /\ call[p].at \in {"file", "catch_up"} => call[p].offset = catalog.offset
    /\ call[p].at \in Working => HoldsTo(file, Seen(p), Len(file))
    /\ call[p].at = "append" => call[p].line = Len(file) + 1
    /\ call[p].at = "insert" =>
          /\ Len(file) > 0 /\ file[Len(file)] # Junk
          /\ HoldsTo(file, Seen(p), Len(file) - 1)
          /\ call[p].line = Len(file) /\ call[p].offset = Len(file)
    /\ call[p].at = "commit" => HoldsTo(file, call[p].tx, Len(file))

AuditTypeOK ==
    /\ file \in Seq(Nat \cup {Junk})
    /\ DOMAIN call = Processes /\ \A p \in Processes : CallFields \subseteq DOMAIN call[p]
    /\ lock \in Processes \cup {NoProcess} /\ crowded \in BOOLEAN

OneCall == \A p, q \in Processes : p # q => At(p, "idle") \/ At(q, "idle")

AuditInv == AuditTypeOK /\ (~crowded => OneCall /\ CatalogOK /\ \A p \in Processes : CallOK(p))

\* The lines a catch-up adds are new.
LEMMA CatchUpHolds ==
    ASSUME NEW n \in Nat, n <= Len(file), file \in Seq(Nat \cup {Junk}), HoldsTo(file, catalog, n)
    PROVE  HoldsTo(file, CaughtUp(n, n), Len(file))
<1> DEFINE m == Len(file)
           new == {i \in n + 1..m : file[i] # Junk}
           added == {[line |-> n + i - n, entry |-> file[i]] : i \in new}
<1>1. m \in Nat /\ n <= m
  OBVIOUS
<1>2. CaughtUp(n, n) = [rows |-> Inserted(catalog.rows, added), line |-> n + m - n, offset |-> m]
  BY DEF CaughtUp
<1> HIDE DEF m
<1>3. added = {[line |-> i, entry |-> file[i]] : i \in new}
  BY <1>1
<1>4. catalog.rows = EntriesTo(file, n)
  BY DEF HoldsTo
<1>5. \A r \in added, q \in catalog.rows : q.line # r.line
  BY <1>1, <1>3, <1>4 DEF EntriesTo
<1>6. Inserted(catalog.rows, added) = catalog.rows \cup added
  <2> HIDE DEF added
  <2> QED BY <1>5 DEF Inserted
<1>7. {j \in 1..m : file[j] # Junk} = {j \in 1..n : file[j] # Junk} \cup new
  BY <1>1
<1>8. catalog.rows \cup added = EntriesTo(file, m)
  <2> HIDE DEF new
  <2> QED BY <1>3, <1>4, <1>7 DEF EntriesTo
<1>9. n + m - n = m
  BY <1>1
<1> HIDE DEF added
<1> QED BY <1>2, <1>6, <1>8, <1>9 DEF HoldsTo, m

\* The line a call has written itself is the next one.
LEMMA RecordHolds ==
    ASSUME file \in Seq(Nat \cup {Junk}), Len(file) > 0, file[Len(file)] # Junk,
           NEW db, HoldsTo(file, db, Len(file) - 1)
    PROVE  HoldsTo(file, Recorded(db, Len(file), Len(file)), Len(file))
<1> DEFINE m == Len(file)
           e == [line |-> m, entry |-> file[m]]
<1>1. m \in Nat /\ m > 0 /\ file[m] # Junk
  OBVIOUS
<1>2. db.rows = EntriesTo(file, m - 1)
  BY DEF HoldsTo
<1>3. Recorded(db, m, m) = [rows |-> Inserted(db.rows, {e}), line |-> m, offset |-> m]
  BY DEF Recorded
<1> HIDE DEF m
<1>4. \A q \in db.rows : q.line # e.line
  BY <1>1, <1>2 DEF EntriesTo
<1>5. Inserted(db.rows, {e}) = db.rows \cup {e}
  <2> HIDE DEF e
  <2> QED BY <1>4 DEF Inserted
<1>6. {j \in 1..m : file[j] # Junk} = {j \in 1..m - 1 : file[j] # Junk} \cup {m}
  BY <1>1
<1>7. db.rows \cup {e} = EntriesTo(file, m)
  <2> DEFINE A == {j \in 1..m - 1 : file[j] # Junk}
             B == {j \in 1..m : file[j] # Junk}
             R(S) == {[line |-> i, entry |-> file[i]] : i \in S}
  <2>1. B = A \cup {m}
    BY <1>6
  <2>2. EntriesTo(file, m) = R(B) /\ EntriesTo(file, m - 1) = R(A)
    BY DEF EntriesTo
  <2> HIDE DEF A, B
  <2>3. R(A \cup {m}) = R(A) \cup {e}
    OBVIOUS
  <2> HIDE DEF R, e
  <2> QED BY <1>2, <2>1, <2>2, <2>3
<1> HIDE DEF e
<1>8. HoldsTo(file, Recorded(db, m, m), m)
  <2> DEFINE r == Recorded(db, m, m)
  <2>1. r.rows = Inserted(db.rows, {e}) /\ r.line = m /\ r.offset = m
    BY <1>3
  <2>2. r.rows = EntriesTo(file, m)
    BY <2>1, <1>5, <1>7
  <2> HIDE DEF r
  <2>3. HoldsTo(file, r, m)
    BY <2>1, <2>2 DEF HoldsTo
  <2> QED BY <2>3 DEF r
<1> QED BY <1>8 DEF m

\* A file that grows keeps its lines.
LEMMA FileGrows ==
    ASSUME file \in Seq(Nat \cup {Junk}), NEW e \in Nat
    PROVE  /\ Append(file, e) \in Seq(Nat \cup {Junk}) /\ Len(Append(file, e)) = Len(file) + 1
           /\ Append(file, e)[Len(file) + 1] # Junk
           /\ \A n \in 0..Len(file) : \A db : HoldsTo(file, db, n) => HoldsTo(Append(file, e), db, n)
<1> DEFINE f == Append(file, e)
<1>1. /\ f \in Seq(Nat \cup {Junk}) /\ Len(f) = Len(file) + 1 /\ f[Len(file) + 1] = e
      /\ \A i \in 1..Len(file) : f[i] = file[i]
  BY AppendProperties
<1>2. ASSUME NEW n \in 0..Len(file) PROVE EntriesTo(f, n) = EntriesTo(file, n)
  <2>1. \A i \in 1..n : f[i] = file[i]
    BY <1>1
  <2> HIDE DEF f
  <2>2. {j \in 1..n : f[j] # Junk} = {j \in 1..n : file[j] # Junk}
    BY <2>1
  <2>3. \A i \in {j \in 1..n : file[j] # Junk} : f[i] = file[i]
    BY <2>1
  <2> QED BY <2>2, <2>3 DEF EntriesTo
<1> HIDE DEF f
<1> QED BY <1>1, <1>2, AuditAssumption DEF HoldsTo, f

\* One call moves while all others are idle.
LEMMA CallMoves ==
    ASSUME AuditInv, NEW p \in Processes, NEW c, CallFields \subseteq DOMAIN c, Goes(p, c),
           file' \in Seq(Nat \cup {Junk}), lock' \in {NoProcess, p, lock}, crowded' \in BOOLEAN,
           crowded => crowded',
           ~crowded' => /\ \A q \in Processes : q # p => At(q, "idle")
                        /\ CatalogOK' /\ CallOK(p)'
    PROVE  AuditInv'
<1>1. call'[p] = c /\ \A q \in Processes : q # p => call'[q] = call[q]
  BY DEF Goes, AuditInv, AuditTypeOK
<1>2. AuditTypeOK'
  BY <1>1 DEF Goes, AuditInv, AuditTypeOK
<1>3. ASSUME ~crowded' PROVE OneCall'
  BY <1>1, <1>3 DEF OneCall, At
<1>4. ASSUME ~crowded', NEW q \in Processes, q # p PROVE CallOK(q)'
  <2>1. ~crowded /\ call'[q].at = "idle" /\ call[q].at = "idle"
    BY <1>1, <1>4 DEF At
  <2>2. lock # q
    BY <2>1 DEF AuditInv, CallOK
  <2>3. lock' # q
    BY <2>2, <1>4, AuditAssumption
  <2> QED BY <2>1, <2>3 DEF CallOK, Working
<1> QED BY <1>2, <1>3, <1>4 DEF AuditInv

\* What a process that is in a call knows, when nobody else is.
LEMMA CallIs ==
    ASSUME AuditInv, NEW p \in Processes, ~At(p, "idle"), ~crowded
    PROVE  /\ \A q \in Processes : q # p => At(q, "idle")
           /\ CatalogOK /\ CallOK(p) /\ lock \in {NoProcess, p}
BY DEF AuditInv, AuditTypeOK, OneCall, CallOK, At

LEMMA AuditStart ==
    ASSUME AuditInit
    PROVE  AuditInv
<1>1. file \in Seq(Nat \cup {Junk})
  <2>1. << >> \in Seq(Nat \cup {Junk}) /\ <<0>> \in Seq(Nat \cup {Junk})
    OBVIOUS
  <2>2. <<Junk, 0>> \in Seq(Nat \cup {Junk})
    OBVIOUS
  <2> QED BY <2>1, <2>2 DEF AuditInit
<1>2. AuditTypeOK
  BY <1>1 DEF AuditInit, AuditTypeOK, NoCall, CallFields
<1>3. OneCall
  BY DEF AuditInit, OneCall, At, NoCall
<1>4. CatalogOK
  <2>1. Len(file) \in Nat
    BY <1>1
  <2>2. EntriesTo(file, 0) = {}
    BY DEF EntriesTo
  <2> QED BY <2>1, <2>2 DEF AuditInit, CatalogOK, HoldsTo, Empty
<1>5. \A p \in Processes : CallOK(p)
  BY AuditAssumption DEF AuditInit, CallOK, NoCall, Working
<1> QED BY <1>2, <1>3, <1>4, <1>5 DEF AuditInv

\* The steps that only look: the database, the file and the lock stay as they are.
LEMMA LookSteps ==
    ASSUME AuditInv, NEW p \in Processes,
           \/ \E writes \in BOOLEAN : BeginCall(p, writes)
           \/ ReadOffset(p) \/ ReadFile(p) \/ NextNumber(p)
    PROVE  AuditInv'
<1>1. /\ UNCHANGED <<file, catalog, lock>> /\ crowded' \in BOOLEAN /\ (crowded => crowded')
      /\ file \in Seq(Nat \cup {Junk}) /\ DOMAIN call = Processes /\ CallFields \subseteq DOMAIN call[p]
  BY DEF BeginCall, ReadOffset, ReadFile, NextNumber, AuditInv, AuditTypeOK
<1>2. CatalogOK => CatalogOK'
  BY <1>1 DEF CatalogOK
<1>3. ASSUME NEW writes \in BOOLEAN, BeginCall(p, writes) PROVE AuditInv'
  <2> DEFINE c == [NoCall EXCEPT !.at = "offset", !.writes = writes, !.line = catalog.line]
  <2>1. Goes(p, c) /\ CallFields \subseteq DOMAIN c /\ c.at = "offset" /\ c.line = catalog.line
    BY <1>3 DEF BeginCall, NoCall, CallFields
  <2> HIDE DEF c
  <2>2. call'[p] = c
    BY <1>1, <2>1 DEF Goes
  <2>3. ASSUME ~crowded' PROVE (\A q \in Processes : At(q, "idle")) /\ CatalogOK /\ CallOK(p)
    BY <1>3, <2>3 DEF BeginCall, AuditInv, AuditTypeOK
  <2>4. ASSUME ~crowded' PROVE CallOK(p)'
    BY <1>1, <2>1, <2>2, <2>3, <2>4 DEF CallOK, At, Working
  <2> QED BY <1>1, <1>2, <2>1, <2>3, <2>4, CallMoves
<1>4. ASSUME ReadOffset(p) PROVE AuditInv'
  <2> DEFINE c == [call[p] EXCEPT !.at = "file", !.offset = catalog.offset]
  <2>1. Goes(p, c) /\ CallFields \subseteq DOMAIN c /\ c.at = "file" /\ c.line = call[p].line /\ c.offset = catalog.offset
    BY <1>1, <1>4 DEF ReadOffset, CallFields
  <2> HIDE DEF c
  <2>2. call'[p] = c /\ crowded' = crowded /\ call[p].at = "offset" /\ ~At(p, "idle")
    BY <1>1, <1>4, <2>1 DEF Goes, ReadOffset, At
  <2>4. ASSUME ~crowded' PROVE (\A q \in Processes : q # p => At(q, "idle")) /\ CatalogOK /\ CallOK(p)'
    BY <1>1, <2>1, <2>2, <2>4, CallIs DEF CallOK, Working
  <2> QED BY <1>1, <1>2, <2>1, <2>4, CallMoves
<1>5. ASSUME ReadFile(p) PROVE AuditInv'
  <2> DEFINE st == IF Len(file) > call[p].offset THEN "catch_up" ELSE IF call[p].writes THEN "number" ELSE "select"
             c == [call[p] EXCEPT !.at = st]
  <2>1. Goes(p, c) /\ CallFields \subseteq DOMAIN c /\ c.at = st /\ c.line = call[p].line /\ c.offset = call[p].offset
    BY <1>1, <1>5 DEF ReadFile, CallFields
  <2> HIDE DEF c
  <2>2. call'[p] = c /\ crowded' = crowded /\ call[p].at = "file" /\ ~At(p, "idle")
    BY <1>1, <1>5, <2>1 DEF Goes, ReadFile, At
  <2>3. ASSUME ~crowded' PROVE /\ (\A q \in Processes : q # p => At(q, "idle")) /\ CatalogOK
                              /\ lock # p /\ c.line = catalog.line /\ c.offset = catalog.offset
    BY <1>1, <2>1, <2>2, <2>3, CallIs DEF CallOK
  <2>4. ASSUME ~crowded', st # "catch_up" PROVE HoldsTo(file, catalog, Len(file))
    <3>1. Len(file) \in Nat /\ catalog.offset \in 0..Len(file) /\ ~(Len(file) > catalog.offset)
      BY <1>1, <2>1, <2>3, <2>4 DEF CatalogOK
    <3>2. catalog.offset = Len(file)
      BY <3>1
    <3> QED BY <2>3, <2>4, <3>2 DEF CatalogOK
  <2>5. st \in {"catch_up", "number", "select"}
    OBVIOUS
  <2> HIDE DEF st
  <2>6. ASSUME ~crowded' PROVE CallOK(p)'
    BY <1>1, <2>1, <2>2, <2>3, <2>4, <2>5, <2>6 DEF CallOK, Working, Seen
  <2> QED BY <1>1, <1>2, <2>1, <2>3, <2>6, CallMoves
<1>6. ASSUME NextNumber(p) PROVE AuditInv'
  <2> DEFINE c == [call[p] EXCEPT !.at = "append", !.line = Seen(p).line + 1]
  <2>1. Goes(p, c) /\ CallFields \subseteq DOMAIN c /\ c.at = "append" /\ c.line = Seen(p).line + 1 /\ c.tx = call[p].tx
    BY <1>1, <1>6 DEF NextNumber, CallFields
  <2> HIDE DEF c
  <2>2. call'[p] = c /\ crowded' = crowded /\ call[p].at = "number" /\ ~At(p, "idle")
    BY <1>1, <1>6, <2>1 DEF Goes, NextNumber, At
  <2>3. ASSUME ~crowded' PROVE /\ (\A q \in Processes : q # p => At(q, "idle")) /\ CatalogOK
                              /\ HoldsTo(file, Seen(p), Len(file))
    BY <1>1, <2>1, <2>2, <2>3, CallIs DEF CallOK, Working
  <2>4. Seen(p)' = Seen(p)
    BY <1>1, <2>1, <2>2 DEF Seen
  <2>5. ASSUME ~crowded' PROVE CallOK(p)'
    <3>1. HoldsTo(file, Seen(p), Len(file))' /\ c.line = Len(file') + 1
      BY <1>1, <2>1, <2>3, <2>4, <2>5 DEF HoldsTo
    <3> QED BY <2>1, <2>2, <3>1 DEF CallOK, Working
  <2> QED BY <1>1, <1>2, <2>1, <2>3, <2>5, CallMoves
<1> QED BY <1>3, <1>4, <1>5, <1>6

\* The steps that write: the first takes the transaction, the second the file.
LEMMA CatchUpStep ==
    ASSUME AuditInv, NEW p \in Processes, CatchUp(p)
    PROVE  AuditInv'
<1> DEFINE st == IF call[p].writes THEN "number" ELSE "select"
           tx == CaughtUp(call[p].line, call[p].offset)
           c == [call[p] EXCEPT !.at = st, !.tx = tx]
<1>1. /\ UNCHANGED <<file, catalog, crowded>> /\ lock' = p /\ call[p].at = "catch_up" /\ ~At(p, "idle")
      /\ file \in Seq(Nat \cup {Junk}) /\ DOMAIN call = Processes /\ CallFields \subseteq DOMAIN call[p]
      /\ crowded \in BOOLEAN
  BY DEF CatchUp, AuditInv, AuditTypeOK, At
<1>2. Goes(p, c) /\ CallFields \subseteq DOMAIN c /\ c.at = st /\ c.tx = tx
  BY <1>1 DEF CatchUp, CallFields
<1>3. st \in {"number", "select"}
  OBVIOUS
<1> HIDE DEF c, st
<1>4. call'[p] = c
  BY <1>1, <1>2 DEF Goes
<1>5. ASSUME ~crowded PROVE HoldsTo(file, tx, Len(file))
  <2>1. CatalogOK /\ call[p].line = catalog.line /\ call[p].offset = catalog.offset
    BY <1>1, <1>5, CallIs DEF CallOK
  <2>2. catalog.line = catalog.offset
    BY <2>1 DEF CatalogOK, HoldsTo
  <2>3. Len(file) \in Nat /\ catalog.offset \in Nat /\ catalog.offset <= Len(file)
    BY <1>1, <2>1 DEF CatalogOK
  <2> QED BY <1>1, <2>1, <2>2, <2>3, CatchUpHolds DEF CatalogOK
<1> HIDE DEF tx
<1>6. ASSUME ~crowded' PROVE CallOK(p)'
  <2>1. HoldsTo(file, Seen(p), Len(file))'
    BY <1>1, <1>2, <1>4, <1>5, <1>6 DEF Seen
  <2> QED BY <1>2, <1>3, <1>4, <2>1 DEF CallOK, Working
<1>7. ASSUME ~crowded' PROVE (\A q \in Processes : q # p => At(q, "idle")) /\ CatalogOK'
  BY <1>1, <1>7, CallIs DEF CatalogOK
<1> QED BY <1>1, <1>2, <1>6, <1>7, CallMoves

LEMMA AppendLineStep ==
    ASSUME AuditInv, NEW p \in Processes, AppendLine(p)
    PROVE  AuditInv'
<1> DEFINE e == Len(file) + 1
           c == [call[p] EXCEPT !.at = "insert", !.offset = Len(file')]
<1>1. /\ UNCHANGED <<catalog, lock, crowded>> /\ call[p].at = "append" /\ ~At(p, "idle") /\ file' = Append(file, e)
      /\ file \in Seq(Nat \cup {Junk}) /\ DOMAIN call = Processes /\ CallFields \subseteq DOMAIN call[p]
      /\ crowded \in BOOLEAN
  BY DEF AppendLine, AuditInv, AuditTypeOK, At
<1>2. Goes(p, c) /\ CallFields \subseteq DOMAIN c /\ c.at = "insert" /\ c.offset = Len(file') /\ c.line = call[p].line /\ c.tx = call[p].tx
  BY <1>1 DEF AppendLine, CallFields
<1> HIDE DEF c
<1>3. call'[p] = c
  BY <1>1, <1>2 DEF Goes
<1>4. Len(file) \in Nat /\ e \in Nat
  BY <1>1
<1>5. /\ file' \in Seq(Nat \cup {Junk}) /\ Len(file') = Len(file) + 1 /\ file'[Len(file) + 1] # Junk
      /\ \A n \in 0..Len(file) : \A db : HoldsTo(file, db, n) => HoldsTo(file', db, n)
  <2> HIDE DEF e
  <2> QED BY <1>1, <1>4, FileGrows
<1>6. Seen(p)' = Seen(p)
  BY <1>1, <1>2, <1>3 DEF Seen
<1>7. ASSUME ~crowded' PROVE (\A q \in Processes : q # p => At(q, "idle")) /\ CatalogOK'
  <2>1. (\A q \in Processes : q # p => At(q, "idle")) /\ CatalogOK
    BY <1>1, <1>7, CallIs
  <2>2. HoldsTo(file', catalog, catalog.offset) /\ catalog.offset \in 0..Len(file')
    BY <1>4, <1>5, <2>1 DEF CatalogOK
  <2> QED BY <1>1, <2>1, <2>2 DEF CatalogOK
<1>8. ASSUME ~crowded' PROVE CallOK(p)'
  <2>1. HoldsTo(file, Seen(p), Len(file)) /\ call[p].line = Len(file) + 1
    BY <1>1, <1>8, CallIs DEF CallOK, Working
  <2>2. HoldsTo(file', Seen(p), Len(file))
    BY <1>4, <1>5, <2>1
  <2>3. Len(file') - 1 = Len(file) /\ Len(file') > 0 /\ file'[Len(file')] # Junk
    BY <1>4, <1>5
  <2>4. HoldsTo(file', Seen(p)', Len(file') - 1)
    BY <2>2, <2>3, <1>6
  <2> QED BY <1>2, <1>3, <1>5, <2>1, <2>3, <2>4 DEF CallOK, Working
<1> QED BY <1>1, <1>2, <1>5, <1>7, <1>8, CallMoves

LEMMA InsertLineStep ==
    ASSUME AuditInv, NEW p \in Processes, InsertLine(p)
    PROVE  AuditInv'
<1> DEFINE tx == Recorded(Seen(p), call[p].line, call[p].offset)
           c == [call[p] EXCEPT !.at = "commit", !.tx = tx]
<1>1. /\ UNCHANGED <<file, catalog, crowded>> /\ lock' = p /\ call[p].at = "insert" /\ ~At(p, "idle")
      /\ file \in Seq(Nat \cup {Junk}) /\ DOMAIN call = Processes /\ CallFields \subseteq DOMAIN call[p]
      /\ crowded \in BOOLEAN
  BY DEF InsertLine, AuditInv, AuditTypeOK, At
<1>2. Goes(p, c) /\ CallFields \subseteq DOMAIN c /\ c.at = "commit" /\ c.tx = tx
  BY <1>1 DEF InsertLine, CallFields
<1> HIDE DEF c
<1>3. call'[p] = c
  BY <1>1, <1>2 DEF Goes
<1>4. ASSUME ~crowded PROVE HoldsTo(file, tx, Len(file))
  BY <1>1, <1>4, CallIs, RecordHolds DEF CallOK
<1> HIDE DEF tx
<1>5. ASSUME ~crowded' PROVE CallOK(p)'
  BY <1>1, <1>2, <1>3, <1>4, <1>5 DEF CallOK, Working
<1>6. ASSUME ~crowded' PROVE (\A q \in Processes : q # p => At(q, "idle")) /\ CatalogOK'
  BY <1>1, <1>6, CallIs DEF CatalogOK
<1> QED BY <1>1, <1>2, <1>5, <1>6, CallMoves

\* The ends of a call: its transaction is committed, or dropped.
LEMMA EndSteps ==
    ASSUME AuditInv, NEW p \in Processes, Commit(p) \/ Answer(p) \/ GiveUp(p) \/ Die(p)
    PROVE  AuditInv'
<1>1. /\ UNCHANGED <<file, crowded>> /\ ~At(p, "idle") /\ Goes(p, NoCall)
      /\ file \in Seq(Nat \cup {Junk}) /\ DOMAIN call = Processes
      /\ crowded \in BOOLEAN
  BY DEF Commit, Answer, GiveUp, Die, AuditInv, AuditTypeOK, At
<1>2. lock' \in {NoProcess, lock} /\ lock' # p
  BY AuditAssumption DEF Commit, Answer, GiveUp, Die
<1>3. CallFields \subseteq DOMAIN NoCall /\ NoCall.at = "idle" /\ call'[p] = NoCall
  BY <1>1 DEF NoCall, CallFields, Goes
<1>4. ASSUME ~crowded' PROVE CatalogOK'
  <2>1. CatalogOK /\ CallOK(p)
    BY <1>1, <1>4, CallIs
  <2>2. \/ catalog' = catalog
        \/ HoldsTo(file, catalog', Len(file))
    BY <2>1 DEF Commit, Answer, GiveUp, Die, CallOK, Working, At
  <2>3. Len(file) \in 0..Len(file)
    BY <1>1
  <2>4. CASE catalog' = catalog
    BY <1>1, <2>1, <2>4 DEF CatalogOK
  <2>5. CASE HoldsTo(file, catalog', Len(file))
    <3>1. catalog'.offset = Len(file)
      BY <2>5 DEF HoldsTo
    <3> QED BY <1>1, <2>3, <2>5, <3>1 DEF CatalogOK
  <2> QED BY <2>2, <2>4, <2>5
<1>5. CallOK(p)'
  BY <1>2, <1>3 DEF CallOK, Working
<1>6. ASSUME ~crowded' PROVE \A q \in Processes : q # p => At(q, "idle")
  BY <1>1, <1>6, CallIs
<1> QED BY <1>1, <1>2, <1>3, <1>4, <1>5, <1>6, CallMoves

LEMMA AuditStep ==
    ASSUME AuditInv, [AuditNext]_auditVars
    PROVE  AuditInv'
<1>1. CASE UNCHANGED auditVars
  BY <1>1 DEF auditVars, AuditInv, AuditTypeOK, OneCall, CatalogOK, CallOK, At, Seen
<1>2. CASE AuditNext
  BY <1>2, LookSteps, CatchUpStep, AppendLineStep, InsertLineStep, EndSteps DEF AuditNext
<1> QED BY <1>1, <1>2

LEMMA AnswersFollow ==
    ASSUME AuditInv
    PROVE  AnswersAreComplete
<1> SUFFICES ASSUME NEW p \in Processes, At(p, "select"), ~crowded
             PROVE  Seen(p).rows = {[line |-> i, entry |-> file[i]] : i \in {j \in DOMAIN file : file[j] # Junk}}
  BY DEF AnswersAreComplete
<1>1. HoldsTo(file, Seen(p), Len(file))
  BY DEF AuditInv, CallOK, At, Working
<1>2. DOMAIN file = 1..Len(file)
  BY DEF AuditInv, AuditTypeOK
<1> QED BY <1>1, <1>2 DEF HoldsTo, EntriesTo

\* A reader is answered every entry of the file, each once and under the number of its line, until
\* two calls have overlapped (_sync_log_to_db and log).
THEOREM AnswersAreAlwaysComplete == AuditSpec => []AnswersAreComplete
<1>1. AuditInit => AuditInv
  BY AuditStart
<1>2. AuditInv /\ [AuditNext]_auditVars => AuditInv'
  BY AuditStep
<1>3. AuditInv => AnswersAreComplete
  BY AnswersFollow
<1> QED BY <1>1, <1>2, <1>3, PTL DEF AuditSpec

-----------------------------------------------------------------------------
(* TaskStore: record, search and timeline agree.                           *)

Told0 == [status |-> "none", artifacts |-> NoValue]
Known == [status : Statuses \cup {"none"}, artifacts : Artifacts]
Events == [type : {"created", "status_changed", "updated", "step"}, status : Statuses, patch : Artifacts]

\* Merging stays among the artifacts, and hearing an event among what can be known.
LEMMA MergedIs ==
    ASSUME NEW old \in Artifacts, NEW new \in Artifacts
    PROVE  Merged(old, new) \in Artifacts
<1>1. CASE IsObject(old) /\ IsObject(new)
  <2>1. old \in [Nested -> Values \cup {NoValue}] /\ new \in [Nested -> Values \cup {NoValue}]
    BY <1>1 DEF Artifacts, IsObject
  <2>2. [k \in Nested |-> IF new[k] = NoValue THEN old[k] ELSE new[k]] \in [Nested -> Values \cup {NoValue}]
    BY <2>1
  <2> QED BY <2>2, <1>1 DEF Merged, Artifacts
<1> QED BY <1>1 DEF Merged

LEMMA HearsIs ==
    ASSUME NEW known \in Known, NEW e \in Events
    PROVE  Hears(known, e) \in Known
<1>1. known.artifacts \in Artifacts /\ e.patch \in Artifacts /\ e.status \in Statuses
  BY DEF Known, Events
<1>2. Merged(known.artifacts, e.patch) \in Artifacts
  BY <1>1, MergedIs
<1> QED BY <1>1, <1>2 DEF Hears, Known

\* The fold over a timeline, as the values it goes through.
HearsF == [p \in Known \X Events |-> Hears(p[1], p[2])]

LEMMA HearingIs ==
    ASSUME NEW list \in Seq(Events)
    PROVE  \E h \in [0..Len(list) -> Known] :
              Trace(h, Told0, HearsF, list) /\ FoldLeft(Hears, Told0, list) = h[Len(list)]
<1> DEFINE N == Len(list)
<1>1. N \in Nat /\ DOMAIN list = 1..N /\ list \in [1..N -> Events]
  OBVIOUS
<1>2. HearsF \in [Known \X Events -> Known] /\ Told0 \in Known
  <2>1. \A p \in Known \X Events : Hears(p[1], p[2]) \in Known
    BY HearsIs
  <2>2. Told0 \in Known
    BY DEF Told0, Known, Artifacts
  <2> QED BY <2>1, <2>2 DEF HearsF
<1>3. \A a \in Known, e \in Events : HearsF[<<a, e>>] = Hears(a, e)
  BY DEF HearsF
<1>4. \E f : f = [s \in SUBSET (DOMAIN list) |-> IF s = {} THEN Told0 ELSE Hears(f[s \ {Max(s)}], list[Max(s)])]
  <2>1. PICK f \in [SUBSET (1..N) -> Known] : Recursion(f, N, Told0, HearsF, list)
    BY <1>1, <1>2, RecursionExists
  <2>2. f = [s \in SUBSET (1..N) |-> IF s = {} THEN Told0 ELSE HearsF[<<f[s \ {Max(s)}], list[Max(s)]>>]]
    BY <2>1 DEF Recursion
  <2>3. ASSUME NEW s \in SUBSET (1..N), s # {}
        PROVE  HearsF[<<f[s \ {Max(s)}], list[Max(s)]>>] = Hears(f[s \ {Max(s)}], list[Max(s)])
    <3>1. Max(s) \in 1..N
      BY <1>1, <2>3, GreatestOf
    <3>2. f[s \ {Max(s)}] \in Known /\ list[Max(s)] \in Events
      BY <1>1, <2>1, <3>1
    <3> QED BY <1>3, <3>2
  <2>4. f = [s \in SUBSET (1..N) |-> IF s = {} THEN Told0 ELSE Hears(f[s \ {Max(s)}], list[Max(s)])]
    BY <2>2, <2>3
  <2> QED BY <1>1, <2>4
<1> DEFINE it == CHOOSE f : f = [s \in SUBSET (DOMAIN list) |->
                                    IF s = {} THEN Told0 ELSE Hears(f[s \ {Max(s)}], list[Max(s)])]
<1>5. it = [s \in SUBSET (DOMAIN list) |-> IF s = {} THEN Told0 ELSE Hears(it[s \ {Max(s)}], list[Max(s)])]
  BY <1>4
<1>6. FoldLeft(Hears, Told0, list) = it[DOMAIN list]
  BY DEF FoldLeft, MapThenFoldSet
<1> HIDE DEF it
<1>7. it[{}] = Told0
  BY <1>5
<1>8. ASSUME NEW k \in 1..Len(list), it[1..k - 1] \in Known PROVE it[1..k] = HearsF[<<it[1..k - 1], list[k]>>]
  <2>1. k \in Nat /\ k # 0 /\ list[k] \in Events /\ 1..k \in SUBSET (DOMAIN list)
    BY <1>1
  <2>2. Max(1..k) = k /\ (1..k) \ {k} = 1..k - 1 /\ 1..k # {}
    BY <2>1, IntervalTop
  <2>3. it[1..k] = Hears(it[(1..k) \ {Max(1..k)}], list[Max(1..k)])
    BY <1>5, <2>1, <2>2
  <2> QED BY <1>3, <1>8, <2>1, <2>2, <2>3
<1>9. Solves(it, Known, Told0, HearsF, list) /\ FoldTypes(Known, Events, Told0, HearsF, list)
  BY <1>2, <1>7, <1>8 DEF Solves, FoldTypes
<1>10. \E h \in [0..Len(list) -> Known] : Trace(h, Told0, HearsF, list) /\ h[Len(list)] = it[1..Len(list)]
  BY <1>9, RecursionHasTrace
<1> QED BY <1>1, <1>6, <1>10

\* What the events of a list tell.
Heard(list) == FoldLeft(Hears, Told0, list)

\* One more event is heard last.
LEMMA OneMoreIsHeard ==
    ASSUME NEW list \in Seq(Events), NEW e \in Events
    PROVE  Heard(Append(list, e)) = Hears(Heard(list), e)
<1> DEFINE more == Append(list, e)
           n == Len(list)
<1>1. more \in Seq(Events) /\ Len(more) = n + 1 /\ n \in Nat /\ more[n + 1] = e
      /\ \A k \in 1..n : list[k] = more[k]
  BY AppendProperties
<1>2. PICK h \in [0..n -> Known] : Trace(h, Told0, HearsF, list) /\ Heard(list) = h[n]
  BY HearingIs DEF Heard
<1> HIDE DEF more
<1>3. PICK g \in [0..Len(more) -> Known] :
          Trace(g, Told0, HearsF, more) /\ Heard(more) = g[Len(more)]
  BY <1>1, HearingIs DEF Heard
<1> HIDE DEF n
<1>4. \A k \in 0..n : h[k] = g[k]
  BY <1>1, <1>2, <1>3, TracesAgree DEF n
<1>5. g[n + 1] = HearsF[<<g[n], e>>]
  <2>1. n + 1 \in 1..Len(more) /\ (n + 1) - 1 = n
    BY <1>1
  <2> QED BY <1>1, <1>3, <2>1 DEF Trace
<1>6. h[n] = g[n] /\ h[n] \in Known
  BY <1>1, <1>2, <1>4
<1> QED BY <1>1, <1>2, <1>3, <1>5, <1>6 DEF HearsF, more

LEMMA NothingIsHeard == Heard(<< >>) = Told0
<1>1. << >> \in Seq(Events) /\ Len(<< >>) = 0
  OBVIOUS
<1>2. PICK h : Trace(h, Told0, HearsF, << >>) /\ Heard(<< >>) = h[0]
  BY <1>1, HearingIs DEF Heard
<1> QED BY <1>2 DEF Trace

\* The parts of the invariant.  A text is that of the record or of nobody, and while the store is open
\* it is there; only records are indexed; the timeline of a record tells it, of no record nothing.
TaskTypeOK ==
    /\ row \in [Tasks -> Rows \cup {NoTask}] /\ index \in [Tasks -> Documents \cup {NoText}]
    /\ fts \in BOOLEAN /\ up \in BOOLEAN /\ timeline \in [Tasks -> Seq(Events)]

TextsAreOwn ==
    \A t \in Tasks :
        /\ row[t] = NoTask \/ ~fts => index[t] = NoText
        /\ row[t] # NoTask => row[t].text \in {NoText, Document(row[t])} /\ index[t] \in {NoText, Document(row[t])}

OpenIsFound ==
    up => \A t \in Stored(row) : row[t].text = Document(row[t]) /\ (fts => index[t] = Document(row[t]))

TimelineTells ==
    \A t \in Tasks :
        /\ row[t] = NoTask => timeline[t] = << >>
        /\ row[t] # NoTask => Told(t) = Document(row[t]) /\ (row[t].status \in EndedStatuses => row[t].ended)

TaskInv == TaskTypeOK /\ TextsAreOwn /\ OpenIsFound /\ TimelineTells

LEMMA DocumentIs ==
    ASSUME NEW r \in Rows
    PROVE  Document(r) \in Documents /\ Document(r) # NoText /\ r # NoTask
BY TaskAssumption DEF Document, Documents, Rows

LEMMA LegacyIs == LegacyRow \in Rows /\ Document(LegacyRow) = [status |-> "running", artifacts |-> NoValue]
BY TaskAssumption DEF LegacyRow, Rows, Statuses, Artifacts, Document

LEMMA TaskStarts == TaskInit => TaskInv
<1> SUFFICES ASSUME TaskInit PROVE TaskInv
  OBVIOUS
<1> DEFINE e == [type |-> "created", status |-> "running", patch |-> NoValue]
<1>1. PICK old \in SUBSET Tasks :
          /\ row = [t \in Tasks |-> IF t \in old THEN LegacyRow ELSE NoTask]
          /\ timeline = [t \in Tasks |-> IF t \in old THEN <<e>> ELSE << >>]
  BY DEF TaskInit
<1>2. index = [t \in Tasks |-> NoText] /\ fts \in BOOLEAN /\ up = FALSE
  BY DEF TaskInit
<1>3. e \in Events /\ <<e>> = Append(<< >>, e) /\ << >> \in Seq(Events)
  BY DEF Events, Statuses, Artifacts
<1> HIDE DEF e
<1>4. <<e>> \in Seq(Events)
  BY <1>3
<1>5. TaskTypeOK
  BY <1>1, <1>2, <1>3, <1>4, LegacyIs DEF TaskTypeOK
<1>6. TextsAreOwn
  <2>1. LegacyRow.text = NoText
    BY DEF LegacyRow
  <2> QED BY <1>1, <1>2, <2>1 DEF TextsAreOwn
<1>7. Heard(<<e>>) = [status |-> "running", artifacts |-> NoValue]
  <2>1. Heard(<<e>>) = Hears(Told0, e)
    BY <1>3, OneMoreIsHeard, NothingIsHeard
  <2> QED BY <2>1 DEF Hears, Told0, Merged, e
<1>8. TimelineTells
  <2> SUFFICES ASSUME NEW t \in Tasks
      PROVE  /\ row[t] = NoTask => timeline[t] = << >>
             /\ row[t] # NoTask => Told(t) = Document(row[t]) /\ (row[t].status \in EndedStatuses => row[t].ended)
    BY DEF TimelineTells
  <2>1. LegacyRow # NoTask /\ LegacyRow.status = "running"
    BY LegacyIs, TaskAssumption DEF LegacyRow
  <2>2. CASE t \in old
    BY <1>1, <1>7, <2>1, <2>2, LegacyIs DEF Told, Told0, Heard, EndedStatuses
  <2>3. CASE t \notin old
    BY <1>1, <2>3
  <2> QED BY <2>2, <2>3
<1> QED BY <1>2, <1>5, <1>6, <1>8 DEF TaskInv, OpenIsFound

\* Where the numbers of rows and of indexed texts agree, every row is indexed.
LEMMA CountsSuffice ==
    ASSUME TaskTypeOK, TextsAreOwn, NEW F, F = {t \in Tasks : index[t] # NoText},
           Cardinality(F) = Cardinality(Stored(row))
    PROVE  F = Stored(row)
<1>1. F \subseteq Stored(row) /\ Stored(row) \subseteq Tasks
  BY DEF TextsAreOwn, Stored
<1>2. IsFiniteSet(Stored(row))
  BY <1>1, TaskAssumption, FS_Subset
<1> QED BY <1>1, <1>2, FS_Subset

LEMMA OpenStoreKeeps == ASSUME TaskInv, OpenStore PROVE TaskInv'
<1> DEFINE Texted(r) == [r EXCEPT !.text = Document(r)]
<1>1. row \in [Tasks -> Rows \cup {NoTask}] /\ index \in [Tasks -> Documents \cup {NoText}] /\ TextsAreOwn
  BY DEF TaskInv, TaskTypeOK
<1>2. ASSUME NEW r \in Rows
      PROVE  /\ Texted(r) \in Rows /\ Document(Texted(r)) = Document(r) /\ Texted(r).text = Document(r)
             /\ Texted(r).status = r.status /\ Texted(r).ended = r.ended
  BY <1>2, DocumentIs DEF Rows, Document
<1>3. UNCHANGED <<fts, timeline>> /\ up' = TRUE
  BY DEF OpenStore
<1>4. CASE ShouldRebuild
  <2>1. /\ row' = [t \in Tasks |-> IF row[t] = NoTask THEN NoTask ELSE Texted(row[t])]
        /\ index' = IF fts THEN [t \in Tasks |-> IF row[t] = NoTask THEN NoText ELSE Document(row[t])] ELSE index
    BY <1>4 DEF OpenStore
  <2> HIDE DEF Texted
  <2>2. ASSUME NEW t \in Tasks
        PROVE  /\ row[t] = NoTask => row'[t] = NoTask /\ index'[t] = NoText
               /\ ~fts => index'[t] = NoText
               /\ row[t] # NoTask => /\ row'[t] \in Rows /\ row'[t] # NoTask /\ row'[t].text = Document(row[t])
                                     /\ Document(row'[t]) = Document(row[t])
                                     /\ row'[t].status = row[t].status /\ row'[t].ended = row[t].ended
                                     /\ index'[t] \in {NoText, Document(row[t])}
                                     /\ fts => index'[t] = Document(row[t])
    <3>1. CASE row[t] = NoTask
      BY <1>1, <2>1, <3>1 DEF TextsAreOwn
    <3>2. CASE row[t] # NoTask
      <4>1. row[t] \in Rows
        BY <1>1, <3>2
      <4>2. row'[t] = Texted(row[t]) /\ index'[t] = IF fts THEN Document(row[t]) ELSE index[t]
        BY <2>1, <3>2
      <4>3. index[t] \in {NoText, Document(row[t])} /\ (~fts => index[t] = NoText)
        BY <1>1, <3>2 DEF TextsAreOwn
      <4> QED BY <1>2, <3>2, <4>1, <4>2, <4>3, DocumentIs
    <3> QED BY <3>1, <3>2
  <2>3. TaskTypeOK'
    <3>1. \A t \in Tasks : row[t] # NoTask => Document(row[t]) \in Documents
      BY <1>1, DocumentIs
    <3>2. row' = [t \in Tasks |-> row'[t]] /\ \A t \in Tasks : row'[t] \in Rows \cup {NoTask}
      BY <2>1, <2>2
    <3>3. index' = [t \in Tasks |-> index'[t]]
      BY <1>1, <2>1
    <3>4. \A t \in Tasks : index'[t] \in Documents \cup {NoText}
      BY <2>2, <3>1
    <3> QED BY <1>3, <3>2, <3>3, <3>4 DEF TaskInv, TaskTypeOK
  <2>4. TextsAreOwn' /\ OpenIsFound'
    BY <1>3, <2>2 DEF TextsAreOwn, OpenIsFound, Stored
  <2>5. TimelineTells'
    BY <1>3, <2>2 DEF TaskInv, TimelineTells, Told
  <2> QED BY <2>3, <2>4, <2>5 DEF TaskInv
<1>5. CASE ~ShouldRebuild
  <2>1. UNCHANGED <<row, index>>
    BY <1>5 DEF OpenStore
  <2>2. ASSUME NEW t \in Stored(row) PROVE row[t].text # NoText /\ (fts => index[t] # NoText)
    <3>1. Stored(row) # {} /\ row[t].text # NoText
      BY <1>5, <2>2 DEF ShouldRebuild
    <3>2. fts => Cardinality({u \in Tasks : index[u] # NoText}) = Cardinality(Stored(row))
      BY <1>5, <3>1 DEF ShouldRebuild
    <3>3. fts => {u \in Tasks : index[u] # NoText} = Stored(row)
      BY <3>2, CountsSuffice DEF TaskInv
    <3> QED BY <3>1, <3>3, <2>2
  <2>3. OpenIsFound'
    BY <1>1, <1>3, <2>1, <2>2 DEF OpenIsFound, TextsAreOwn, Stored
  <2> QED BY <1>3, <2>1, <2>3 DEF TaskInv, TaskTypeOK, TextsAreOwn, TimelineTells, Told
<1> QED BY <1>4, <1>5

\* A row is written with its text, its index and an event that tells it.
LEMMA WriteKeeps ==
    ASSUME TaskInv, up, NEW t \in Tasks, NEW r \in Rows, Write(t, r), NEW e \in Events,
           timeline' = [timeline EXCEPT ![t] = Append(@, e)], UNCHANGED <<fts, up>>,
           Hears(IF row[t] = NoTask THEN Told0 ELSE Document(row[t]), e) = Document(r),
           r.status \in EndedStatuses => r.ended
    PROVE  TaskInv'
<1> DEFINE s == [r EXCEPT !.text = Document(r)]
<1>1. s \in Rows /\ Document(s) = Document(r) /\ s.text = Document(r) /\ s.status = r.status /\ s.ended = r.ended
  BY DocumentIs DEF Rows, Document
<1>2. /\ row' = [row EXCEPT ![t] = s]
      /\ index' = IF fts THEN [index EXCEPT ![t] = Document(r)] ELSE index
  BY DEF Write
<1> HIDE DEF s
<1>3. row \in [Tasks -> Rows \cup {NoTask}] /\ index \in [Tasks -> Documents \cup {NoText}]
      /\ timeline \in [Tasks -> Seq(Events)] /\ Document(r) \in Documents /\ s # NoTask
  BY <1>1, DocumentIs DEF TaskInv, TaskTypeOK
<1>4. /\ row'[t] = s /\ \A u \in Tasks : u # t => row'[u] = row[u] /\ index'[u] = index[u] /\ timeline'[u] = timeline[u]
      /\ fts => index'[t] = Document(r)
      /\ ~fts => index'[t] = index[t]
      /\ timeline'[t] = Append(timeline[t], e)
  BY <1>2, <1>3
<1>5. TaskTypeOK'
  <2>1. Append(timeline[t], e) \in Seq(Events)
    BY <1>3
  <2>2. timeline' \in [Tasks -> Seq(Events)]
    BY <1>3, <2>1
  <2> QED BY <1>1, <1>2, <1>3, <2>2 DEF TaskInv, TaskTypeOK
<1>6. Told(t)' = Document(r)
  <2>1. Told(t) = IF row[t] = NoTask THEN Told0 ELSE Document(row[t])
    BY NothingIsHeard DEF TaskInv, TimelineTells, Told, Told0, Heard
  <2>2. Told(t) = Heard(timeline[t]) /\ Told(t)' = Heard(timeline'[t])
    BY DEF Told, Told0, Heard
  <2>3. Heard(Append(timeline[t], e)) = Hears(Heard(timeline[t]), e)
    <3>1. PICK list \in Seq(Events) : list = timeline[t]
      BY <1>3
    <3> QED BY <3>1, OneMoreIsHeard
  <2> QED BY <1>4, <2>1, <2>2, <2>3
<1>7. TimelineTells'
  <2>1. \A u \in Tasks : u # t => Told(u)' = Told(u)
    BY <1>4 DEF Told
  <2>2. \A u \in Tasks :
            /\ row[u] = NoTask => timeline[u] = << >>
            /\ row[u] # NoTask => Told(u) = Document(row[u]) /\ (row[u].status \in EndedStatuses => row[u].ended)
    BY DEF TaskInv, TimelineTells
  <2>3. ASSUME NEW u \in Tasks
        PROVE  /\ row'[u] = NoTask => timeline'[u] = << >>
               /\ row'[u] # NoTask => Told(u)' = Document(row'[u]) /\ (row'[u].status \in EndedStatuses => row'[u].ended)
    <3>1. CASE u = t
      BY <1>1, <1>3, <1>4, <1>6, <3>1
    <3>2. CASE u # t
      BY <1>4, <2>1, <2>2, <3>2
    <3> QED BY <3>1, <3>2
  <2> QED BY <2>3 DEF TimelineTells
<1>8. TextsAreOwn'
  <2>1. s.text \in {NoText, Document(s)} /\ index'[t] \in {NoText, Document(s)}
    <3>1. ~fts => index[t] = NoText
      BY DEF TaskInv, TextsAreOwn
    <3> QED BY <1>1, <1>4, <3>1
  <2> QED BY <1>3, <1>4, <2>1 DEF TaskInv, TextsAreOwn
<1>9. OpenIsFound'
  BY <1>1, <1>3, <1>4 DEF TaskInv, OpenIsFound, Stored
<1> QED BY <1>5, <1>7, <1>8, <1>9 DEF TaskInv

LEMMA CreateKeeps ==
    ASSUME TaskInv, NEW t \in Tasks, NEW o \in Owners, NEW status \in Statuses, NEW a \in Artifacts,
           Create(t, o, status, a)
    PROVE  TaskInv'
<1> DEFINE r == [owner |-> o, status |-> status, artifacts |-> a,
                 started |-> status \in ActiveStatuses, ended |-> status \in EndedStatuses, text |-> NoText]
           e == EventFor(NoTask, r, a)
<1>1. /\ up /\ row[t] = NoTask /\ Write(t, r) /\ UNCHANGED <<fts, up>>
      /\ timeline' = [timeline EXCEPT ![t] = Append(@, e)]
  BY DEF Create
<1>2. r \in Rows
  BY DEF Rows
<1>3. r.status \in EndedStatuses => r.ended
  OBVIOUS
<1>4. e = [type |-> "created", status |-> status, patch |-> a] /\ e \in Events
  BY DEF EventFor, Events
<1>5. Merged(NoValue, a) = a
  BY DEF Merged, IsObject
<1>6. Hears(Told0, e) = Document(r)
  BY <1>4, <1>5 DEF Hears, Told0, Document
<1> HIDE DEF r, e
<1> QED BY <1>1, <1>2, <1>3, <1>4, <1>6, WriteKeeps

LEMMA UpdateKeeps ==
    ASSUME TaskInv, up, NEW t \in Tasks, row[t] # NoTask, NEW status \in Statuses, NEW patch \in Artifacts,
           Update(t, status, patch)
    PROVE  TaskInv'
<1>1. PICK old \in Rows : old = row[t]
  BY DEF TaskInv, TaskTypeOK
<1> DEFINE r == [old EXCEPT !.status = status, !.artifacts = Merged(@, patch),
                            !.started = @ \/ status \in ActiveStatuses, !.ended = @ \/ status \in EndedStatuses]
           e == EventFor(old, r, patch)
<1>2. /\ Write(t, r) /\ UNCHANGED <<fts, up>>
      /\ timeline' = [timeline EXCEPT ![t] = Append(@, e)]
  BY <1>1 DEF Update
<1>3. Merged(old.artifacts, patch) \in Artifacts
  BY MergedIs DEF Rows
<1>4. r \in Rows /\ r.status = status /\ r.artifacts = Merged(old.artifacts, patch)
      /\ (r.status \in EndedStatuses => r.ended)
  BY <1>3 DEF Rows
<1>5. e.status = status /\ e.patch = patch /\ e.type # "step" /\ e \in Events
  BY <1>4 DEF EventFor, Events
<1> HIDE DEF r, e
<1>6. Hears(Document(old), e) = Document(r)
  BY <1>4, <1>5 DEF Hears, Document
<1> QED BY <1>1, <1>2, <1>4, <1>5, <1>6, WriteKeeps

LEMMA AppendEventKeeps ==
    ASSUME TaskInv, NEW t \in Tasks, NEW status \in Statuses, AppendEvent(t, status)
    PROVE  TaskInv'
<1> DEFINE e == [type |-> "step", status |-> status, patch |-> NoValue]
<1>1. /\ row[t] # NoTask /\ UNCHANGED <<row, index, fts, up>>
      /\ timeline' = [timeline EXCEPT ![t] = Append(@, e)]
  BY DEF AppendEvent
<1>2. e \in Events /\ \A known : Hears(known, e) = known
  BY DEF Events, Artifacts, Hears
<1> HIDE DEF e
<1>3. PICK list \in Seq(Events) : list = timeline[t]
  BY DEF TaskInv, TaskTypeOK
<1>4. Heard(Append(list, e)) = Heard(list) /\ Append(list, e) \in Seq(Events)
  BY <1>2, OneMoreIsHeard
<1>5. timeline \in [Tasks -> Seq(Events)]
  BY DEF TaskInv, TaskTypeOK
<1>6. timeline'[t] = Append(list, e) /\ \A u \in Tasks : u # t => timeline'[u] = timeline[u]
  BY <1>1, <1>3, <1>5
<1>7. \A u \in Tasks : Told(u)' = Told(u)
  BY <1>3, <1>4, <1>6 DEF Told, Told0, Heard
<1>8. TaskTypeOK'
  BY <1>1, <1>3, <1>4, <1>5 DEF TaskInv, TaskTypeOK
<1>9. TimelineTells'
  BY <1>1, <1>6, <1>7 DEF TaskInv, TimelineTells
<1> QED BY <1>1, <1>8, <1>9 DEF TaskInv, TextsAreOwn, OpenIsFound, Stored

LEMMA TaskStepKeeps == TaskInv /\ [TaskNext]_taskVars => TaskInv'
<1> SUFFICES ASSUME TaskInv, [TaskNext]_taskVars PROVE TaskInv'
  OBVIOUS
<1>1. CASE OpenStore
  BY <1>1, OpenStoreKeeps
<1>2. CASE CloseStore
  BY <1>2 DEF CloseStore, TaskInv, TaskTypeOK, TextsAreOwn, OpenIsFound, TimelineTells, Told
<1>3. ASSUME NEW t \in Tasks, NEW o \in Owners, NEW status \in Statuses, NEW a \in Artifacts, Create(t, o, status, a)
      PROVE  TaskInv'
  BY <1>3, CreateKeeps
<1>4. ASSUME NEW t \in Tasks, NEW status \in Statuses, NEW patch \in Artifacts, UpdateByGateway(t, status, patch)
      PROVE  TaskInv'
  BY <1>4, UpdateKeeps DEF UpdateByGateway
<1>5. ASSUME NEW t \in Tasks, NEW o \in Owners, NEW status \in Statuses, UpdateByTool(t, o, status)
      PROVE  TaskInv'
  <2>1. NoValue \in Artifacts
    BY DEF Artifacts
  <2> QED BY <1>5, <2>1, UpdateKeeps DEF UpdateByTool
<1>6. ASSUME NEW t \in Tasks, NEW status \in Statuses, AppendEvent(t, status) PROVE TaskInv'
  BY <1>6, AppendEventKeeps
<1>7. CASE UNCHANGED taskVars
  BY <1>7 DEF taskVars, TaskInv, TaskTypeOK, TextsAreOwn, OpenIsFound, TimelineTells, Told, Stored
<1> QED BY <1>1, <1>2, <1>3, <1>4, <1>5, <1>6, <1>7 DEF TaskNext

\* For any tasks, artifacts and old databases: while the store is open a search finds a task by what its
\* record says now, the timeline tells the record, and an ended task has its end (task_store.py, update
\* and _init_db).
THEOREM ViewsAlwaysAgree == TaskSpec => []ViewsAgree
<1>1. TaskInv => ViewsAgree
  BY DEF TaskInv, OpenIsFound, TimelineTells, ViewsAgree, Stored
<1> QED BY <1>1, TaskStarts, TaskStepKeeps, PTL DEF TaskSpec

-----------------------------------------------------------------------------
(* MemoryLifecycle: what a curation ends with is what is saved.  The lists *)
(* are folded: every step of a curation keeps that the memories which stand *)
(* are the ones its three lists leave when they are saved one by one.       *)

Verdicts == {"rejected", "promoted", "merged"}
Cands == [session : Sessions, content : Contents, trust : Trusts, sure : BOOLEAN, status : Verdicts \cup {"candidate"}]
Mems == [id : Nat, content : Contents, trust : Trusts, active : BOOLEAN]
Curations == [existing : Seq(Mems), promoted : Seq(Mems), merged : Seq(Mems), updated : Seq(Mems),
              verdicts : Seq(Nat \X Verdicts)]

Ids(list) == {list[i].id : i \in DOMAIN list}
OneEach(list) == \A i, j \in DOMAIN list : list[i].id = list[j].id => i = j

\* The last word of a list on a memory.
IsLast(list, x) == \E i \in DOMAIN list : list[i] = x /\ \A j \in DOMAIN list : j > i => list[j].id # x.id

\* A list with one more at its end.
LEMMA WithOneMore ==
    ASSUME NEW A, NEW list \in Seq(A), NEW y \in A
    PROVE  /\ Append(list, y) \in Seq(A)
           /\ Range(Append(list, y)) = Range(list) \cup {y}
           /\ Ids(Append(list, y)) = Ids(list) \cup {y.id}
           /\ \A x : IsLast(Append(list, y), x) <=> x = y \/ (x.id # y.id /\ IsLast(list, x))
           /\ OneEach(list) /\ y.id \notin Ids(list) => OneEach(Append(list, y))
<1> DEFINE more == Append(list, y)
           n == Len(list)
<1>1. /\ more \in Seq(A) /\ n \in Nat /\ DOMAIN list = 1..n /\ DOMAIN more = 1..n + 1 /\ more[n + 1] = y
      /\ \A k \in 1..n : more[k] = list[k]
  BY AppendProperties
<1> HIDE DEF more
<1>2. Range(more) = Range(list) \cup {y}
  BY <1>1 DEF Range
<1>3. Ids(more) = Ids(list) \cup {y.id}
  BY <1>1 DEF Ids
<1>4. ASSUME NEW x PROVE IsLast(more, x) <=> x = y \/ (x.id # y.id /\ IsLast(list, x))
  <2>1. ASSUME IsLast(more, x) PROVE x = y \/ (x.id # y.id /\ IsLast(list, x))
    <3>1. PICK i \in 1..n + 1 : more[i] = x /\ \A j \in 1..n + 1 : j > i => more[j].id # x.id
      BY <1>1, <2>1 DEF IsLast
    <3>2. CASE i = n + 1
      BY <1>1, <3>1, <3>2
    <3>3. CASE i \in 1..n
      <4>1. n + 1 \in 1..n + 1 /\ n + 1 > i
        BY <1>1, <3>3
      <4>2. x.id # y.id
        BY <1>1, <3>1, <4>1
      <4>3. list[i] = x /\ \A j \in 1..n : j > i => list[j].id # x.id
        BY <1>1, <3>1, <3>3
      <4> QED BY <1>1, <3>3, <4>2, <4>3 DEF IsLast
    <3> QED BY <1>1, <3>1, <3>2, <3>3
  <2>2. ASSUME x = y PROVE IsLast(more, x)
    <3>1. n + 1 \in 1..n + 1 /\ \A j \in 1..n + 1 : ~ (j > n + 1)
      BY <1>1
    <3> QED BY <1>1, <2>2, <3>1 DEF IsLast
  <2>3. ASSUME x.id # y.id, IsLast(list, x) PROVE IsLast(more, x)
    <3>1. PICK i \in 1..n : list[i] = x /\ \A j \in 1..n : j > i => list[j].id # x.id
      BY <1>1, <2>3 DEF IsLast
    <3>2. more[i] = x /\ i \in 1..n + 1
      BY <1>1, <3>1
    <3>3. ASSUME NEW j \in 1..n + 1, j > i PROVE more[j].id # x.id
      <4>1. j \in 1..n \/ j = n + 1
        BY <1>1
      <4> QED BY <1>1, <2>3, <3>1, <3>3, <4>1
    <3> QED BY <1>1, <3>2, <3>3 DEF IsLast
  <2> QED BY <2>1, <2>2, <2>3
<1>5. ASSUME OneEach(list), y.id \notin Ids(list) PROVE OneEach(more)
  <2>1. \A i \in 1..n : list[i].id # y.id
    BY <1>1, <1>5 DEF Ids
  <2> QED BY <1>1, <1>5, <2>1 DEF OneEach
<1> QED BY <1>1, <1>2, <1>3, <1>4, <1>5 DEF more

\* A list with one of its memories replaced by another, of the same id or of a new one.
LEMMA WithOneReplaced ==
    ASSUME NEW A, NEW list \in Seq(A), OneEach(list), NEW i \in DOMAIN list, NEW y \in A,
           y.id = list[i].id \/ y.id \notin Ids(list)
    PROVE  /\ [list EXCEPT ![i] = y] \in Seq(A)
           /\ Range([list EXCEPT ![i] = y]) = {x \in Range(list) : x.id # list[i].id} \cup {y}
           /\ Ids([list EXCEPT ![i] = y]) = (Ids(list) \ {list[i].id}) \cup {y.id}
           /\ OneEach([list EXCEPT ![i] = y])
<1> DEFINE new == [list EXCEPT ![i] = y]
<1>1. new \in Seq(A) /\ DOMAIN new = DOMAIN list /\ new[i] = y /\ \A j \in DOMAIN list : j # i => new[j] = list[j]
  OBVIOUS
<1> HIDE DEF new
<1>2. \A j \in DOMAIN list : j # i => list[j].id # list[i].id
  BY DEF OneEach
<1>3. Range(new) = {x \in Range(list) : x.id # list[i].id} \cup {y}
  <2>1. ASSUME NEW x \in Range(new) PROVE x \in {z \in Range(list) : z.id # list[i].id} \cup {y}
    <3>1. PICK j \in DOMAIN list : new[j] = x
      BY <1>1, <2>1 DEF Range
    <3>2. CASE j = i
      BY <1>1, <3>1, <3>2
    <3>3. CASE j # i
      <4>1. x = list[j] /\ x.id # list[i].id
        BY <1>1, <1>2, <3>1, <3>3
      <4> QED BY <3>1, <4>1 DEF Range
    <3> QED BY <3>2, <3>3
  <2>2. ASSUME NEW x \in Range(list), x.id # list[i].id PROVE x \in Range(new)
    <3>1. PICK j \in DOMAIN list : list[j] = x
      BY <2>2 DEF Range
    <3>2. j # i /\ new[j] = x
      BY <1>1, <2>2, <3>1
    <3> QED BY <1>1, <3>1, <3>2 DEF Range
  <2>3. y \in Range(new)
    BY <1>1 DEF Range
  <2> QED BY <2>1, <2>2, <2>3
<1>4. Ids(new) = (Ids(list) \ {list[i].id}) \cup {y.id}
  <2>1. ASSUME NEW d \in Ids(new) PROVE d \in (Ids(list) \ {list[i].id}) \cup {y.id}
    <3>1. PICK j \in DOMAIN list : d = new[j].id
      BY <1>1, <2>1 DEF Ids
    <3>2. CASE j = i
      BY <1>1, <3>1, <3>2
    <3>3. CASE j # i
      <4>1. d = list[j].id /\ d # list[i].id
        BY <1>1, <1>2, <3>1, <3>3
      <4> QED BY <3>1, <4>1 DEF Ids
    <3> QED BY <3>2, <3>3
  <2>2. ASSUME NEW d \in Ids(list), d # list[i].id PROVE d \in Ids(new)
    <3>1. PICK j \in DOMAIN list : d = list[j].id
      BY <2>2 DEF Ids
    <3>2. j # i /\ d = new[j].id
      BY <1>1, <2>2, <3>1
    <3> QED BY <1>1, <3>1, <3>2 DEF Ids
  <2>3. y.id \in Ids(new)
    BY <1>1 DEF Ids
  <2> QED BY <2>1, <2>2, <2>3
<1>5. OneEach(new)
  <2> SUFFICES ASSUME NEW j \in DOMAIN list, NEW k \in DOMAIN list, new[j].id = new[k].id PROVE j = k
    BY <1>1 DEF OneEach
  <2>1. \A m \in DOMAIN list : m # i => new[m].id # y.id
    <3> SUFFICES ASSUME NEW m \in DOMAIN list, m # i PROVE list[m].id # y.id
      BY <1>1
    <3>1. list[m].id \in Ids(list)
      BY DEF Ids
    <3> QED BY <1>2, <3>1
  <2>2. CASE j = i \/ k = i
    BY <1>1, <2>1, <2>2
  <2>3. CASE j # i /\ k # i
    BY <1>1, <2>3 DEF OneEach
  <2> QED BY <2>2, <2>3
<1> QED BY <1>1, <1>3, <1>4, <1>5 DEF new

\* A candidate takes over a memory it duplicates, or replaces one it contradicts.
TakesOver(acc, id, k, i) ==
    LET merged == [acc.existing[i] EXCEPT !.content = k.content, !.trust = k.trust]
    IN  [acc EXCEPT !.existing[i] = merged, !.merged = Append(@, merged), !.verdicts = Append(@, <<id, "merged">>)]

Replaces(acc, id, k, i) ==
    [acc EXCEPT !.existing[i] = Promoted(id, k), !.promoted = Append(@, Promoted(id, k)),
                !.updated = Append(@, [acc.existing[i] EXCEPT !.active = FALSE]),
                !.verdicts = Append(@, <<id, "promoted">>)]

LEMMA JudgeIsOneOf ==
    ASSUME NEW acc \in Curations, NEW id
    PROVE  LET k == candidates[id] IN
              \/ Judge(acc, id) = Rejects(acc, id)
              \/ Judge(acc, id) = Adds(acc, id, k)
              \/ \E i \in DOMAIN acc.existing : Judge(acc, id) = TakesOver(acc, id, k, i)
              \/ \E i \in DOMAIN acc.existing : Judge(acc, id) = Replaces(acc, id, k, i)
<1> DEFINE k == candidates[id]
           dups == {i \in DOMAIN acc.existing : IsDuplicate(k, acc.existing[i])}
           cons == {i \in DOMAIN acc.existing : IsContradiction(k, acc.existing[i])}
           dup == CHOOSE i \in dups : \A j \in dups : i <= j
           con == CHOOSE i \in cons : \A j \in cons : i <= j
<1>1. dups \in SUBSET Nat /\ cons \in SUBSET Nat
  BY DEF Curations
<1>2. dups # {} => dup \in dups
  BY <1>1, Smallest
<1>3. cons # {} => con \in cons
  BY <1>1, Smallest
<1>4. CASE ~k.sure \/ k.trust < MinTrust
  BY <1>4 DEF Judge
<1>5. CASE ~(~k.sure \/ k.trust < MinTrust) /\ dups # {}
  <2>1. \E i \in DOMAIN acc.existing : IsDuplicate(k, acc.existing[i])
    BY <1>5
  <2>2. Judge(acc, id) = Merges(acc, id, k)
    BY <1>5, <2>1 DEF Judge
  <2>3. FirstIndex(acc.existing, LAMBDA m : IsDuplicate(k, m)) = dup
    BY <1>5 DEF FirstIndex
  <2>4. Merges(acc, id, k) = Rejects(acc, id) \/ Merges(acc, id, k) = TakesOver(acc, id, k, dup)
    BY <2>3 DEF Merges, TakesOver
  <2> QED BY <1>2, <1>5, <2>2, <2>4
<1>6. CASE ~(~k.sure \/ k.trust < MinTrust) /\ dups = {} /\ cons # {}
  <2>1. ~(\E i \in DOMAIN acc.existing : IsDuplicate(k, acc.existing[i]))
        /\ \E i \in DOMAIN acc.existing : IsContradiction(k, acc.existing[i])
    BY <1>6
  <2>2. Judge(acc, id) = Resolves(acc, id, k)
    BY <1>6, <2>1 DEF Judge
  <2>3. FirstIndex(acc.existing, LAMBDA m : IsContradiction(k, m)) = con
    BY <1>6 DEF FirstIndex
  <2>4. Resolves(acc, id, k) = Rejects(acc, id) \/ Resolves(acc, id, k) = Replaces(acc, id, k, con)
    BY <2>3 DEF Resolves, Replaces
  <2> QED BY <1>3, <1>6, <2>2, <2>4
<1>7. CASE ~(~k.sure \/ k.trust < MinTrust) /\ dups = {} /\ cons = {}
  <2>1. ~(\E i \in DOMAIN acc.existing : IsDuplicate(k, acc.existing[i]))
        /\ ~(\E i \in DOMAIN acc.existing : IsContradiction(k, acc.existing[i]))
    BY <1>7
  <2> QED BY <1>7, <2>1 DEF Judge
<1> QED BY <1>4, <1>5, <1>6, <1>7

\* A memory stands that the lists of a curation leave active: they are saved in this order.
Stands(acc, olds, x) ==
    /\ x.id \notin Ids(acc.updated)
    /\ \/ IsLast(acc.merged, x)
       \/ /\ x.id \notin Ids(acc.merged)
          /\ IsLast(acc.promoted, x) \/ (x \in olds /\ x.id \notin Ids(acc.promoted))

\* What every curation keeps that has judged n candidates of a list, from old memories of other ids.
OldOrJudged(olds, list, n) == {m.id : m \in olds} \cup {list[j] : j \in 1..n}

\* A verdict on every candidate so far, and a memory for each promoted one.
VerdictsFit(list, n, ids, verdicts) ==
    /\ verdicts \in Seq(Nat \X Verdicts) /\ Len(verdicts) = n
    /\ \A j \in 1..n : verdicts[j][1] = list[j] /\ (verdicts[j][2] = "promoted" => list[j] \in ids)

Consistent(olds, list, n, acc) ==
    /\ OneEach(acc.existing)
    /\ \A m \in Range(acc.existing) : m.active
    /\ \A m \in Range(acc.updated) : ~m.active
    /\ Ids(acc.updated) \cap Ids(acc.existing) = {}
    /\ Ids(acc.existing) \cup Ids(acc.promoted) \cup Ids(acc.merged) \cup Ids(acc.updated) \subseteq OldOrJudged(olds, list, n)
    /\ Ids(acc.promoted) \subseteq {list[j] : j \in 1..n}
    /\ \A x \in Mems : x \in Range(acc.existing) <=> Stands(acc, olds, x)
    /\ VerdictsFit(list, n, Ids(acc.promoted), acc.verdicts)

\* The hypotheses of a step: a list of distinct candidates, none of them an old memory's.
Judging(olds, list, n) ==
    /\ candidates \in Seq(Cands) /\ olds \in SUBSET Mems
    /\ list \in Seq(DOMAIN candidates) /\ n \in 1..Len(list)
    /\ \A i, j \in DOMAIN list : list[i] = list[j] => i = j
    /\ \A j \in DOMAIN list, m \in olds : m.id # list[j]

LEMMA JudgingIs ==
    ASSUME NEW olds, NEW list, NEW n, Judging(olds, list, n)
    PROVE  /\ n \in Nat /\ n - 1 \in Nat /\ list[n] \in DOMAIN candidates /\ list[n] \in Nat
           /\ candidates[list[n]] \in Cands
           /\ list[n] \notin OldOrJudged(olds, list, n - 1)
           /\ OldOrJudged(olds, list, n) = OldOrJudged(olds, list, n - 1) \cup {list[n]}
           /\ {list[j] : j \in 1..n} = {list[j] : j \in 1..n - 1} \cup {list[n]}
<1>1. /\ DOMAIN list = 1..Len(list) /\ Len(list) \in Nat /\ n \in 1..Len(list)
      /\ \A j \in 1..Len(list) : list[j] \in DOMAIN candidates
      /\ DOMAIN candidates \subseteq Nat
      /\ \A i \in DOMAIN candidates : candidates[i] \in Cands
  BY DEF Judging
<1>2. n \in Nat /\ n - 1 \in Nat
  BY <1>1
<1>3. \A j \in 1..n - 1 : j \in DOMAIN list /\ j # n
  BY <1>1
<1>4. list[n] \notin OldOrJudged(olds, list, n - 1)
  BY <1>1, <1>3 DEF Judging, OldOrJudged
<1>5. 1..n = (1..n - 1) \cup {n}
  BY <1>2
<1>6. {list[j] : j \in 1..n} = {list[j] : j \in 1..n - 1} \cup {list[n]}
  BY <1>5
<1> QED BY <1>1, <1>2, <1>4, <1>6 DEF OldOrJudged

\* One more verdict.
LEMMA OneMoreVerdict ==
    ASSUME NEW list, NEW n \in Nat, n - 1 \in Nat, NEW old, NEW verdicts, VerdictsFit(list, n - 1, old, verdicts),
           list[n] \in Nat, NEW v \in Verdicts, NEW new, old \subseteq new, v = "promoted" => list[n] \in new
    PROVE  VerdictsFit(list, n, new, Append(verdicts, <<list[n], v>>))
<1> DEFINE more == Append(verdicts, <<list[n], v>>)
<1>1. verdicts \in Seq(Nat \X Verdicts) /\ <<list[n], v>> \in Nat \X Verdicts /\ Len(verdicts) = n - 1
      /\ \A j \in 1..n - 1 : verdicts[j][1] = list[j] /\ (verdicts[j][2] = "promoted" => list[j] \in old)
  BY DEF VerdictsFit
<1>2. more \in Seq(Nat \X Verdicts) /\ Len(more) = n /\ more[n] = <<list[n], v>>
      /\ \A j \in 1..n - 1 : more[j] = verdicts[j]
  BY <1>1, AppendProperties
<1> HIDE DEF more
<1>3. \A j \in 1..n : j \in 1..n - 1 \/ j = n
  OBVIOUS
<1>4. ASSUME NEW j \in 1..n PROVE more[j][1] = list[j] /\ (more[j][2] = "promoted" => list[j] \in new)
  <2>1. CASE j \in 1..n - 1
    BY <1>1, <1>2, <2>1
  <2>2. CASE j = n
    BY <1>2, <2>2
  <2> QED BY <1>3, <2>1, <2>2
<1> QED BY <1>2, <1>4 DEF more, VerdictsFit

LEMMA RejectingKeeps ==
    ASSUME NEW olds, NEW list, NEW n, Judging(olds, list, n),
           NEW acc \in Curations, Consistent(olds, list, n - 1, acc)
    PROVE  Rejects(acc, list[n]) \in Curations /\ Consistent(olds, list, n, Rejects(acc, list[n]))
<1> DEFINE id == list[n]
           new == Rejects(acc, id)
           more == Append(acc.verdicts, <<id, "rejected">>)
<1>1. /\ n \in Nat /\ n - 1 \in Nat /\ id \in Nat
      /\ OldOrJudged(olds, list, n) = OldOrJudged(olds, list, n - 1) \cup {id}
      /\ {list[j] : j \in 1..n} = {list[j] : j \in 1..n - 1} \cup {id}
  BY JudgingIs
<1>2. VerdictsFit(list, n, Ids(acc.promoted), more)
  <2>1. VerdictsFit(list, n - 1, Ids(acc.promoted), acc.verdicts) /\ "rejected" \in Verdicts
    BY DEF Consistent, Verdicts
  <2> QED BY <1>1, <2>1, OneMoreVerdict
<1>3. /\ new.existing = acc.existing /\ new.promoted = acc.promoted /\ new.merged = acc.merged
      /\ new.updated = acc.updated /\ new.verdicts = more
  BY DEF Rejects, Curations
<1>4. new \in Curations
  <2>1. more \in Seq(Nat \X Verdicts)
    BY <1>2 DEF VerdictsFit
  <2> HIDE DEF more
  <2> QED BY <2>1 DEF Curations, Rejects, more
<1> HIDE DEF new, more, id
<1>5. \A x : Stands(new, olds, x) <=> Stands(acc, olds, x)
  BY <1>3 DEF Stands
<1>6. Consistent(olds, list, n, new)
  BY <1>1, <1>2, <1>3, <1>5 DEF Consistent
<1> QED BY <1>4, <1>6 DEF new, id

LEMMA AddingKeeps ==
    ASSUME NEW olds, NEW list, NEW n, Judging(olds, list, n),
           NEW acc \in Curations, Consistent(olds, list, n - 1, acc)
    PROVE  LET new == Adds(acc, list[n], candidates[list[n]])
           IN  new \in Curations /\ Consistent(olds, list, n, new)
<1> DEFINE id == list[n]
           y == Promoted(id, candidates[id])
           new == Adds(acc, id, candidates[id])
           more == Append(acc.verdicts, <<id, "promoted">>)
           existing == Append(acc.existing, y)
           promoted == Append(acc.promoted, y)
<1>1. /\ n \in Nat /\ n - 1 \in Nat /\ id \in Nat /\ candidates[id] \in Cands
      /\ id \notin OldOrJudged(olds, list, n - 1)
      /\ OldOrJudged(olds, list, n) = OldOrJudged(olds, list, n - 1) \cup {id}
      /\ {list[j] : j \in 1..n} = {list[j] : j \in 1..n - 1} \cup {id}
  BY JudgingIs
<1>2. y \in Mems /\ y.id = id /\ y.active
  BY <1>1 DEF Promoted, Mems, Cands
<1>3. acc.existing \in Seq(Mems) /\ acc.promoted \in Seq(Mems)
  BY DEF Curations
<1>4. /\ id \notin Ids(acc.existing) /\ id \notin Ids(acc.promoted) /\ id \notin Ids(acc.merged) /\ id \notin Ids(acc.updated)
      /\ \A m \in olds : m.id # id
  BY <1>1 DEF Consistent, OldOrJudged
<1>5. /\ new.existing = existing /\ new.promoted = promoted /\ new.merged = acc.merged
      /\ new.updated = acc.updated /\ new.verdicts = more
  BY DEF Adds, Curations
<1> HIDE DEF y
<1>6. /\ existing \in Seq(Mems) /\ Range(existing) = Range(acc.existing) \cup {y}
      /\ Ids(existing) = Ids(acc.existing) \cup {id} /\ OneEach(existing)
  BY <1>2, <1>3, <1>4, WithOneMore DEF Consistent
<1>7. /\ promoted \in Seq(Mems) /\ Ids(promoted) = Ids(acc.promoted) \cup {id}
      /\ \A x : IsLast(promoted, x) <=> x = y \/ (x.id # id /\ IsLast(acc.promoted, x))
  BY <1>2, <1>3, WithOneMore
<1>8. VerdictsFit(list, n, Ids(promoted), more)
  <2>1. /\ VerdictsFit(list, n - 1, Ids(acc.promoted), acc.verdicts) /\ "promoted" \in Verdicts
        /\ id \in Ids(promoted) /\ Ids(acc.promoted) \subseteq Ids(promoted)
    BY <1>7 DEF Consistent, Verdicts
  <2> HIDE DEF promoted
  <2> QED BY <1>1, <2>1, OneMoreVerdict
<1>9. new \in Curations
  <2>1. more \in Seq(Nat \X Verdicts)
    BY <1>8 DEF VerdictsFit
  <2> HIDE DEF more, promoted, existing
  <2> QED BY <2>1, <1>6, <1>7 DEF Curations, Adds, more, promoted, existing, y
<1> HIDE DEF new
<1> HIDE DEF more, promoted, existing
<1>10. ASSUME NEW x \in Mems PROVE x \in Range(existing) <=> Stands(new, olds, x)
  <2>1. CASE x.id = id
    <3>1. x \notin Range(acc.existing)
      BY <1>4, <2>1 DEF Range, Ids
    <3>2. x \in Range(existing) <=> x = y
      BY <1>6, <3>1
    <3>3. ~IsLast(acc.merged, x)
      BY <1>4, <2>1 DEF IsLast, Ids
    <3>4. Stands(new, olds, x) <=> x = y
      BY <1>4, <1>5, <1>7, <2>1, <3>3 DEF Stands
    <3> QED BY <3>2, <3>4
  <2>2. CASE x.id # id
    <3>1. x # y
      BY <1>2, <2>2
    <3>2. Stands(new, olds, x) <=> Stands(acc, olds, x)
      BY <1>5, <1>7, <2>2, <3>1 DEF Stands
    <3> QED BY <1>6, <3>1, <3>2 DEF Consistent
  <2> QED BY <2>1, <2>2
<1>11. Consistent(olds, list, n, new)
  <2>1. \A m \in Range(existing) : m.active
    BY <1>2, <1>6 DEF Consistent
  <2>2. Ids(acc.updated) \cap Ids(existing) = {}
    BY <1>4, <1>6 DEF Consistent
  <2>3. Ids(existing) \cup Ids(promoted) \cup Ids(acc.merged) \cup Ids(acc.updated) \subseteq OldOrJudged(olds, list, n)
    BY <1>1, <1>6, <1>7 DEF Consistent
  <2>4. Ids(promoted) \subseteq {list[j] : j \in 1..n}
    BY <1>1, <1>7 DEF Consistent
  <2>5. \A m \in Range(acc.updated) : ~m.active
    BY DEF Consistent
  <2> QED BY <1>5, <1>6, <1>8, <1>10, <2>1, <2>2, <2>3, <2>4, <2>5 DEF Consistent
<1> QED BY <1>9, <1>11 DEF new, id

LEMMA TakingOverKeeps ==
    ASSUME NEW olds, NEW list, NEW n, Judging(olds, list, n),
           NEW acc \in Curations, Consistent(olds, list, n - 1, acc), NEW i \in DOMAIN acc.existing
    PROVE  LET new == TakesOver(acc, list[n], candidates[list[n]], i)
           IN  new \in Curations /\ Consistent(olds, list, n, new)
<1> DEFINE id == list[n]
           k == candidates[id]
           y == [acc.existing[i] EXCEPT !.content = k.content, !.trust = k.trust]
           new == TakesOver(acc, id, k, i)
           more == Append(acc.verdicts, <<id, "merged">>)
           existing == [acc.existing EXCEPT ![i] = y]
           merged == Append(acc.merged, y)
<1>1. /\ n \in Nat /\ n - 1 \in Nat /\ id \in Nat /\ k \in Cands
      /\ OldOrJudged(olds, list, n) = OldOrJudged(olds, list, n - 1) \cup {id}
      /\ {list[j] : j \in 1..n} = {list[j] : j \in 1..n - 1} \cup {id}
  BY JudgingIs
<1>2. acc.existing \in Seq(Mems) /\ acc.merged \in Seq(Mems) /\ OneEach(acc.existing)
  BY DEF Curations, Consistent
<1>3. acc.existing[i] \in Mems /\ acc.existing[i].active
  BY <1>2 DEF Consistent, Range
<1>4. y \in Mems /\ y.id = acc.existing[i].id /\ y.active
  BY <1>1, <1>3 DEF Mems, Cands
<1>5. /\ new.existing = existing /\ new.promoted = acc.promoted /\ new.merged = merged
      /\ new.updated = acc.updated /\ new.verdicts = more
  BY DEF TakesOver, Curations
<1>6. y.id \in Ids(acc.existing) /\ y.id \notin Ids(acc.updated)
  <2>1. y.id \in Ids(acc.existing)
    BY <1>4 DEF Ids
  <2> QED BY <2>1 DEF Consistent
<1> HIDE DEF y
<1>7. /\ existing \in Seq(Mems) /\ Range(existing) = {x \in Range(acc.existing) : x.id # y.id} \cup {y}
      /\ Ids(existing) = Ids(acc.existing) /\ OneEach(existing)
  <2>1. /\ existing \in Seq(Mems) /\ Range(existing) = {x \in Range(acc.existing) : x.id # acc.existing[i].id} \cup {y}
        /\ Ids(existing) = (Ids(acc.existing) \ {acc.existing[i].id}) \cup {y.id} /\ OneEach(existing)
    BY <1>2, <1>4, WithOneReplaced
  <2> HIDE DEF existing
  <2> QED BY <1>4, <1>6, <2>1
<1>8. /\ merged \in Seq(Mems) /\ Ids(merged) = Ids(acc.merged) \cup {y.id}
      /\ \A x : IsLast(merged, x) <=> x = y \/ (x.id # y.id /\ IsLast(acc.merged, x))
  BY <1>2, <1>4, WithOneMore
<1>9. VerdictsFit(list, n, Ids(acc.promoted), more)
  <2>1. VerdictsFit(list, n - 1, Ids(acc.promoted), acc.verdicts) /\ "merged" \in Verdicts
    BY DEF Consistent, Verdicts
  <2> QED BY <1>1, <2>1, OneMoreVerdict
<1>10. new \in Curations
  <2>1. more \in Seq(Nat \X Verdicts)
    BY <1>9 DEF VerdictsFit
  <2> HIDE DEF more, merged, existing
  <2> QED BY <2>1, <1>7, <1>8 DEF Curations, TakesOver, more, merged, existing, y
<1> HIDE DEF new, more, merged, existing
<1>11. ASSUME NEW x \in Mems PROVE x \in Range(existing) <=> Stands(new, olds, x)
  <2>1. CASE x.id = y.id
    <3>1. x \in Range(existing) <=> x = y
      BY <1>7, <2>1
    <3>2. Stands(new, olds, x) <=> x = y
      BY <1>5, <1>6, <1>8, <2>1 DEF Stands
    <3> QED BY <3>1, <3>2
  <2>2. CASE x.id # y.id
    <3>1. x # y
      BY <2>2
    <3>2. Stands(new, olds, x) <=> Stands(acc, olds, x)
      BY <1>5, <1>8, <2>2, <3>1 DEF Stands
    <3> QED BY <1>7, <2>2, <3>1, <3>2 DEF Consistent
  <2> QED BY <2>1, <2>2
<1>12. Consistent(olds, list, n, new)
  <2>1. \A m \in Range(existing) : m.active
    BY <1>4, <1>7 DEF Consistent
  <2>2. Ids(acc.updated) \cap Ids(existing) = {}
    BY <1>7 DEF Consistent
  <2>3. Ids(existing) \cup Ids(acc.promoted) \cup Ids(merged) \cup Ids(acc.updated) \subseteq OldOrJudged(olds, list, n)
    BY <1>1, <1>6, <1>7, <1>8 DEF Consistent
  <2>4. Ids(acc.promoted) \subseteq {list[j] : j \in 1..n}
    BY <1>1 DEF Consistent
  <2>5. \A m \in Range(acc.updated) : ~m.active
    BY DEF Consistent
  <2> QED BY <1>5, <1>7, <1>9, <1>11, <2>1, <2>2, <2>3, <2>4, <2>5 DEF Consistent
<1> QED BY <1>10, <1>12 DEF new, k, id

LEMMA ReplacingKeeps ==
    ASSUME NEW olds, NEW list, NEW n, Judging(olds, list, n),
           NEW acc \in Curations, Consistent(olds, list, n - 1, acc), NEW i \in DOMAIN acc.existing
    PROVE  LET new == Replaces(acc, list[n], candidates[list[n]], i)
           IN  new \in Curations /\ Consistent(olds, list, n, new)
<1> DEFINE id == list[n]
           k == candidates[id]
           y == Promoted(id, k)
           old == acc.existing[i]
           gone == [old EXCEPT !.active = FALSE]
           new == Replaces(acc, id, k, i)
           more == Append(acc.verdicts, <<id, "promoted">>)
           existing == [acc.existing EXCEPT ![i] = y]
           promoted == Append(acc.promoted, y)
           updated == Append(acc.updated, gone)
<1>1. /\ n \in Nat /\ n - 1 \in Nat /\ id \in Nat /\ k \in Cands
      /\ id \notin OldOrJudged(olds, list, n - 1)
      /\ OldOrJudged(olds, list, n) = OldOrJudged(olds, list, n - 1) \cup {id}
      /\ {list[j] : j \in 1..n} = {list[j] : j \in 1..n - 1} \cup {id}
  BY JudgingIs
<1>2. /\ acc.existing \in Seq(Mems) /\ acc.promoted \in Seq(Mems) /\ acc.updated \in Seq(Mems)
      /\ OneEach(acc.existing)
  BY DEF Curations, Consistent
<1>3. old \in Mems
  BY <1>2
<1>4. y \in Mems /\ y.id = id /\ y.active /\ gone \in Mems /\ gone.id = old.id /\ ~gone.active
  BY <1>1, <1>3 DEF Promoted, Mems, Cands
<1>5. /\ id \notin Ids(acc.existing) /\ id \notin Ids(acc.promoted) /\ id \notin Ids(acc.merged) /\ id \notin Ids(acc.updated)
      /\ \A m \in olds : m.id # id
  BY <1>1 DEF Consistent, OldOrJudged
<1>6. old.id \in Ids(acc.existing) /\ old.id # id
  BY <1>5 DEF Ids
<1>7. /\ new.existing = existing /\ new.promoted = promoted /\ new.merged = acc.merged
      /\ new.updated = updated /\ new.verdicts = more
  BY DEF Replaces, Curations
<1> HIDE DEF y, gone
<1>8. /\ existing \in Seq(Mems) /\ Range(existing) = {x \in Range(acc.existing) : x.id # old.id} \cup {y}
      /\ Ids(existing) = (Ids(acc.existing) \ {old.id}) \cup {id} /\ OneEach(existing)
  BY <1>2, <1>4, <1>5, WithOneReplaced
<1>9. /\ promoted \in Seq(Mems) /\ Ids(promoted) = Ids(acc.promoted) \cup {id}
      /\ \A x : IsLast(promoted, x) <=> x = y \/ (x.id # id /\ IsLast(acc.promoted, x))
  BY <1>2, <1>4, WithOneMore
<1>10. /\ updated \in Seq(Mems) /\ Ids(updated) = Ids(acc.updated) \cup {old.id}
       /\ Range(updated) = Range(acc.updated) \cup {gone}
  BY <1>2, <1>4, WithOneMore
<1>11. VerdictsFit(list, n, Ids(promoted), more)
  <2>1. /\ VerdictsFit(list, n - 1, Ids(acc.promoted), acc.verdicts) /\ "promoted" \in Verdicts
        /\ id \in Ids(promoted) /\ Ids(acc.promoted) \subseteq Ids(promoted)
    BY <1>9 DEF Consistent, Verdicts
  <2> HIDE DEF promoted
  <2> QED BY <1>1, <2>1, OneMoreVerdict
<1>12. new \in Curations
  <2>1. more \in Seq(Nat \X Verdicts)
    BY <1>11 DEF VerdictsFit
  <2> HIDE DEF more, promoted, existing, updated
  <2> QED BY <2>1, <1>8, <1>9, <1>10 DEF Curations, Replaces, more, promoted, existing, updated, y, gone
<1> HIDE DEF new, more, promoted, existing, updated
<1>13. ASSUME NEW x \in Mems PROVE x \in Range(existing) <=> Stands(new, olds, x)
  <2>1. CASE x.id = id
    <3>1. x \notin Range(acc.existing)
      BY <1>5, <2>1 DEF Range, Ids
    <3>2. x \in Range(existing) <=> x = y
      BY <1>8, <3>1
    <3>3. ~IsLast(acc.merged, x)
      BY <1>5, <2>1 DEF IsLast, Ids
    <3>4. Stands(new, olds, x) <=> x = y
      BY <1>4, <1>5, <1>6, <1>7, <1>9, <1>10, <2>1, <3>3 DEF Stands
    <3> QED BY <3>2, <3>4
  <2>2. CASE x.id = old.id
    <3>1. x \notin Range(existing)
      BY <1>4, <1>6, <1>8, <2>2
    <3>2. ~Stands(new, olds, x)
      BY <1>7, <1>10, <2>2 DEF Stands
    <3> QED BY <3>1, <3>2
  <2>3. CASE x.id # id /\ x.id # old.id
    <3>1. x # y
      BY <1>4, <2>3
    <3>2. Stands(new, olds, x) <=> Stands(acc, olds, x)
      BY <1>7, <1>9, <1>10, <2>3, <3>1 DEF Stands
    <3> QED BY <1>8, <2>3, <3>1, <3>2 DEF Consistent
  <2> QED BY <2>1, <2>2, <2>3
<1>14. Consistent(olds, list, n, new)
  <2>1. \A m \in Range(existing) : m.active
    BY <1>4, <1>8 DEF Consistent
  <2>2. Ids(updated) \cap Ids(existing) = {}
    BY <1>5, <1>6, <1>8, <1>10 DEF Consistent
  <2>3. Ids(existing) \cup Ids(promoted) \cup Ids(acc.merged) \cup Ids(updated) \subseteq OldOrJudged(olds, list, n)
    BY <1>1, <1>6, <1>8, <1>9, <1>10 DEF Consistent
  <2>4. Ids(promoted) \subseteq {list[j] : j \in 1..n}
    BY <1>1, <1>9 DEF Consistent
  <2>5. \A m \in Range(updated) : ~m.active
    BY <1>4, <1>10 DEF Consistent
  <2> QED BY <1>7, <1>8, <1>11, <1>13, <2>1, <2>2, <2>3, <2>4, <2>5 DEF Consistent
<1> QED BY <1>12, <1>14 DEF new, k, id

LEMMA JudgingKeeps ==
    ASSUME NEW olds, NEW list, NEW n, Judging(olds, list, n),
           NEW acc \in Curations, Consistent(olds, list, n - 1, acc)
    PROVE  Judge(acc, list[n]) \in Curations /\ Consistent(olds, list, n, Judge(acc, list[n]))
<1>1. CASE Judge(acc, list[n]) = Rejects(acc, list[n])
  BY <1>1, RejectingKeeps
<1>2. CASE Judge(acc, list[n]) = Adds(acc, list[n], candidates[list[n]])
  BY <1>2, AddingKeeps
<1>3. ASSUME NEW i \in DOMAIN acc.existing, Judge(acc, list[n]) = TakesOver(acc, list[n], candidates[list[n]], i)
      PROVE  Judge(acc, list[n]) \in Curations /\ Consistent(olds, list, n, Judge(acc, list[n]))
  BY <1>3, TakingOverKeeps
<1>4. ASSUME NEW i \in DOMAIN acc.existing, Judge(acc, list[n]) = Replaces(acc, list[n], candidates[list[n]], i)
      PROVE  Judge(acc, list[n]) \in Curations /\ Consistent(olds, list, n, Judge(acc, list[n]))
  BY <1>4, ReplacingKeeps
<1> QED BY <1>1, <1>2, <1>3, <1>4, JudgeIsOneOf

\* A curation judges one candidate after the other.
JudgeF == [p \in Curations \X (DOMAIN candidates) |-> Judge(p[1], p[2])]

LEMMA JudgeIs ==
    ASSUME candidates \in Seq(Cands), NEW acc \in Curations, NEW id \in DOMAIN candidates
    PROVE  Judge(acc, id) \in Curations
<1> DEFINE k == candidates[id]
           y == Promoted(id, k)
<1>1. id \in Nat /\ k \in Cands
  OBVIOUS
<1>2. y \in Mems
  BY <1>1 DEF Promoted, Mems, Cands
<1>3. \A v \in Verdicts : Append(acc.verdicts, <<id, v>>) \in Seq(Nat \X Verdicts)
  BY <1>1, AppendProperties DEF Curations
<1>4. /\ acc.existing \in Seq(Mems) /\ acc.promoted \in Seq(Mems) /\ acc.merged \in Seq(Mems) /\ acc.updated \in Seq(Mems)
      /\ "rejected" \in Verdicts /\ "promoted" \in Verdicts /\ "merged" \in Verdicts
  BY DEF Curations, Verdicts
<1>5. \A m \in Mems : /\ Append(acc.existing, m) \in Seq(Mems) /\ Append(acc.promoted, m) \in Seq(Mems)
                      /\ Append(acc.merged, m) \in Seq(Mems) /\ Append(acc.updated, m) \in Seq(Mems)
                      /\ \A i \in DOMAIN acc.existing : [acc.existing EXCEPT ![i] = m] \in Seq(Mems)
  BY <1>4, AppendProperties
<1> HIDE DEF y
<1>6. Rejects(acc, id) \in Curations
  BY <1>3, <1>4 DEF Rejects, Curations
<1>7. Adds(acc, id, k) \in Curations
  BY <1>2, <1>3, <1>4, <1>5 DEF Adds, Curations, y
<1>8. ASSUME NEW i \in DOMAIN acc.existing PROVE TakesOver(acc, id, k, i) \in Curations
  <2>1. [acc.existing[i] EXCEPT !.content = k.content, !.trust = k.trust] \in Mems
    <3>1. acc.existing[i] \in Mems /\ k.content \in Contents /\ k.trust \in Trusts
      BY <1>1, <1>4 DEF Cands
    <3> HIDE DEF k
    <3> QED BY <3>1 DEF Mems
  <2> QED BY <2>1, <1>3, <1>4, <1>5 DEF TakesOver, Curations
<1>9. ASSUME NEW i \in DOMAIN acc.existing PROVE Replaces(acc, id, k, i) \in Curations
  <2>1. [acc.existing[i] EXCEPT !.active = FALSE] \in Mems
    <3>1. acc.existing[i] \in Mems
      BY <1>4
    <3> QED BY <3>1 DEF Mems
  <2> QED BY <2>1, <1>2, <1>3, <1>4, <1>5 DEF Replaces, Curations, y
<1> QED BY <1>6, <1>7, <1>8, <1>9, JudgeIsOneOf

LEMMA CurationKeeps ==
    ASSUME candidates \in Seq(Cands), NEW olds, NEW list \in Seq(DOMAIN candidates),
           \A n \in 1..Len(list) : Judging(olds, list, n),
           NEW base \in Curations, Consistent(olds, list, 0, base)
    PROVE  LET cur == FoldLeft(Judge, base, list)
           IN  cur \in Curations /\ Consistent(olds, list, Len(list), cur)
<1> DEFINE D == DOMAIN candidates
           Good == {p \in Nat \X Curations : Consistent(olds, list, p[1], p[2])}
<1>1. JudgeF \in [Curations \X D -> Curations]
  <2>1. \A p \in Curations \X D : Judge(p[1], p[2]) \in Curations
    BY JudgeIs
  <2> QED BY <2>1 DEF JudgeF
<1>2. \A a \in Curations, id \in D : JudgeF[<<a, id>>] = Judge(a, id)
  BY DEF JudgeF
<1>3. FoldTypes(Curations, D, base, JudgeF, list)
  BY <1>1 DEF FoldTypes
<1>4. \E f : f = [s \in SUBSET (DOMAIN list) |-> IF s = {} THEN base ELSE Judge(f[s \ {Max(s)}], list[Max(s)])]
  <2>1. PICK f : Unfolded(f, Curations, D, base, JudgeF, list)
    BY <1>3, UnfoldingExists
  <2> HIDE DEF D
  <2>2. \A s \in SUBSET (DOMAIN list) :
           s # {} => JudgeF[<<f[s \ {Max(s)}], list[Max(s)]>>] = Judge(f[s \ {Max(s)}], list[Max(s)])
    BY <1>2, <2>1 DEF Unfolded
  <2>3. f = [s \in SUBSET (DOMAIN list) |-> IF s = {} THEN base ELSE Judge(f[s \ {Max(s)}], list[Max(s)])]
    BY <2>1, <2>2 DEF Unfolded
  <2> QED BY <2>3
<1> DEFINE it == CHOOSE f : f = [s \in SUBSET (DOMAIN list) |->
                                    IF s = {} THEN base ELSE Judge(f[s \ {Max(s)}], list[Max(s)])]
<1>5. it = [s \in SUBSET (DOMAIN list) |-> IF s = {} THEN base ELSE Judge(it[s \ {Max(s)}], list[Max(s)])]
  BY <1>4
<1>6. FoldLeft(Judge, base, list) = it[DOMAIN list]
  BY DEF FoldLeft, MapThenFoldSet
<1> HIDE DEF it
<1>7. Unfolds(it, Curations, base, JudgeF, list)
  <2>1. ASSUME NEW s \in SUBSET (DOMAIN list), s # {} PROVE list[Max(s)] \in D
    <3>1. DOMAIN list = 1..Len(list) /\ Len(list) \in Nat /\ s \in SUBSET (1..Len(list))
      OBVIOUS
    <3>2. Max(s) \in s
      BY <2>1, <3>1, GreatestOf
    <3> QED BY <3>1, <3>2
  <2> QED BY <1>2, <1>5, <2>1 DEF Unfolds
<1>8. <<0, base>> \in Good
  OBVIOUS
<1>9. ASSUME NEW k \in 1..Len(list), NEW a \in Curations, <<k - 1, a>> \in Good PROVE <<k, JudgeF[<<a, list[k]>>]>> \in Good
  <2>1. list[k] \in D /\ JudgeF[<<a, list[k]>>] = Judge(a, list[k]) /\ k \in Nat
    BY <1>2
  <2>2. Consistent(olds, list, k - 1, a) /\ Judging(olds, list, k)
    BY <1>9
  <2> QED BY <2>1, <2>2, JudgingKeeps
<1>10. \A k \in 1..Len(list), a \in Curations : <<k - 1, a>> \in Good => <<k, JudgeF[<<a, list[k]>>]>> \in Good
  BY <1>9
<1> HIDE DEF Good, D
<1>11. it[DOMAIN list] \in Curations /\ <<Len(list), it[DOMAIN list]>> \in Good
  BY <1>3, <1>7, <1>8, <1>10, FoldKeeps
<1> QED BY <1>6, <1>11 DEF Good

\* A table keeps one row of every memory, the one that is saved last.
Tables == {table \in Seq(Mems) : OneEach(table)}
SaveF == [p \in Tables \X Mems |-> SaveOne(p[1], p[2])]

LEMMA SaveOneIs ==
    ASSUME NEW table \in Tables, NEW m \in Mems
    PROVE  /\ SaveOne(table, m) \in Tables
           /\ Range(SaveOne(table, m)) = {x \in Range(table) : x.id # m.id} \cup {m}
           /\ Ids(SaveOne(table, m)) = Ids(table) \cup {m.id}
<1> DEFINE hits == {i \in DOMAIN table : table[i].id = m.id}
           hit == CHOOSE i \in hits : \A j \in hits : i <= j
<1>1. table \in Seq(Mems) /\ OneEach(table) /\ hits \in SUBSET Nat
  BY DEF Tables
<1>2. CASE hits = {}
  <2>1. SaveOne(table, m) = Append(table, m)
    BY <1>2 DEF SaveOne, FirstIndex
  <2>2. m.id \notin Ids(table)
    BY <1>2 DEF Ids
  <2>3. \A x \in Range(table) : x.id # m.id
    BY <1>2 DEF Range
  <2>4. /\ Append(table, m) \in Seq(Mems) /\ OneEach(Append(table, m))
        /\ Range(Append(table, m)) = Range(table) \cup {m} /\ Ids(Append(table, m)) = Ids(table) \cup {m.id}
    BY <1>1, <2>2, WithOneMore
  <2> QED BY <2>1, <2>3, <2>4 DEF Tables
<1>3. CASE hits # {}
  <2>1. hit \in hits
    BY <1>1, <1>3, Smallest
  <2>2. hit # 0
    <3>1. DOMAIN table = 1..Len(table) /\ Len(table) \in Nat
      BY <1>1
    <3> HIDE DEF hit
    <3> QED BY <2>1, <3>1
  <2>3. SaveOne(table, m) = [table EXCEPT ![hit] = m]
    <3>1. FirstIndex(table, LAMBDA old : old.id = m.id) = hit
      BY <1>3 DEF FirstIndex
    <3> QED BY <2>2, <3>1 DEF SaveOne
  <2> HIDE DEF hit
  <2>4. hit \in DOMAIN table /\ table[hit].id = m.id
    BY <2>1
  <2> HIDE DEF hits
  <2> DEFINE new == [table EXCEPT ![hit] = m]
  <2>5. /\ new \in Seq(Mems) /\ Range(new) = {x \in Range(table) : x.id # table[hit].id} \cup {m}
        /\ Ids(new) = (Ids(table) \ {table[hit].id}) \cup {m.id} /\ OneEach(new)
    <3>1. PICK i \in DOMAIN table : i = hit
      BY <2>4
    <3>2. table \in Seq(Mems) /\ OneEach(table) /\ (m.id = table[i].id \/ m.id \notin Ids(table))
      BY <1>1, <2>4, <3>1
    <3>3. /\ [table EXCEPT ![i] = m] \in Seq(Mems)
          /\ Range([table EXCEPT ![i] = m]) = {x \in Range(table) : x.id # table[i].id} \cup {m}
          /\ Ids([table EXCEPT ![i] = m]) = (Ids(table) \ {table[i].id}) \cup {m.id}
          /\ OneEach([table EXCEPT ![i] = m])
      <4> HIDE DEF new
      <4> QED BY <3>2, WithOneReplaced
    <3> QED BY <3>1, <3>3
  <2>6. m.id \in Ids(table)
    BY <2>4 DEF Ids
  <2> HIDE DEF new
  <2> QED BY <2>3, <2>4, <2>5, <2>6 DEF Tables, new
<1> QED BY <1>2, <1>3

\* What a table holds after the first n memories of a list.
Saved(table, list, n, new) ==
    /\ \A x : x \in Range(new) <=>
                 \/ \E i \in 1..n : list[i] = x /\ \A j \in 1..n : j > i => list[j].id # x.id
                 \/ x \in Range(table) /\ \A j \in 1..n : list[j].id # x.id
    /\ Ids(new) = Ids(table) \cup {list[j].id : j \in 1..n}

LEMMA SavingOneMore ==
    ASSUME NEW table, NEW list, NEW n \in Nat, n - 1 \in Nat, NEW old \in Tables, list[n] \in Mems, Saved(table, list, n - 1, old)
    PROVE  Saved(table, list, n, SaveOne(old, list[n]))
<1> DEFINE new == SaveOne(old, list[n])
           m == list[n]
<1>1. Range(new) = {x \in Range(old) : x.id # m.id} \cup {m} /\ Ids(new) = Ids(old) \cup {m.id}
  BY SaveOneIs
<1> HIDE DEF new
<1>2. \A i : i \in 1..n <=> i \in 1..n - 1 \/ i = n
  OBVIOUS
<1>3. ASSUME NEW x
      PROVE  x \in Range(new) <=>
                 \/ \E i \in 1..n : list[i] = x /\ \A j \in 1..n : j > i => list[j].id # x.id
                 \/ x \in Range(table) /\ \A j \in 1..n : list[j].id # x.id
  <2>1. x \in Range(new) <=> x = m \/ (x.id # m.id /\ x \in Range(old))
    BY <1>1
  <2>2. x \in Range(old) <=>
                 \/ \E i \in 1..n - 1 : list[i] = x /\ \A j \in 1..n - 1 : j > i => list[j].id # x.id
                 \/ x \in Range(table) /\ \A j \in 1..n - 1 : list[j].id # x.id
    BY DEF Saved
  <2>3. (x \in Range(table) /\ \A j \in 1..n : list[j].id # x.id)
        <=> (x \in Range(table) /\ x.id # m.id /\ \A j \in 1..n - 1 : list[j].id # x.id)
    BY <1>2
  <2>4. ASSUME NEW i \in 1..n, list[i] = x, \A j \in 1..n : j > i => list[j].id # x.id
        PROVE  x = m \/ (x.id # m.id /\ \E h \in 1..n - 1 : list[h] = x /\ \A j \in 1..n - 1 : j > h => list[j].id # x.id)
    <3>1. CASE i = n
      BY <2>4, <3>1
    <3>2. CASE i \in 1..n - 1
      <4>1. n > i /\ n \in 1..n
        BY <3>2
      <4>2. x.id # m.id
        BY <2>4, <4>1
      <4> QED BY <1>2, <2>4, <3>2, <4>2
    <3> QED BY <1>2, <3>1, <3>2
  <2>5. ASSUME NEW i \in 1..n - 1, list[i] = x, \A j \in 1..n - 1 : j > i => list[j].id # x.id, x.id # m.id
        PROVE  i \in 1..n /\ \A j \in 1..n : j > i => list[j].id # x.id
    BY <1>2, <2>5
  <2>6. x = m => n \in 1..n /\ list[n] = x /\ \A j \in 1..n : j > n => list[j].id # x.id
    <3>1. n \in 1..n /\ \A j \in 1..n : ~ (j > n)
      OBVIOUS
    <3> QED BY <3>1
  <2> HIDE DEF m
  <2> QED BY <2>1, <2>2, <2>3, <2>4, <2>5, <2>6
<1>4. Ids(new) = Ids(table) \cup {list[j].id : j \in 1..n}
  <2>1. {list[j].id : j \in 1..n} = {list[j].id : j \in 1..n - 1} \cup {m.id}
    BY <1>2
  <2> QED BY <1>1, <2>1 DEF Saved
<1> QED BY <1>3, <1>4 DEF Saved, new

LEMMA SavingIs ==
    ASSUME NEW table \in Tables, NEW list \in Seq(Mems)
    PROVE  LET new == FoldLeft(SaveOne, table, list)
           IN  new \in Tables /\ Saved(table, list, Len(list), new)
<1> DEFINE Good == {p \in Nat \X Tables : Saved(table, list, p[1], p[2])}
<1>1. SaveF \in [Tables \X Mems -> Tables]
  <2>1. \A p \in Tables \X Mems : SaveOne(p[1], p[2]) \in Tables
    BY SaveOneIs
  <2> QED BY <2>1 DEF SaveF
<1>2. \A a \in Tables, m \in Mems : SaveF[<<a, m>>] = SaveOne(a, m)
  BY DEF SaveF
<1>3. FoldTypes(Tables, Mems, table, SaveF, list)
  BY <1>1 DEF FoldTypes
<1>4. \E f : f = [s \in SUBSET (DOMAIN list) |-> IF s = {} THEN table ELSE SaveOne(f[s \ {Max(s)}], list[Max(s)])]
  <2>1. PICK f : Unfolded(f, Tables, Mems, table, SaveF, list)
    BY <1>3, UnfoldingExists
  <2>2. \A s \in SUBSET (DOMAIN list) :
           s # {} => SaveF[<<f[s \ {Max(s)}], list[Max(s)]>>] = SaveOne(f[s \ {Max(s)}], list[Max(s)])
    BY <1>2, <2>1 DEF Unfolded
  <2>3. f = [s \in SUBSET (DOMAIN list) |-> IF s = {} THEN table ELSE SaveOne(f[s \ {Max(s)}], list[Max(s)])]
    BY <2>1, <2>2 DEF Unfolded
  <2> QED BY <2>3
<1> DEFINE it == CHOOSE f : f = [s \in SUBSET (DOMAIN list) |->
                                    IF s = {} THEN table ELSE SaveOne(f[s \ {Max(s)}], list[Max(s)])]
<1>5. it = [s \in SUBSET (DOMAIN list) |-> IF s = {} THEN table ELSE SaveOne(it[s \ {Max(s)}], list[Max(s)])]
  BY <1>4
<1>6. FoldLeft(SaveOne, table, list) = it[DOMAIN list]
  BY DEF FoldLeft, MapThenFoldSet
<1> HIDE DEF it
<1>7. Unfolds(it, Tables, table, SaveF, list)
  <2>1. ASSUME NEW s \in SUBSET (DOMAIN list), s # {} PROVE list[Max(s)] \in Mems
    <3>1. DOMAIN list = 1..Len(list) /\ Len(list) \in Nat /\ s \in SUBSET (1..Len(list))
      OBVIOUS
    <3>2. Max(s) \in s
      BY <2>1, <3>1, GreatestOf
    <3> QED BY <3>1, <3>2
  <2> QED BY <1>2, <1>5, <2>1 DEF Unfolds
<1>8. <<0, table>> \in Good
  <2>1. 1..0 = {}
    OBVIOUS
  <2> QED BY <2>1 DEF Saved
<1>9. ASSUME NEW k \in 1..Len(list), NEW a \in Tables, <<k - 1, a>> \in Good PROVE <<k, SaveF[<<a, list[k]>>]>> \in Good
  <2>1. list[k] \in Mems /\ SaveF[<<a, list[k]>>] = SaveOne(a, list[k]) /\ k \in Nat /\ k - 1 \in Nat
    BY <1>2
  <2>2. Saved(table, list, k - 1, a)
    BY <1>9
  <2> QED BY <2>1, <2>2, SaveOneIs, SavingOneMore
<1>10. \A k \in 1..Len(list), a \in Tables : <<k - 1, a>> \in Good => <<k, SaveF[<<a, list[k]>>]>> \in Good
  BY <1>9
<1> HIDE DEF Good
<1>11. it[DOMAIN list] \in Tables /\ <<Len(list), it[DOMAIN list]>> \in Good
  BY <1>3, <1>7, <1>8, <1>10, FoldKeeps
<1> QED BY <1>6, <1>11 DEF Good

\* The newest first: of the first n numbers the ones of a set, each once.
Picked(n, S, k, r) ==
    /\ \A i, j \in DOMAIN r : r[i] = r[j] => i = j
    /\ Range(r) = {i \in 1..n : i \in S /\ i > n - k}

LEMMA NewestFirstIs ==
    ASSUME NEW n \in Nat, NEW S
    PROVE  /\ NewestFirst(n, S) \in Seq(1..n)
           /\ \A i, j \in DOMAIN NewestFirst(n, S) : NewestFirst(n, S)[i] = NewestFirst(n, S)[j] => i = j
           /\ Range(NewestFirst(n, S)) = S \cap 1..n
<1> DEFINE A == Seq(1..n)
           F == [p \in A \X (1..n) |-> IF p[2] \in S THEN Append(p[1], p[2]) ELSE p[1]]
           list == [i \in 1..n |-> n + 1 - i]
           Good == {p \in Nat \X A : Picked(n, S, p[1], p[2])}
<1>1. F \in [A \X (1..n) -> A]
  <2>1. \A a \in A, i \in 1..n : Append(a, i) \in A
    BY AppendProperties
  <2> QED BY <2>1
<1>2. \A a \in A, i \in 1..n : F[<<a, i>>] = IF i \in S THEN Append(a, i) ELSE a
  OBVIOUS
<1>3. /\ list \in Seq(1..n) /\ Len(list) = n /\ DOMAIN list = 1..n /\ << >> \in A
      /\ \A k \in 1..n : list[k] = n + 1 - k /\ list[k] \in 1..n
  OBVIOUS
<1> HIDE DEF F, list
<1>4. FoldTypes(A, 1..n, << >>, F, list)
  BY <1>1, <1>3 DEF FoldTypes
<1> DEFINE Step(f, s) == IF list[Max(s)] \in S THEN Append(f[s \ {Max(s)}], list[Max(s)]) ELSE f[s \ {Max(s)}]
<1>5. \E f : f = [s \in SUBSET (DOMAIN list) |-> IF s = {} THEN << >> ELSE Step(f, s)]
  <2>1. PICK f : Unfolded(f, A, 1..n, << >>, F, list)
    BY <1>4, UnfoldingExists
  <2> HIDE DEF A
  <2>2. \A s \in SUBSET (DOMAIN list) : s # {} => F[<<f[s \ {Max(s)}], list[Max(s)]>>] = Step(f, s)
    BY <1>2, <2>1 DEF Unfolded
  <2> HIDE DEF Step
  <2>3. f = [s \in SUBSET (DOMAIN list) |-> IF s = {} THEN << >> ELSE Step(f, s)]
    BY <2>1, <2>2 DEF Unfolded
  <2> QED BY <2>3
<1> DEFINE it == CHOOSE f : f = [s \in SUBSET (DOMAIN list) |-> IF s = {} THEN << >> ELSE Step(f, s)]
<1>6. it = [s \in SUBSET (DOMAIN list) |-> IF s = {} THEN << >> ELSE Step(it, s)]
  <2> HIDE DEF Step
  <2> QED BY <1>5
<1>7. NewestFirst(n, S) = it[DOMAIN list]
  BY DEF NewestFirst, FoldLeft, MapThenFoldSet, list
<1> HIDE DEF it
<1>8. Unfolds(it, A, << >>, F, list)
  <2>1. ASSUME NEW s \in SUBSET (DOMAIN list), s # {} PROVE list[Max(s)] \in 1..n
    <3>1. s \in SUBSET (1..n)
      BY <1>3
    <3>2. Max(s) \in 1..n
      BY <2>1, <3>1, GreatestOf
    <3> QED BY <1>3, <3>2
  <2>2. \A s \in SUBSET (DOMAIN list) : s # {} => it[s] = Step(it, s)
    <3> HIDE DEF Step
    <3> QED BY <1>6
  <2> HIDE DEF A
  <2>3. \A s \in SUBSET (DOMAIN list) :
           s # {} /\ it[s \ {Max(s)}] \in A => F[<<it[s \ {Max(s)}], list[Max(s)]>>] = Step(it, s)
    BY <1>2, <2>1
  <2> HIDE DEF Step
  <2> QED BY <1>6, <2>2, <2>3 DEF Unfolds
<1> HIDE DEF Step
<1>9. <<0, << >>>> \in Good
  <2>1. \A i \in 1..n : ~ (i > n - 0)
    OBVIOUS
  <2>2. DOMAIN << >> = {} /\ Range(<< >>) = {}
    BY DEF Range
  <2> QED BY <1>3, <2>1, <2>2 DEF Picked
<1>10. ASSUME NEW k \in 1..n, NEW a \in A, Picked(n, S, k - 1, a)
       PROVE  Picked(n, S, k, F[<<a, list[k]>>])
  <2> DEFINE x == n + 1 - k
  <2>1. x \in 1..n /\ list[k] = x /\ F[<<a, x>>] = IF x \in S THEN Append(a, x) ELSE a
    BY <1>2, <1>3
  <2>2. \A i \in 1..n : i > n - k <=> i > n - (k - 1) \/ i = x
    OBVIOUS
  <2>3. x \notin Range(a)
    BY <1>10 DEF Picked
  <2> HIDE DEF x
  <2>4. CASE x \in S
    <3> DEFINE more == Append(a, x)
               m == Len(a)
    <3>1. /\ m \in Nat /\ DOMAIN a = 1..m /\ DOMAIN more = 1..m + 1 /\ more[m + 1] = x
          /\ \A j \in 1..m : more[j] = a[j]
      BY <2>1, AppendProperties
    <3> HIDE DEF more, m
    <3>2. Range(more) = Range(a) \cup {x}
      BY <3>1 DEF Range
    <3>3. \A i, j \in 1..m + 1 : more[i] = more[j] => i = j
      <4>1. \A j \in 1..m : more[j] # x
        BY <2>3, <3>1 DEF Range
      <4>2. \A j \in 1..m + 1 : j \in 1..m \/ j = m + 1
        BY <3>1
      <4>3. \A i, j \in 1..m : a[i] = a[j] => i = j
        BY <1>10, <3>1 DEF Picked
      <4> QED BY <3>1, <4>1, <4>2, <4>3
    <3>4. Range(more) = {i \in 1..n : i \in S /\ i > n - k}
      BY <1>10, <2>1, <2>2, <2>4, <3>2 DEF Picked
    <3>5. F[<<a, list[k]>>] = more
      BY <2>1, <2>4 DEF more
    <3> QED BY <3>1, <3>3, <3>4, <3>5 DEF Picked
  <2>5. CASE x \notin S
    <3>1. F[<<a, list[k]>>] = a
      BY <2>1, <2>5
    <3>2. {i \in 1..n : i \in S /\ i > n - k} = {i \in 1..n : i \in S /\ i > n - (k - 1)}
      BY <2>2, <2>5
    <3> QED BY <1>10, <3>1, <3>2 DEF Picked
  <2> QED BY <2>4, <2>5
<1>11. \A k \in 1..Len(list), a \in A : <<k - 1, a>> \in Good => <<k, F[<<a, list[k]>>]>> \in Good
  <2> SUFFICES ASSUME NEW k \in 1..n, NEW a \in A, <<k - 1, a>> \in Good
               PROVE  <<k, F[<<a, list[k]>>]>> \in Good
    BY <1>3
  <2>1. list[k] \in 1..n
    BY <1>3
  <2>2. F[<<a, list[k]>>] \in A /\ Picked(n, S, k - 1, a)
    BY <1>1, <2>1
  <2> QED BY <1>10, <2>2
<1> HIDE DEF Good, A
<1>12. it[DOMAIN list] \in A /\ <<Len(list), it[DOMAIN list]>> \in Good
  <2>1. PICK B, base : B = 1..n /\ base = << >>
    OBVIOUS
  <2>2. FoldTypes(A, B, base, F, list) /\ Unfolds(it, A, base, F, list) /\ <<0, base>> \in Good
    BY <1>4, <1>8, <1>9, <2>1
  <2> QED BY <1>11, <2>2, FoldKeeps
<1>13. Picked(n, S, n, NewestFirst(n, S)) /\ NewestFirst(n, S) \in A
  BY <1>3, <1>7, <1>12 DEF Good
<1>14. {i \in 1..n : i \in S /\ i > n - n} = S \cap 1..n
  OBVIOUS
<1> QED BY <1>13, <1>14 DEF Picked, A

Actives == {m \in Range(memories) : m.active}

MemoryInv ==
    /\ candidates \in Seq(Cands) /\ memories \in Tables
    /\ \A d \in Ids(memories) : d \in DOMAIN candidates /\ candidates[d].status # "candidate"
    /\ JudgementIsSaved

LEMMA IdsAre == ASSUME NEW list PROVE Ids(list) = {m.id : m \in Range(list)}
BY DEF Ids, Range

\* The last words of two lists, read one after the other.
LEMMA LastOfTwo ==
    ASSUME NEW first \in Seq(Mems), NEW second \in Seq(Mems)
    PROVE  /\ first \o second \in Seq(Mems)
           /\ Ids(first \o second) = Ids(first) \cup Ids(second)
           /\ \A x : IsLast(first \o second, x) <=> IsLast(second, x) \/ (x.id \notin Ids(second) /\ IsLast(first, x))
<1> DEFINE both == first \o second
           a == Len(first)
           b == Len(second)
<1>1. /\ both \in Seq(Mems) /\ a \in Nat /\ b \in Nat
      /\ DOMAIN first = 1..a /\ DOMAIN second = 1..b /\ DOMAIN both = 1..a + b
      /\ \A i \in 1..a : both[i] = first[i]
      /\ \A i \in 1..b : both[a + i] = second[i]
  OBVIOUS
<1> HIDE DEF both, a, b
<1>2. \A i \in 1..a + b : i \in 1..a \/ \E j \in 1..b : i = a + j
  <2> SUFFICES ASSUME NEW i \in 1..a + b, i \notin 1..a PROVE \E j \in 1..b : i = a + j
    OBVIOUS
  <2>1. i - a \in 1..b /\ i = a + (i - a)
    BY <1>1
  <2> QED BY <2>1
<1>3. \A j \in 1..b : a + j \in 1..a + b
  BY <1>1
<1>4. \A i \in 1..a : i \in 1..a + b
  BY <1>1
<1>5. Ids(both) = Ids(first) \cup Ids(second)
  <2>1. ASSUME NEW d \in Ids(both) PROVE d \in Ids(first) \cup Ids(second)
    <3>1. PICK i \in 1..a + b : d = both[i].id
      BY <1>1, <2>1 DEF Ids
    <3> QED BY <1>1, <1>2, <3>1, ZenonT(30) DEF Ids
  <2>2. ASSUME NEW d \in Ids(first) PROVE d \in Ids(both)
    BY <1>1, <1>4, <2>2 DEF Ids
  <2>3. ASSUME NEW d \in Ids(second) PROVE d \in Ids(both)
    <3>1. PICK j \in 1..b : d = second[j].id
      BY <1>1, <2>3 DEF Ids
    <3>2. a + j \in DOMAIN both /\ d = both[a + j].id
      BY <1>1, <1>3, <3>1
    <3> QED BY <3>2 DEF Ids
  <2> QED BY <2>1, <2>2, <2>3
<1>6. ASSUME NEW x, IsLast(both, x) PROVE IsLast(second, x) \/ (x.id \notin Ids(second) /\ IsLast(first, x))
  <2>1. PICK i \in 1..a + b : both[i] = x /\ \A j \in 1..a + b : j > i => both[j].id # x.id
    BY <1>1, <1>6 DEF IsLast
  <2>2. CASE i \in 1..a
    <3>1. \A j \in 1..b : second[j].id # x.id
      <4> SUFFICES ASSUME NEW j \in 1..b PROVE second[j].id # x.id
        OBVIOUS
      <4>1. a + j \in 1..a + b /\ a + j > i
        BY <1>1, <2>2
      <4> QED BY <1>1, <2>1, <4>1
    <3>2. x.id \notin Ids(second)
      BY <1>1, <3>1 DEF Ids
    <3>3. IsLast(first, x)
      BY <1>1, <1>4, <2>1, <2>2 DEF IsLast
    <3> QED BY <3>2, <3>3
  <2>3. ASSUME NEW j \in 1..b, i = a + j PROVE IsLast(second, x)
    <3>1. second[j] = x
      BY <1>1, <2>1, <2>3
    <3>2. \A h \in 1..b : h > j => second[h].id # x.id
      <4> SUFFICES ASSUME NEW h \in 1..b, h > j PROVE second[h].id # x.id
        OBVIOUS
      <4>1. a + h \in 1..a + b /\ a + h > i
        BY <1>1, <2>3
      <4> QED BY <1>1, <2>1, <4>1
    <3> QED BY <1>1, <3>1, <3>2 DEF IsLast
  <2> QED BY <1>2, <2>2, <2>3
<1>7. ASSUME NEW x, IsLast(second, x) PROVE IsLast(both, x)
  <2>1. PICK j \in 1..b : second[j] = x /\ \A h \in 1..b : h > j => second[h].id # x.id
    BY <1>1, <1>7 DEF IsLast
  <2>2. a + j \in 1..a + b /\ both[a + j] = x
    BY <1>1, <1>3, <2>1
  <2>3. \A h \in 1..a + b : h > a + j => both[h].id # x.id
    <3> SUFFICES ASSUME NEW h \in 1..a + b, h > a + j PROVE both[h].id # x.id
      OBVIOUS
    <3>1. h - a \in 1..b /\ h - a > j /\ a + (h - a) = h
      BY <1>1
    <3>2. both[a + (h - a)] = second[h - a] /\ second[h - a].id # x.id
      BY <1>1, <2>1, <3>1
    <3> QED BY <3>1, <3>2
  <2> QED BY <1>1, <2>2, <2>3 DEF IsLast
<1>8. ASSUME NEW x, x.id \notin Ids(second), IsLast(first, x) PROVE IsLast(both, x)
  <2>1. PICK i \in 1..a : first[i] = x /\ \A h \in 1..a : h > i => first[h].id # x.id
    BY <1>1, <1>8 DEF IsLast
  <2>2. i \in 1..a + b /\ both[i] = x
    BY <1>1, <1>4, <2>1
  <2>3. \A h \in 1..a + b : h > i => both[h].id # x.id
    <3> SUFFICES ASSUME NEW h \in 1..a + b, h > i PROVE both[h].id # x.id
      OBVIOUS
    <3>1. CASE h \in 1..a
      BY <1>1, <2>1, <3>1
    <3>2. ASSUME NEW j \in 1..b, h = a + j PROVE both[h].id # x.id
      BY <1>1, <1>8, <3>2 DEF Ids
    <3> QED BY <1>2, <3>1, <3>2
  <2> QED BY <1>1, <2>2, <2>3 DEF IsLast
<1> QED BY <1>1, <1>5, <1>6, <1>7, <1>8 DEF both

\* The active memories of the table are listed, and the candidates nobody has judged.
LEMMA ListedIs ==
    ASSUME memories \in Tables
    PROVE  Listed \in Seq(Mems) /\ OneEach(Listed) /\ Range(Listed) = Actives
<1> DEFINE n == Len(memories)
           S == {i \in DOMAIN memories : memories[i].active}
           places == NewestFirst(n, S)
<1>1. memories \in Seq(Mems) /\ OneEach(memories) /\ n \in Nat /\ DOMAIN memories = 1..n
  BY DEF Tables
<1>2. /\ places \in Seq(1..n) /\ Range(places) = S \cap 1..n
      /\ \A i, j \in DOMAIN places : places[i] = places[j] => i = j
  <2> HIDE DEF n, S
  <2> QED BY <1>1, NewestFirstIs
<1>3. Listed = [k \in DOMAIN places |-> memories[places[k]]]
  BY DEF Listed
<1> HIDE DEF places
<1>4. DOMAIN places = 1..Len(places) /\ Len(places) \in Nat /\ \A k \in DOMAIN places : places[k] \in 1..n
  BY <1>2
<1>5. DOMAIN Listed = DOMAIN places /\ \A k \in DOMAIN places : Listed[k] = memories[places[k]] /\ Listed[k] \in Mems
  BY <1>1, <1>3, <1>4
<1>6. Listed \in Seq(Mems)
  BY <1>3, <1>4, <1>5
<1>7. OneEach(Listed)
  BY <1>1, <1>2, <1>4, <1>5 DEF OneEach
<1>8. Range(Listed) = Actives
  <2>1. ASSUME NEW m \in Range(Listed) PROVE m \in Actives
    <3>1. PICK k \in DOMAIN places : m = memories[places[k]]
      BY <1>5, <2>1 DEF Range
    <3>2. places[k] \in S
      BY <1>2, <3>1 DEF Range
    <3> QED BY <3>1, <3>2 DEF Actives, Range
  <2>2. ASSUME NEW m \in Actives PROVE m \in Range(Listed)
    <3>1. PICK i \in 1..n : memories[i] = m /\ i \in S
      BY <1>1, <2>2 DEF Actives, Range
    <3>2. i \in Range(places)
      BY <1>2, <3>1
    <3>3. PICK k \in DOMAIN places : places[k] = i
      BY <3>2 DEF Range
    <3> QED BY <1>5, <3>1, <3>3 DEF Range
  <2> QED BY <2>1, <2>2
<1> QED BY <1>6, <1>7, <1>8

LEMMA PendingIs ==
    ASSUME candidates \in Seq(Cands), NEW s
    PROVE  /\ Pending(s) \in Seq(DOMAIN candidates)
           /\ \A i, j \in DOMAIN Pending(s) : Pending(s)[i] = Pending(s)[j] => i = j
           /\ \A i \in DOMAIN Pending(s) : candidates[Pending(s)[i]].status = "candidate"
<1> DEFINE n == Len(candidates)
           S == {i \in DOMAIN candidates : candidates[i].session = s /\ candidates[i].status = "candidate"}
<1>1. n \in Nat /\ DOMAIN candidates = 1..n
  OBVIOUS
<1>2. Pending(s) = NewestFirst(n, S)
  BY DEF Pending
<1>3. /\ Pending(s) \in Seq(1..n) /\ Range(Pending(s)) = S \cap 1..n
      /\ \A i, j \in DOMAIN Pending(s) : Pending(s)[i] = Pending(s)[j] => i = j
  <2> HIDE DEF n, S
  <2> QED BY <1>1, <1>2, NewestFirstIs
<1>4. \A i \in DOMAIN Pending(s) : Pending(s)[i] \in S
  BY <1>3 DEF Range
<1> QED BY <1>1, <1>3, <1>4

\* What a curation ends with.
LEMMA CurationIs ==
    ASSUME MemoryInv, NEW s
    PROVE  /\ Curation(s) \in Curations
           /\ Consistent(Actives, Pending(s), Len(Pending(s)), Curation(s))
<1> DEFINE list == Pending(s)
           base == [existing |-> Listed, promoted |-> << >>, merged |-> << >>, updated |-> << >>, verdicts |-> << >>]
<1>1. candidates \in Seq(Cands) /\ memories \in Tables /\ memories \in Seq(Mems)
  BY DEF MemoryInv, Tables
<1>2. Listed \in Seq(Mems) /\ OneEach(Listed) /\ Range(Listed) = Actives
  BY <1>1, ListedIs
<1>3. /\ list \in Seq(DOMAIN candidates) /\ \A i, j \in DOMAIN list : list[i] = list[j] => i = j
      /\ \A i \in DOMAIN list : candidates[list[i]].status = "candidate"
  BY <1>1, PendingIs
<1>4. Actives \in SUBSET Mems /\ \A m \in Actives : m.id \in Ids(memories)
  BY <1>1 DEF Actives, Range, Ids
<1>5. \A n \in 1..Len(list) : Judging(Actives, list, n)
  <2>1. \A j \in DOMAIN list, m \in Actives : m.id # list[j]
    BY <1>3, <1>4 DEF MemoryInv
  <2> QED BY <1>1, <1>3, <1>4, <2>1 DEF Judging
<1>6. base \in Curations
  <2>1. << >> \in Seq(Mems) /\ << >> \in Seq(Nat \X Verdicts)
    OBVIOUS
  <2> QED BY <1>2, <2>1 DEF Curations
<1>7. Consistent(Actives, list, 0, base)
  <2>1. /\ base.existing = Listed /\ base.promoted = << >> /\ base.merged = << >> /\ base.updated = << >>
        /\ base.verdicts = << >>
    OBVIOUS
  <2> HIDE DEF base
  <2>2. Ids(<< >>) = {} /\ Range(<< >>) = {} /\ \A x : ~IsLast(<< >>, x)
    BY DEF Ids, Range, IsLast
  <2>3. VerdictsFit(list, 0, {}, << >>)
    <3>1. 1..0 = {} /\ << >> \in Seq(Nat \X Verdicts) /\ Len(<< >>) = 0
      OBVIOUS
    <3> QED BY <3>1 DEF VerdictsFit
  <2>4. Ids(Listed) \subseteq {m.id : m \in Actives}
    BY <1>2, IdsAre
  <2>5. \A x \in Mems : x \in Range(Listed) <=> Stands(base, Actives, x)
    BY <1>2, <2>1, <2>2 DEF Stands
  <2>6. \A m \in Range(Listed) : m.active
    BY <1>2 DEF Actives
  <2> QED BY <1>2, <2>1, <2>2, <2>3, <2>4, <2>5, <2>6 DEF Consistent, OldOrJudged
<1>8. Curation(s) = FoldLeft(Judge, base, list)
  BY DEF Curation
<1> HIDE DEF base, list
<1>9. LET cur == FoldLeft(Judge, base, list) IN cur \in Curations /\ Consistent(Actives, list, Len(list), cur)
  BY <1>1, <1>3, <1>5, <1>6, <1>7, CurationKeeps
<1> QED BY <1>8, <1>9 DEF list

\* The lists of a curation, saved one by one, leave what it ends with.
LEMMA SavedIsWhatStands ==
    ASSUME MemoryInv, NEW cur \in Curations, NEW list, NEW n, Consistent(Actives, list, n, cur),
           NEW new, new = FoldLeft(SaveOne, memories, Persisted(cur))
    PROVE  /\ new \in Tables
           /\ Ids(new) = Ids(memories) \cup Ids(cur.promoted) \cup Ids(cur.merged) \cup Ids(cur.updated)
           /\ {m \in Range(new) : m.active} = Range(cur.existing)
<1> DEFINE two == cur.promoted \o cur.merged
           all == two \o cur.updated
<1>1. /\ cur.promoted \in Seq(Mems) /\ cur.merged \in Seq(Mems) /\ cur.updated \in Seq(Mems) /\ cur.existing \in Seq(Mems)
      /\ memories \in Tables
  BY DEF Curations, MemoryInv
<1>2. /\ two \in Seq(Mems) /\ Ids(two) = Ids(cur.promoted) \cup Ids(cur.merged)
      /\ \A x : IsLast(two, x) <=> IsLast(cur.merged, x) \/ (x.id \notin Ids(cur.merged) /\ IsLast(cur.promoted, x))
  BY <1>1, LastOfTwo
<1>3. Persisted(cur) = all
  BY <1>1 DEF Persisted
<1> HIDE DEF two
<1>4. /\ all \in Seq(Mems) /\ Ids(all) = Ids(two) \cup Ids(cur.updated)
      /\ \A x : IsLast(all, x) <=> IsLast(cur.updated, x) \/ (x.id \notin Ids(cur.updated) /\ IsLast(two, x))
  BY <1>1, <1>2, LastOfTwo
<1> HIDE DEF all
<1>5. new \in Tables /\ Saved(memories, all, Len(all), new)
  <2>1. LET t == FoldLeft(SaveOne, memories, all) IN t \in Tables /\ Saved(memories, all, Len(all), t)
    BY <1>1, <1>4, SavingIs
  <2> QED BY <1>3, <2>1
<1>6. DOMAIN all = 1..Len(all)
  BY <1>4
<1>7. Ids(new) = Ids(memories) \cup Ids(all)
  BY <1>5, <1>6 DEF Saved, Ids
<1>8. \A x : x \in Range(new) <=> IsLast(all, x) \/ (x \in Range(memories) /\ x.id \notin Ids(all))
  <2> SUFFICES ASSUME NEW x PROVE x \in Range(new) <=> IsLast(all, x) \/ (x \in Range(memories) /\ x.id \notin Ids(all))
    OBVIOUS
  <2>1. x.id \notin Ids(all) <=> \A j \in 1..Len(all) : all[j].id # x.id
    BY <1>6 DEF Ids
  <2> QED BY <1>5, <1>6, <2>1 DEF Saved, IsLast
<1>9. ASSUME NEW x \in Mems PROVE (x \in Range(new) /\ x.active) <=> x \in Range(cur.existing)
  <2>1. x \in Range(cur.existing) <=> Stands(cur, Actives, x)
    BY DEF Consistent
  <2>2. x \in Range(cur.existing) => x.active
    BY DEF Consistent
  <2>3. IsLast(cur.updated, x) => ~x.active
    <3>1. IsLast(cur.updated, x) => x \in Range(cur.updated)
      BY DEF IsLast, Range
    <3> QED BY <3>1 DEF Consistent
  <2>4. x \in Actives <=> x \in Range(memories) /\ x.active
    BY DEF Actives
  <2>5. IsLast(cur.updated, x) => x.id \in Ids(cur.updated)
    BY DEF IsLast, Ids
  <2> QED BY <1>2, <1>4, <1>8, <2>1, <2>2, <2>3, <2>4, <2>5 DEF Stands
<1>10. (\A x \in Range(new) : x \in Mems) /\ \A x \in Range(cur.existing) : x \in Mems
  <2>1. new \in Seq(Mems)
    BY <1>5 DEF Tables
  <2> QED BY <1>1, <2>1 DEF Range
<1>11. {m \in Range(new) : m.active} = Range(cur.existing)
  BY <1>9, <1>10
<1> QED BY <1>2, <1>4, <1>5, <1>7, <1>11

\* A candidate is marked by a verdict on it.
LEMMA MarkedIs ==
    ASSUME candidates \in Seq(Cands), NEW verdicts, Range(verdicts) \subseteq Nat \X Verdicts
    PROVE  /\ Marked(verdicts) \in Seq(Cands) /\ DOMAIN Marked(verdicts) = DOMAIN candidates
           /\ \A i \in DOMAIN candidates :
                 \/ \E v \in Range(verdicts) : v[1] = i /\ Marked(verdicts)[i].status = v[2]
                 \/ Marked(verdicts)[i] = candidates[i] /\ \A v \in Range(verdicts) : v[1] # i
<1> DEFINE new == Marked(verdicts)
<1>1. ASSUME NEW i \in DOMAIN candidates
      PROVE  /\ new[i] \in Cands
             /\ \/ \E v \in Range(verdicts) : v[1] = i /\ new[i].status = v[2]
                \/ new[i] = candidates[i] /\ \A v \in Range(verdicts) : v[1] # i
  <2>0. candidates[i] \in Cands
    OBVIOUS
  <2>1. CASE \E v \in Range(verdicts) : v[1] = i
    <3>1. PICK v : v = CHOOSE w \in Range(verdicts) : w[1] = i
      OBVIOUS
    <3>2. v \in Range(verdicts) /\ v[1] = i
      BY <2>1, <3>1
    <3>3. new[i] = [candidates[i] EXCEPT !.status = v[2]]
      BY <2>1, <3>1 DEF Marked
    <3>4. v[2] \in Verdicts
      BY <3>2
    <3>5. new[i] \in Cands /\ new[i].status = v[2]
      <4> HIDE DEF new
      <4> QED BY <2>0, <3>3, <3>4 DEF Cands
    <3> QED BY <3>2, <3>5
  <2>2. CASE ~ \E v \in Range(verdicts) : v[1] = i
    <3>1. new[i] = candidates[i]
      BY <2>2 DEF Marked
    <3> QED BY <2>0, <2>2, <3>1
  <2> QED BY <2>1, <2>2
<1>2. DOMAIN new = DOMAIN candidates
  BY DEF Marked
<1>3. new = [i \in 1..Len(candidates) |-> new[i]]
  BY DEF Marked
<1> HIDE DEF new
<1>4. new \in Seq(Cands)
  <2>1. Len(candidates) \in Nat /\ DOMAIN candidates = 1..Len(candidates)
    OBVIOUS
  <2> QED BY <1>1, <1>3, <2>1
<1> QED BY <1>1, <1>2, <1>4 DEF new

\* The judgement in terms of the ids.
LEMMA JudgementIs ==
    JudgementIsSaved <=>
        /\ Actives = Range(believed)
        /\ \A i \in DOMAIN candidates : candidates[i].status = "promoted" => i \in lost \cup Ids(memories)
<1>1. \A i : i \in Ids(memories) <=> \E m \in Range(memories) : m.id = i
  BY IdsAre
<1> QED BY <1>1 DEF JudgementIsSaved, Actives

LEMMA MemoryInitially == MemoryInit => MemoryInv
<1> SUFFICES ASSUME MemoryInit PROVE MemoryInv
  OBVIOUS
<1>1. candidates = << >> /\ memories = << >> /\ believed = << >>
  BY DEF MemoryInit
<1>2. << >> \in Seq(Cands) /\ << >> \in Seq(Mems) /\ DOMAIN << >> = {}
  OBVIOUS
<1>3. Ids(<< >>) = {} /\ Range(<< >>) = {} /\ OneEach(<< >>)
  BY <1>2 DEF Ids, Range, OneEach
<1>4. JudgementIsSaved
  BY <1>1, <1>2, <1>3 DEF JudgementIsSaved
<1> QED BY <1>1, <1>2, <1>3, <1>4 DEF MemoryInv, Tables

LEMMA MemoryStep == MemoryInv /\ [MemoryNext]_memoryVars => MemoryInv'
<1> SUFFICES ASSUME MemoryInv, [MemoryNext]_memoryVars PROVE MemoryInv'
  OBVIOUS
<1>0. /\ candidates \in Seq(Cands) /\ memories \in Tables
      /\ \A d \in Ids(memories) : d \in DOMAIN candidates /\ candidates[d].status # "candidate"
      /\ Actives = Range(believed)
      /\ \A i \in DOMAIN candidates : candidates[i].status = "promoted" => i \in lost \cup Ids(memories)
  BY JudgementIs DEF MemoryInv
<1>1. ASSUME NEW s \in Sessions, NEW c \in Contents, NEW t \in Trusts, NEW sure \in BOOLEAN, RegisterCandidate(s, c, t, sure)
      PROVE  MemoryInv'
  <2> DEFINE k == [session |-> s, content |-> c, trust |-> t, sure |-> sure, status |-> "candidate"]
             n == Len(candidates)
  <2>1. k \in Cands /\ k.status = "candidate"
    BY DEF Cands
  <2>2. candidates' = Append(candidates, k) /\ memories' = memories /\ believed' = believed /\ lost' = lost
    BY <1>1 DEF RegisterCandidate
  <2> HIDE DEF k
  <2>3. /\ candidates' \in Seq(Cands) /\ n \in Nat /\ DOMAIN candidates = 1..n /\ DOMAIN candidates' = 1..n + 1
        /\ candidates'[n + 1] = k /\ \A i \in 1..n : candidates'[i] = candidates[i]
    BY <1>0, <2>1, <2>2, AppendProperties
  <2> HIDE DEF n
  <2>4. \A i \in 1..n + 1 : i \in 1..n \/ i = n + 1
    BY <2>3
  <2>5. \A i \in 1..n : i \in 1..n + 1
    BY <2>3
  <2>6. \A d \in Ids(memories) : d \in DOMAIN candidates' /\ candidates'[d].status # "candidate"
    BY <1>0, <2>3, <2>5
  <2>7. \A i \in DOMAIN candidates' : candidates'[i].status = "promoted" => i \in lost \cup Ids(memories)
    BY <1>0, <2>1, <2>3, <2>4
  <2>8. (\A m \in Range(memories) : m.id \in Ids(memories)) /\ \A d \in Ids(memories) : \E m \in Range(memories) : m.id = d
    BY IdsAre
  <2>9. JudgementIsSaved'
    BY <1>0, <2>2, <2>7, <2>8 DEF JudgementIsSaved, Actives
  <2> QED BY <1>0, <2>2, <2>3, <2>6, <2>9 DEF MemoryInv
<1>2. ASSUME NEW s \in Sessions, Curate(s) PROVE MemoryInv'
  <2> DEFINE cur == Curation(s)
             list == Pending(s)
  <2>1. cur \in Curations /\ Consistent(Actives, list, Len(list), cur)
    BY CurationIs
  <2>2. /\ candidates' = Marked(cur.verdicts) /\ memories' = FoldLeft(SaveOne, memories, Persisted(cur))
        /\ believed' = cur.existing /\ lost' = lost
    BY <1>2 DEF Curate
  <2>3. list \in Seq(DOMAIN candidates)
    BY <1>0, PendingIs
  <2> HIDE DEF cur, list
  <2>4. /\ memories' \in Tables
        /\ Ids(memories') = Ids(memories) \cup Ids(cur.promoted) \cup Ids(cur.merged) \cup Ids(cur.updated)
        /\ {m \in Range(memories') : m.active} = Range(cur.existing)
    BY <2>1, <2>2, SavedIsWhatStands
  <2>5. /\ cur.verdicts \in Seq(Nat \X Verdicts) /\ Len(cur.verdicts) = Len(list)
        /\ \A j \in 1..Len(list) : cur.verdicts[j][1] = list[j] /\ (cur.verdicts[j][2] = "promoted" => list[j] \in Ids(cur.promoted))
    BY <2>1 DEF Consistent, VerdictsFit
  <2>6. Range(cur.verdicts) \subseteq Nat \X Verdicts
    BY <2>5 DEF Range
  <2>7. /\ Marked(cur.verdicts) \in Seq(Cands) /\ DOMAIN Marked(cur.verdicts) = DOMAIN candidates
        /\ \A i \in DOMAIN candidates :
              \/ \E v \in Range(cur.verdicts) : v[1] = i /\ Marked(cur.verdicts)[i].status = v[2]
              \/ Marked(cur.verdicts)[i] = candidates[i] /\ \A v \in Range(cur.verdicts) : v[1] # i
    BY <1>0, <2>6, MarkedIs
  <2>8. \A v \in Range(cur.verdicts) : v[2] # "candidate" /\ (v[2] = "promoted" => v[1] \in Ids(cur.promoted))
    <3> SUFFICES ASSUME NEW v \in Range(cur.verdicts)
                 PROVE  v[2] # "candidate" /\ (v[2] = "promoted" => v[1] \in Ids(cur.promoted))
      OBVIOUS
    <3>1. PICK j \in 1..Len(list) : v = cur.verdicts[j]
      BY <2>5 DEF Range
    <3>2. v[2] \in Verdicts
      BY <2>6
    <3> QED BY <2>5, <3>1, <3>2 DEF Verdicts
  <2>9. \A j \in 1..Len(list) : list[j] \in DOMAIN candidates /\ \E v \in Range(cur.verdicts) : v[1] = list[j]
    <3> SUFFICES ASSUME NEW j \in 1..Len(list)
                 PROVE  list[j] \in DOMAIN candidates /\ \E v \in Range(cur.verdicts) : v[1] = list[j]
      OBVIOUS
    <3>1. cur.verdicts[j] \in Range(cur.verdicts)
      BY <2>5 DEF Range
    <3> QED BY <2>3, <2>5, <3>1
  <2>10. ASSUME NEW d \in Ids(memories') PROVE d \in DOMAIN candidates' /\ candidates'[d].status # "candidate"
    <3>1. \A m \in Actives : m.id \in Ids(memories)
      BY IdsAre DEF Actives
    <3>2. d \in Ids(memories) \/ \E j \in 1..Len(list) : d = list[j]
      BY <2>1, <2>4, <2>10, <3>1 DEF Consistent, OldOrJudged
    <3>3. CASE d \in Ids(memories)
      BY <1>0, <2>2, <2>7, <2>8, <3>3
    <3>4. ASSUME NEW j \in 1..Len(list), d = list[j] PROVE d \in DOMAIN candidates' /\ candidates'[d].status # "candidate"
      BY <2>2, <2>7, <2>8, <2>9, <3>4
    <3> QED BY <3>2, <3>3, <3>4
  <2>11. \A i \in DOMAIN candidates' : candidates'[i].status = "promoted" => i \in lost' \cup Ids(memories')
    <3> SUFFICES ASSUME NEW i \in DOMAIN candidates, candidates'[i].status = "promoted" PROVE i \in lost' \cup Ids(memories')
      BY <2>2, <2>7
    <3>1. CASE \E v \in Range(cur.verdicts) : v[1] = i /\ candidates'[i].status = v[2]
      BY <2>4, <2>8, <3>1
    <3>2. CASE candidates'[i] = candidates[i]
      BY <1>0, <2>2, <2>4, <3>2
    <3> QED BY <2>2, <2>7, <3>1, <3>2
  <2>12. \A d \in Ids(memories') : \E m \in Range(memories') : m.id = d
    BY IdsAre
  <2>13. JudgementIsSaved'
    BY <2>2, <2>4, <2>11, <2>12 DEF JudgementIsSaved
  <2> QED BY <2>2, <2>4, <2>7, <2>10, <2>13 DEF MemoryInv
<1>3. ASSUME NEW s \in Sessions, NEW n \in 1..MaxCandidates, CurateCrashes(s, n) PROVE MemoryInv'
  <2> DEFINE all == Curation(s).verdicts
             list == Pending(s)
             verdicts == SubSeq(all, 1, n)
  <2>1. /\ n \in 1..Len(list) /\ candidates' = Marked(verdicts) /\ lost' = lost \cup {v[1] : v \in Range(verdicts)}
        /\ memories' = memories /\ believed' = believed
    BY <1>3 DEF CurateCrashes
  <2>2. all \in Seq(Nat \X Verdicts) /\ Len(all) = Len(list)
    BY CurationIs DEF Consistent, VerdictsFit
  <2> HIDE DEF all, list
  <2>3. verdicts \in Seq(Nat \X Verdicts)
    BY <2>1, <2>2
  <2> HIDE DEF verdicts
  <2>4. Range(verdicts) \subseteq Nat \X Verdicts
    BY <2>3 DEF Range
  <2>5. /\ Marked(verdicts) \in Seq(Cands) /\ DOMAIN Marked(verdicts) = DOMAIN candidates
        /\ \A i \in DOMAIN candidates :
              \/ \E v \in Range(verdicts) : v[1] = i /\ Marked(verdicts)[i].status = v[2]
              \/ Marked(verdicts)[i] = candidates[i] /\ \A v \in Range(verdicts) : v[1] # i
    BY <1>0, <2>4, MarkedIs
  <2>6. \A v \in Range(verdicts) : v[2] # "candidate"
    BY <2>4 DEF Verdicts
  <2>7. \A d \in Ids(memories) : d \in DOMAIN candidates' /\ candidates'[d].status # "candidate"
    BY <1>0, <2>1, <2>5, <2>6
  <2>8. \A i \in DOMAIN candidates' : candidates'[i].status = "promoted" => i \in lost' \cup Ids(memories)
    <3> SUFFICES ASSUME NEW i \in DOMAIN candidates, candidates'[i].status = "promoted" PROVE i \in lost' \cup Ids(memories)
      BY <2>1, <2>5
    <3>1. CASE \E v \in Range(verdicts) : v[1] = i
      BY <2>1, <3>1
    <3>2. CASE candidates'[i] = candidates[i]
      BY <1>0, <2>1, <3>2
    <3> QED BY <2>1, <2>5, <3>1, <3>2
  <2>9. \A d \in Ids(memories) : \E m \in Range(memories) : m.id = d
    BY IdsAre
  <2>10. JudgementIsSaved'
    BY <1>0, <2>1, <2>8, <2>9 DEF JudgementIsSaved, Actives
  <2> QED BY <1>0, <2>1, <2>5, <2>7, <2>10 DEF MemoryInv
<1>4. CASE UNCHANGED memoryVars
  BY <1>4 DEF memoryVars, MemoryInv, JudgementIsSaved
<1> QED BY <1>1, <1>2, <1>3, <1>4 DEF MemoryNext

\* What is remembered is what was judged: the active memories of the database are the ones the last
\* finished curation ended with (Curator._curate, PromotedMemoryStore.bulk_save), whatever it
\* promoted, merged and deprecated in one go and in which order; a candidate marked as promoted has
\* its memory unless the process died before it was saved.
THEOREM JudgementIsAlwaysSaved == MemorySpec => []JudgementIsSaved
<1>1. MemoryInv => JudgementIsSaved
  BY DEF MemoryInv
<1> QED BY <1>1, MemoryInitially, MemoryStep, PTL DEF MemorySpec

=============================================================================
