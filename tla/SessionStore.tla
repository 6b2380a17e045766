---------------------------- MODULE SessionStore ----------------------------
(***************************************************************************)
(* Sessions kept in Redis: one key for a session, an index of sessions,    *)
(* and a map of state shared by the sessions of an application.  Every     *)
(* operation is a sequence of single Redis commands with awaits between.   *)
(* A runner keeps the session object it has read for all of its events.    *)
(* The map per user is written like the one per application.               *)
(***************************************************************************)
EXTENDS Naturals, Sequences, FiniteSets

CONSTANTS
    Runners,      \* runs of an agent, each appending its own events to the session
    NoSession,    \* no stored session, no session object yet
    MaxAppends,    \* events of one runner
    MaxDeletes    \* bounds

ASSUME StoreAssumption == NoSession \notin Seq(Runners \X Nat)

VARIABLES
    stored,    \* the key of the session: a sequence of events
    indexed,   \* the session is in the index
    shared,    \* the map of the application: the events whose change is in it
    runner,    \* of a runner: the step it is at, its session object and what it has read
    deleting,  \* a delete is between its two commands
    deletes,
    alone,     \* history: runners whose append no other writer has overlapped so far
    kept       \* history: the events appended without an overlap since the last delete began

storeVars == <<stored, indexed, shared, runner, deleting, deletes, alone, kept>>

IdleRunner == [at |-> "idle", local |-> NoSession, count |-> 0, delta |-> FALSE, read |-> NoSession, map |-> {}]

StoreInit ==
    /\ stored = NoSession /\ indexed = FALSE /\ shared = {}
    /\ runner = [r \in Runners |-> IdleRunner]
    /\ deleting = FALSE /\ deletes = 0
    /\ alone = {} /\ kept = {}

Writing == {r \in Runners : runner[r].at \notin {"idle", "ready"}}
EventOf(r) == <<r, runner[r].count>>

\* A writer that starts beside others overlaps them all.
Joins(r) == IF Writing = {} /\ ~deleting THEN {r} ELSE {}

\* create_session stores an empty session; it is indexed in a command of its own.
CreateSession(r) ==
    /\ runner[r].at = "idle" /\ stored = NoSession
    /\ stored' = << >>
    /\ runner' = [runner EXCEPT ![r] = [@ EXCEPT !.at = "created", !.local = << >>]]
    /\ alone' = {}
    /\ UNCHANGED <<indexed, shared, deleting, deletes, kept>>

CreateEnds(r) ==
    /\ runner[r].at = "created"
    /\ indexed' = TRUE
    /\ runner' = [runner EXCEPT ![r] = [@ EXCEPT !.at = "ready"]]
    /\ UNCHANGED <<stored, shared, deleting, deletes, alone, kept>>

GetSession(r) ==
    /\ runner[r].at = "idle" /\ stored # NoSession
    /\ runner' = [runner EXCEPT ![r] = [@ EXCEPT !.at = "ready", !.local = stored]]
    /\ UNCHANGED <<stored, indexed, shared, deleting, deletes, alone, kept>>

\* The event goes into the runner's own object, then the stored session is read.
AppendStarts(r, delta) ==
    /\ runner[r].at = "ready" /\ runner[r].count < MaxAppends
    /\ LET next == runner[r].count + 1 IN
       runner' = [runner EXCEPT ![r] = [@ EXCEPT !.at = "loading", !.count = next, !.delta = delta,
                                                 !.local = Append(runner[r].local, <<r, next>>)]]
    /\ alone' = Joins(r)
    /\ UNCHANGED <<stored, indexed, shared, deleting, deletes, kept>>

\* Mutant of NewStored: what the runner has read before is good enough.
NewStored_Local(r) == runner[r].local

\* The event is added to the session as it is stored now; a session that is gone is restored from
\* the runner's object.
NewStored(r) == IF stored = NoSession THEN runner[r].local ELSE Append(stored, EventOf(r))

AppendLoads(r) ==
    /\ runner[r].at = "loading"
    /\ runner' = [runner EXCEPT ![r] = [@ EXCEPT !.read = NewStored(r),
                                                  !.at = IF runner[r].delta THEN "mapping" ELSE "storing"]]
    /\ UNCHANGED <<stored, indexed, shared, deleting, deletes, alone, kept>>

\* Changes of shared state: the map is read, and written whole.
MapLoads(r) ==
    /\ runner[r].at = "mapping"
    /\ runner' = [runner EXCEPT ![r] = [@ EXCEPT !.map = shared \cup {EventOf(r)}, !.at = "mapped"]]
    /\ UNCHANGED <<stored, indexed, shared, deleting, deletes, alone, kept>>

MapStores(r) ==
    /\ runner[r].at = "mapped"
    /\ shared' = runner[r].map
    /\ runner' = [runner EXCEPT ![r] = [@ EXCEPT !.at = "storing", !.map = {}]]
    /\ UNCHANGED <<stored, indexed, deleting, deletes, alone, kept>>

AppendStores(r) ==
    /\ runner[r].at = "storing"
    /\ stored' = runner[r].read
    /\ runner' = [runner EXCEPT ![r] = [@ EXCEPT !.at = "indexing", !.read = NoSession]]
    /\ UNCHANGED <<indexed, shared, deleting, deletes, alone, kept>>

AppendEnds(r) ==
    /\ runner[r].at = "indexing"
    /\ indexed' = TRUE
    /\ runner' = [runner EXCEPT ![r] = [@ EXCEPT !.at = "ready"]]
    /\ kept' = IF r \in alone THEN kept \cup {EventOf(r)} ELSE kept
    /\ alone' = alone \ {r}
    /\ UNCHANGED <<stored, shared, deleting, deletes>>

\* delete_session: the key first, then the index.
DeleteStarts ==
    /\ ~deleting /\ deletes < MaxDeletes
    /\ stored' = NoSession /\ deleting' = TRUE /\ deletes' = deletes + 1
    /\ alone' = {} /\ kept' = {}
    /\ UNCHANGED <<indexed, shared, runner>>

DeleteEnds ==
    /\ deleting /\ deleting' = FALSE
    /\ indexed' = FALSE
    /\ UNCHANGED <<stored, shared, runner, deletes, alone, kept>>

StoreNext ==
    \/ \E r \in Runners : \/ CreateSession(r) \/ CreateEnds(r) \/ GetSession(r)
                          \/ \E delta \in BOOLEAN : AppendStarts(r, delta)
                          \/ AppendLoads(r) \/ MapLoads(r) \/ MapStores(r) \/ AppendStores(r) \/ AppendEnds(r)
    \/ DeleteStarts \/ DeleteEnds

StoreSpec == StoreInit /\ [][StoreNext]_storeVars

-----------------------------------------------------------------------------
\* An event that was appended while nobody else wrote to the session stays in it until the session
\* is deleted: later runners keep it, however old the session object they work on is and however
\* much they overlap each other.
LoneAppendsLast == kept # {} => stored # NoSession /\ kept \subseteq {stored[i] : i \in DOMAIN stored}

=============================================================================
