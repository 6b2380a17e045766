----------------------------- MODULE TaskStore -----------------------------
(***************************************************************************)
(* Task records in SQLite, the timeline of events written beside them, and *)
(* the text they are searched by: a column of the row and, where SQLite    *)
(* has full-text search, an index of its own.  An operation commits once;  *)
(* all of them run in the one thread of the gateway.  The database may     *)
(* come from a version that had no search text.                            *)
(*                                                                         *)
(* Of the fields of a record, status and artifacts are kept; title, error  *)
(* and the links to other tasks are written like status, metadata is       *)
(* merged like artifacts.                                                  *)
(***************************************************************************)
EXTENDS Naturals, Sequences, SequencesExt, FiniteSets

CONSTANTS
    Tasks, Owners,
    Nested,       \* keys of an object in the artifacts
    Values,       \* scalars
    NoTask, NoValue, NoText,
    MaxEvents     \* bound, of all timelines

ActiveStatuses == {"accepted", "running", "idle"}
EndedStatuses == {"completed", "failed", "cancelled", "expired"}
Statuses == {"pending", "running", "completed"}     \* one of every class

VARIABLES
    row,       \* the table: a record, and the text of its column
    index,     \* the full-text index
    fts,       \* SQLite has full-text search
    up,        \* the gateway is running
    timeline   \* of a task: its events

taskVars == <<row, index, fts, up, timeline>>

\* The artifacts have one key: absent, a scalar or an object.
Artifacts == {NoValue} \cup Values \cup [Nested -> Values \cup {NoValue}]
IsObject(v) == v \notin Values \cup {NoValue}

\* _task_search_document: a text made of the whole record.
Document(r) == [status |-> r.status, artifacts |-> r.artifacts]

\* A record has an owner, and no placeholder is a text.
Documents == [status : Statuses, artifacts : Artifacts]
Rows == [owner : Owners, status : Statuses, artifacts : Artifacts, started : BOOLEAN, ended : BOOLEAN,
         text : Documents \cup {NoText}]

ASSUME TaskAssumption == IsFiniteSet(Tasks) /\ Owners # {} /\ NoTask \notin Rows /\ NoText \notin Documents

LegacyRow == [owner |-> CHOOSE s \in Owners : TRUE, status |-> "running", artifacts |-> NoValue,
              started |-> TRUE, ended |-> FALSE, text |-> NoText]

TaskInit ==
    /\ \E old \in SUBSET Tasks :
          /\ row = [t \in Tasks |-> IF t \in old THEN LegacyRow ELSE NoTask]
          /\ timeline = [t \in Tasks |-> IF t \in old
                                         THEN <<[type |-> "created", status |-> "running", patch |-> NoValue]>>
                                         ELSE << >>]
    /\ index = [t \in Tasks |-> NoText]
    /\ fts \in BOOLEAN
    /\ up = FALSE

Stored(r) == {t \in Tasks : r[t] # NoTask}

\* _should_rebuild_search_index compares the numbers of rows only.
ShouldRebuild ==
    /\ Stored(row) # {}
    /\ \/ \E t \in Stored(row) : row[t].text = NoText
       \/ fts /\ Cardinality({t \in Tasks : index[t] # NoText}) # Cardinality(Stored(row))

\* _init_db.
OpenStore ==
    /\ ~up /\ up' = TRUE
    /\ IF ShouldRebuild
       THEN /\ row' = [t \in Tasks |-> IF row[t] = NoTask THEN NoTask ELSE [row[t] EXCEPT !.text = Document(row[t])]]
            /\ index' = IF fts THEN [t \in Tasks |-> IF row[t] = NoTask THEN NoText ELSE Document(row[t])] ELSE index
       ELSE UNCHANGED <<row, index>>
    /\ UNCHANGED <<fts, timeline>>

\* The process ends between two operations.
CloseStore == up /\ up' = FALSE /\ UNCHANGED <<row, index, fts, timeline>>

Write(t, r) ==
    /\ row' = [row EXCEPT ![t] = [r EXCEPT !.text = Document(r)]]
    /\ index' = IF fts THEN [index EXCEPT ![t] = Document(r)] ELSE index

\* Mutant of EventFor: the patch is only written when the status stays as it is.
EventFor_StatusOnly(old, r, patch) ==
    IF old # NoTask /\ old.status # r.status THEN [type |-> "status_changed", status |-> r.status, patch |-> NoValue]
    ELSE [type |-> IF old = NoTask THEN "created" ELSE "updated", status |-> r.status, patch |-> patch]

\* _task_event_type and _task_event_payload.
EventFor(old, r, patch) ==
    [type |-> IF old = NoTask THEN "created" ELSE IF old.status # r.status THEN "status_changed" ELSE "updated",
     status |-> r.status, patch |-> patch]

Room == FoldFunction(LAMBDA events, n : n + Len(events), 0, timeline) < MaxEvents

Create(t, s, status, a) ==
    LET r == [owner |-> s, status |-> status, artifacts |-> a,
              started |-> status \in ActiveStatuses, ended |-> status \in EndedStatuses, text |-> NoText]
    IN  /\ up /\ row[t] = NoTask /\ Room
        /\ Write(t, r)
        /\ timeline' = [timeline EXCEPT ![t] = Append(@, EventFor(NoTask, r, a))]
        /\ UNCHANGED <<fts, up>>

\* _merge_json: objects are merged, anything else is replaced; no patch changes nothing.
Merged(old, new) ==
    IF new = NoValue THEN old
    ELSE IF IsObject(old) /\ IsObject(new) THEN [k \in Nested |-> IF new[k] = NoValue THEN old[k] ELSE new[k]]
    ELSE new

\* A task that has ended may be updated, and may be running again; it keeps its end.
Update(t, status, patch) ==
    LET old == row[t]
        r == [old EXCEPT !.status = status, !.artifacts = Merged(@, patch),
                         !.started = @ \/ status \in ActiveStatuses,
                         !.ended = @ \/ status \in EndedStatuses]
    IN  /\ Room
        /\ Write(t, r)
        /\ timeline' = [timeline EXCEPT ![t] = Append(@, EventFor(old, r, patch))]
        /\ UNCHANGED <<fts, up>>

\* The gateway's own code updates any task, the tool only a task of its session, and not its artifacts.
UpdateByGateway(t, status, patch) == up /\ row[t] # NoTask /\ Update(t, status, patch)
UpdateByTool(t, s, status) == up /\ row[t] # NoTask /\ row[t].owner = s /\ Update(t, status, NoValue)

\* append_event: an event of a step, with a status of its own; the record stays as it is.
AppendEvent(t, status) ==
    /\ up /\ row[t] # NoTask /\ Room
    /\ timeline' = [timeline EXCEPT ![t] = Append(@, [type |-> "step", status |-> status, patch |-> NoValue])]
    /\ UNCHANGED <<row, index, fts, up>>

TaskNext ==
    \/ OpenStore \/ CloseStore
    \/ \E t \in Tasks, status \in Statuses :
          \/ \E s \in Owners, a \in Artifacts : Create(t, s, status, a)
          \/ \E patch \in Artifacts : UpdateByGateway(t, status, patch)
          \/ \E s \in Owners : UpdateByTool(t, s, status)
          \/ AppendEvent(t, status)

TaskSpec == TaskInit /\ [][TaskNext]_taskVars

-----------------------------------------------------------------------------
\* What a reader of the timeline knows of a task: its steps aside, every event says what changed.
Hears(known, e) ==
    IF e.type = "step" THEN known ELSE [status |-> e.status, artifacts |-> Merged(known.artifacts, e.patch)]

Told(t) == FoldLeft(Hears, [status |-> "none", artifacts |-> NoValue], timeline[t])

\* The three views of a task agree, after any sequence of updates, restarts and the upgrade of an
\* old database: while the store is open, a search finds a task by what its record says now, and
\* the timeline tells the record, nested artifacts included; an ended task has its end.
ViewsAgree ==
    \A t \in Stored(row) :
        /\ up => row[t].text = Document(row[t]) /\ (fts => index[t] = Document(row[t]))
        /\ Told(t) = Document(row[t])
        /\ row[t].status \in EndedStatuses => row[t].ended

=============================================================================
