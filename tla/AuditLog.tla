------------------------------ MODULE AuditLog ------------------------------
(***************************************************************************)
(* The audit log: a file of lines, and a database that indexes it.  Every  *)
(* call first catches up with the file, from the line number and offset    *)
(* the database holds; log() then appends its line and indexes it in the   *)
(* same transaction.  A process makes one call at a time, but the gateway, *)
(* its bridges and the command line may share the file and the database.   *)
(*                                                                         *)
(* A transaction begins with its first INSERT, so what a call has read     *)
(* before may be out of date.  Offsets count lines.  Left out: filters and *)
(* pages of the readers, the text index, lines written in part, and the    *)
(* notification of clients.                                                *)
(***************************************************************************)
EXTENDS Naturals, Sequences, FiniteSets

CONSTANTS
    Processes, NoProcess,
    Junk,          \* a line that is not a JSON object
    MaxLines,      \* bound: lines of the file
    MaxDeaths      \* bound: processes that die during a call

ASSUME AuditAssumption == NoProcess \notin Processes /\ Junk \notin Nat

VARIABLES
    file,       \* the lines of audit.log: entries, that is numbers, or Junk
    catalog,    \* audit_entries and audit_meta, committed
    lock,       \* the process with a transaction
    call,       \* what each process is doing
    deaths,
    crowded     \* history: two calls have overlapped

auditVars == <<file, catalog, lock, call, deaths, crowded>>

\* rows: audit_entries; line and offset: last_line_no and last_offset.
Empty == [rows |-> {}, line |-> 0, offset |-> 0]

\* tx is the database as the transaction of the call sees it.
NoCall == [at |-> "idle", writes |-> FALSE, line |-> 0, offset |-> 0, tx |-> Empty]

\* A log from before the database existed may be there.
AuditInit ==
    /\ file \in {<< >>, <<0>>, <<Junk, 0>>}
    /\ catalog = Empty /\ lock = NoProcess
    /\ call = [p \in Processes |-> NoCall]
    /\ deaths = 0 /\ crowded = FALSE

Goes(p, c) == call' = [call EXCEPT ![p] = c]
At(p, at) == call[p].at = at

-----------------------------------------------------------------------------
\* INSERT OR IGNORE: line_no is unique.
Inserted(rows, new) == rows \cup {r \in new : \A q \in rows : q.line # r.line}

\* The database after the lines from the offset on: every line counts, and the entries are inserted.
CaughtUp(line, offset) ==
    LET new == {i \in offset + 1..Len(file) : file[i] # Junk}
    IN [rows |-> Inserted(catalog.rows, {[line |-> line + i - offset, entry |-> file[i]] : i \in new}),
        line |-> line + Len(file) - offset, offset |-> Len(file)]

\* A call: log(), or a reader; _init_db catches up like a reader.
BeginCall(p, writes) ==
    /\ At(p, "idle") /\ Goes(p, [NoCall EXCEPT !.at = "offset", !.writes = writes, !.line = catalog.line])
    /\ writes => Len(file) < MaxLines
    /\ crowded' = (crowded \/ \E q \in Processes : ~At(q, "idle"))
    /\ UNCHANGED <<file, catalog, lock, deaths>>

ReadOffset(p) ==
    /\ At(p, "offset") /\ Goes(p, [call[p] EXCEPT !.at = "file", !.offset = catalog.offset])
    /\ UNCHANGED <<file, catalog, lock, deaths, crowded>>

\* With nothing to insert there is no transaction yet.
ReadFile(p) ==
    /\ At(p, "file")
    /\ Goes(p, [call[p] EXCEPT !.at = IF Len(file) > call[p].offset THEN "catch_up"
                                      ELSE IF call[p].writes THEN "number" ELSE "select"])
    /\ UNCHANGED <<file, catalog, lock, deaths, crowded>>

\* The first INSERT waits for the database; the file is read to its end.
CatchUp(p) ==
    /\ At(p, "catch_up") /\ lock = NoProcess /\ lock' = p
    /\ Goes(p, [call[p] EXCEPT !.at = IF call[p].writes THEN "number" ELSE "select",
                               !.tx = CaughtUp(call[p].line, call[p].offset)])
    /\ UNCHANGED <<file, catalog, deaths, crowded>>

\* What a call sees of the database: its own transaction, or what is committed.
Seen(p) == IF lock = p THEN call[p].tx ELSE catalog

NextNumber(p) ==
    /\ At(p, "number") /\ Goes(p, [call[p] EXCEPT !.at = "append", !.line = Seen(p).line + 1])
    /\ UNCHANGED <<file, catalog, lock, deaths, crowded>>

\* The line is in the file before it is in the database.
AppendLine(p) ==
    /\ At(p, "append") /\ Len(file) < MaxLines
    /\ file' = Append(file, Len(file) + 1)
    /\ Goes(p, [call[p] EXCEPT !.at = "insert", !.offset = Len(file')])
    /\ UNCHANGED <<catalog, lock, deaths, crowded>>

\* Mutant of Recorded: the offset stays behind the line just written.
Recorded_Behind(db, line, offset) ==
    [rows |-> Inserted(db.rows, {[line |-> line, entry |-> file[offset]]}), line |-> line, offset |-> db.offset]

Recorded(db, line, offset) ==
    [rows |-> Inserted(db.rows, {[line |-> line, entry |-> file[offset]]}), line |-> line, offset |-> offset]

InsertLine(p) ==
    /\ At(p, "insert") /\ lock \in {NoProcess, p} /\ lock' = p
    /\ Goes(p, [call[p] EXCEPT !.at = "commit", !.tx = Recorded(Seen(p), call[p].line, call[p].offset)])
    /\ UNCHANGED <<file, catalog, deaths, crowded>>

Commit(p) ==
    /\ At(p, "commit") /\ catalog' = call[p].tx /\ lock' = NoProcess
    /\ Goes(p, NoCall)
    /\ UNCHANGED <<file, deaths, crowded>>

\* A reader answers with the rows it sees, and commits what it has caught up with.
Answer(p) ==
    /\ At(p, "select") /\ Goes(p, NoCall)
    /\ catalog' = Seen(p) /\ lock' = IF lock = p THEN NoProcess ELSE lock
    /\ UNCHANGED <<file, deaths, crowded>>

\* "database is locked": the call raises, and what it has appended stays in the file.
GiveUp(p) ==
    /\ call[p].at \in {"catch_up", "insert"} /\ lock \notin {NoProcess, p}
    /\ Goes(p, NoCall)
    /\ UNCHANGED <<file, catalog, lock, deaths, crowded>>

\* The transaction of a process that dies is rolled back.
Die(p) ==
    /\ ~At(p, "idle") /\ deaths < MaxDeaths /\ deaths' = deaths + 1
    /\ lock' = IF lock = p THEN NoProcess ELSE lock
    /\ Goes(p, NoCall)
    /\ UNCHANGED <<file, catalog, crowded>>

AuditNext ==
    \E p \in Processes :
        \/ \E writes \in BOOLEAN : BeginCall(p, writes)
        \/ ReadOffset(p) \/ ReadFile(p) \/ CatchUp(p) \/ NextNumber(p) \/ AppendLine(p)
        \/ InsertLine(p) \/ Commit(p) \/ Answer(p) \/ GiveUp(p) \/ Die(p)

AuditSpec == AuditInit /\ [][AuditNext]_auditVars

-----------------------------------------------------------------------------
\* Until two processes have been at the log at once, what a reader is answered is every entry of the
\* file, each once, under the number of its line: whichever process wrote it, from before there was a
\* database, or by a process that died between the file and the commit.
AnswersAreComplete ==
    \A p \in Processes : At(p, "select") /\ ~crowded =>
        Seen(p).rows = {[line |-> i, entry |-> file[i]] : i \in {j \in DOMAIN file : file[j] # Junk}}

=============================================================================
