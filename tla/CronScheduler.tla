--------------------------- MODULE CronScheduler ---------------------------
(***************************************************************************)
(* Jobs in a database, a loop that starts those that are due, system       *)
(* events, and runs that hand their task to the gateway and try again when *)
(* that raises.  A run works on the row it was started with: the job may   *)
(* be disabled, deleted or due again by the time it acts.                  *)
(***************************************************************************)
EXTENDS Integers, Sequences, SequencesExt, FiniteSets

CONSTANTS
    Jobs,
    Period,      \* time between the occurrences of a job, 0 for a job bound to a system event
    Event,       \* the system event of such a job, "" for the others
    MaxRetries,  \* max_retries of a job
    NoJob, Deleted,
    MaxTime, MaxFired, MaxCrashes    \* bounds

ASSUME CronAssumption ==
    /\ IsFiniteSet(Jobs)
    /\ Period \in [Jobs -> Nat] /\ MaxRetries \in [Jobs -> Nat]
    /\ \A j \in Jobs : (Period[j] = 0) <=> (Event[j] # "")

VARIABLES
    now,
    rows,       \* the table: NoJob before a job is added, Deleted after; an error goes with retries > 0
    runs,       \* every run ever started, with the step it is at
    cronUp,     \* the gateway is running
    called,     \* history: when the task of a job was last handed to the gateway
    fired, crashes

cronVars == <<now, rows, runs, cronUp, called, fired, crashes>>

Never == -1

NextTs(j, t) == IF Event[j] # "" THEN Never ELSE (t \div Period[j] + 1) * Period[j]

Exists(j) == rows[j] \notin {NoJob, Deleted}

CronInit ==
    /\ now = 0 /\ rows = [j \in Jobs |-> NoJob] /\ runs = << >> /\ cronUp = TRUE
    /\ called = [j \in Jobs |-> Never] /\ fired = 0 /\ crashes = 0

AddJob(j) ==
    /\ cronUp /\ rows[j] = NoJob
    /\ rows' = [rows EXCEPT ![j] = [enabled |-> TRUE, next |-> NextTs(j, now), retries |-> 0]]
    /\ UNCHANGED <<now, runs, cronUp, called, fired, crashes>>

DeleteJob(j) ==
    /\ cronUp /\ Exists(j)
    /\ rows' = [rows EXCEPT ![j] = Deleted]
    /\ UNCHANGED <<now, runs, cronUp, called, fired, crashes>>

\* Disabling leaves next_run alone: a job enabled again may be due at once.
ToggleJob(j, enabled) ==
    /\ cronUp /\ Exists(j)
    /\ rows' = [rows EXCEPT ![j].enabled = enabled]
    /\ UNCHANGED <<now, runs, cronUp, called, fired, crashes>>

\* A run is for one occurrence: the next_run it was selected with.
NewRun(j) == [job |-> j, slot |-> rows[j].next, attempt |-> 0, at |-> "created"]
Started(S) == runs \o SetToSeq({NewRun(j) : j \in S})

\* Mutant of Due: the loop expects to wake up exactly on time.
Due_OnTheDot(j) == Exists(j) /\ rows[j].enabled /\ rows[j].next # Never /\ rows[j].next = now

Due(j) == Exists(j) /\ rows[j].enabled /\ rows[j].next # Never /\ rows[j].next <= now

\* The loop sleeps between two looks at the table: the tasks it has created take their first step
\* before it looks again.
Tick ==
    /\ cronUp /\ \E j \in Jobs : Due(j)
    /\ \A i \in DOMAIN runs : runs[i].at # "created"
    /\ runs' = Started({j \in Jobs : Due(j)})
    /\ UNCHANGED <<now, rows, cronUp, called, fired, crashes>>

Listening(e) == {j \in Jobs : Exists(j) /\ rows[j].enabled /\ Event[j] = e}

\* A client connects or disconnects.
FireSystemEvent(e) ==
    /\ cronUp /\ fired < MaxFired
    /\ fired' = fired + 1
    /\ runs' = Started(Listening(e))
    /\ UNCHANGED <<now, rows, cronUp, called, crashes>>

\* Mutant of Advanced: next_run is advanced when the run has succeeded.
Advanced_Later(j) == rows

\* What a run writes first; the row may be gone.
Advanced(j) == IF Exists(j) THEN [rows EXCEPT ![j].next = NextTs(j, now)] ELSE rows

\* The first step of a run: next_run moves on, then it says that it is running.
Begin(i) ==
    /\ cronUp /\ runs[i].at = "created"
    /\ rows' = Advanced(runs[i].job)
    /\ runs' = [runs EXCEPT ![i].at = "notifying"]
    /\ UNCHANGED <<now, cronUp, called, fired, crashes>>

\* The task goes to the gateway.
CallSpawn(i) ==
    /\ cronUp /\ runs[i].at = "notifying"
    /\ runs' = [runs EXCEPT ![i].at = "spawning"]
    /\ called' = [called EXCEPT ![runs[i].job] = now]
    /\ UNCHANGED <<now, rows, cronUp, fired, crashes>>

\* The gateway returns a record: of a sub-agent or of its refusal, of a dynamic agent, or of a
\* control loop or root agent in a task of its own.  All of them count as accepted.
SpawnReturns(i) ==
    /\ cronUp /\ runs[i].at = "spawning"
    /\ rows' = IF Exists(runs[i].job) THEN [rows EXCEPT ![runs[i].job].retries = 0] ELSE rows
    /\ runs' = [runs EXCEPT ![i].at = "ended"]
    /\ UNCHANGED <<now, cronUp, called, fired, crashes>>

\* Only an exception is a failure.
SpawnRaises(i) ==
    LET r == runs[i] IN
    /\ cronUp /\ r.at = "spawning"
    /\ rows' = IF Exists(r.job) THEN [rows EXCEPT ![r.job].retries = r.attempt + 1]
               ELSE rows
    /\ runs' = [runs EXCEPT ![i].at = IF r.attempt < MaxRetries[r.job] THEN "sleeping" ELSE "ended"]
    /\ UNCHANGED <<now, cronUp, called, fired, crashes>>

\* After its delay the retry runs the whole job again, with the row it was started with.
Retry(i) ==
    /\ cronUp /\ runs[i].at = "sleeping"
    /\ rows' = Advanced(runs[i].job)
    /\ runs' = [runs EXCEPT ![i].at = "notifying", ![i].attempt = @ + 1]
    /\ UNCHANGED <<now, cronUp, called, fired, crashes>>

\* A run that never took a step is dropped, any other that has not ended is lost.
Stopped(at) == CASE at = "created" -> "dropped"
                 [] at \in {"notifying", "spawning", "sleeping"} -> "lost"
                 [] OTHER -> at

\* The process ends, by a crash or a shutdown: runs live in memory only.
GatewayStops ==
    /\ cronUp /\ crashes < MaxCrashes
    /\ cronUp' = FALSE /\ crashes' = crashes + 1
    /\ runs' = [i \in DOMAIN runs |-> [runs[i] EXCEPT !.at = Stopped(@)]]
    /\ UNCHANGED <<now, rows, called, fired>>

\* Its start fires the startup event; what has become due meanwhile is for the loop.
GatewayStarts ==
    /\ ~cronUp /\ cronUp' = TRUE
    /\ runs' = Started(Listening("startup"))
    /\ UNCHANGED <<now, rows, called, fired, crashes>>

CronTimePasses ==
    /\ now < MaxTime /\ now' = now + 1
    /\ UNCHANGED <<rows, runs, cronUp, called, fired, crashes>>

RunSteps(i) == Begin(i) \/ CallSpawn(i) \/ SpawnReturns(i) \/ SpawnRaises(i) \/ Retry(i)

CronNext ==
    \/ \E j \in Jobs : AddJob(j) \/ DeleteJob(j) \/ (\E enabled \in BOOLEAN : ToggleJob(j, enabled))
    \/ Tick \/ FireSystemEvent("connect")
    \/ \E i \in DOMAIN runs : RunSteps(i)
    \/ GatewayStops \/ GatewayStarts \/ CronTimePasses

\* The event loop keeps looking at the table and takes every run forward.
CronFairness ==
    /\ WF_cronVars(Tick)
    /\ \A i \in 1 .. MaxTime + MaxFired + MaxCrashes : WF_cronVars(i \in DOMAIN runs /\ RunSteps(i))

CronSpec == CronInit /\ [][CronNext]_cronVars /\ CronFairness

-----------------------------------------------------------------------------
Begun(i) == runs[i].at \notin {"created", "dropped"}

\* An occurrence of a job is worked on by one run only, retries included, whatever is disabled,
\* deleted or late, and although the gateway may stop at any point and find the job again.
OccurrencesRunOnce ==
    \A i, k \in DOMAIN runs :
        i # k /\ runs[i].job = runs[k].job /\ runs[i].slot = runs[k].slot /\ runs[i].slot # Never
            => ~(Begun(i) /\ Begun(k))

\* A job that is due is handed to the gateway at or after its time, unless it is disabled or
\* deleted or the gateway stops; a retry that moves next_run past it stands in for it.
DueJobsAreCalled ==
    \A j \in {k \in Jobs : Event[k] = ""} : \A s \in {t \in 1..MaxTime : t % Period[j] = 0} :
        (cronUp /\ Due(j) /\ rows[j].next = s) ~> (called[j] >= s \/ ~cronUp \/ ~Exists(j) \/ ~rows[j].enabled)

=============================================================================
