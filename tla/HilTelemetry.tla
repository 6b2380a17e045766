---------------------------- MODULE HilTelemetry ----------------------------
(***************************************************************************)
(* Telemetry of hardware in the loop: an envelope is ingested or refused,  *)
(* becomes evidence when it is evaluated, and a review passes or blocks    *)
(* the evidence it is given.  Evidence and reviews are frozen once built.  *)
(***************************************************************************)
EXTENDS Integers, FiniteSets

CONSTANTS
    MaxTime,      \* bound of the clock, in freshness thresholds
    MaxEvidence   \* bound on the evidence kept

VARIABLES
    clock,       \* time, in units of the freshness threshold
    evidences,   \* HilTelemetryEvidence built so far
    rejected,    \* whether a command-like payload was refused at ingestion
    reviews      \* HilTelemetryReview built so far

hilVars == <<clock, evidences, rejected, reviews>>

\* What an envelope may hold: measurements, none, keys that read like commands at some depth, or
\* fields the schema does not know.
Envelopes == [captured : 0..MaxTime, content : {"measurements", "empty", "commands", "invalid"}]

Ingested(e) == e.content \in {"measurements", "empty"}

\* An envelope stamped in the future is as fresh as one of this moment.
Evidence(e, now) ==
    [measured |-> e.content = "measurements", captured |-> e.captured, evaluated |-> now,
     stale |-> now - e.captured > 1]

\* Evidence for a contract is refused when contract, subject kind or schema differ.
BuildEvidence(e, matchesContract) ==
    /\ Cardinality(evidences) < MaxEvidence
    /\ evidences' = IF Ingested(e) /\ matchesContract THEN evidences \cup {Evidence(e, clock)} ELSE evidences
    /\ rejected' = (rejected \/ e.content = "commands")
    /\ UNCHANGED <<clock, reviews>>

\* Mutant of ReviewBlocks: stale evidence passes.
ReviewBlocks_AnyAge(E, required, refused) ==
    \/ required /\ E = {}
    \/ \E e \in E : ~e.measured
    \/ refused

\* A review blocks for missing, stale or empty evidence and for refused payloads.
ReviewBlocks(E, required, refused) ==
    \/ required /\ E = {}
    \/ \E e \in E : e.stale \/ ~e.measured
    \/ refused

Review(E, required, refused) == [evidences |-> E, required |-> required, passed |-> ~ReviewBlocks(E, required, refused)]

BuildReview(E, required) ==
    /\ reviews' = {Review(E, required, rejected)}
    /\ UNCHANGED <<clock, evidences, rejected>>

\* The mock source makes an envelope, its evidence and a review of it at one moment.
BuildMockChain ==
    LET e == Evidence([captured |-> clock, content |-> "measurements"], clock) IN
    /\ Cardinality(evidences) < MaxEvidence
    /\ evidences' = evidences \cup {e}
    /\ reviews' = {Review({e}, TRUE, FALSE)}
    /\ UNCHANGED <<clock, rejected>>

HilTimePasses ==
    /\ clock < MaxTime
    /\ clock' = clock + 1
    /\ UNCHANGED <<evidences, rejected, reviews>>

HilInit == clock = 0 /\ evidences = {} /\ rejected = FALSE /\ reviews = {}

HilNext ==
    \/ HilTimePasses
    \/ \E e \in Envelopes, m \in BOOLEAN : BuildEvidence(e, m)
    \/ \E E \in SUBSET evidences, required \in BOOLEAN : BuildReview(E, required)
    \/ BuildMockChain

HilSpec == HilInit /\ [][HilNext]_hilVars

\* A review of hardware telemetry that passed saw nothing empty and nothing that was more than the
\* threshold old when it was evaluated, and not nothing where evidence was required.
ReviewsAreEarned ==
    \A r \in reviews : r.passed =>
        /\ r.required => r.evidences # {}
        /\ \A e \in r.evidences : e.measured /\ e.evaluated - e.captured <= 1

=============================================================================
