-------------------------- MODULE MemoryLifecycle --------------------------
(***************************************************************************)
(* Candidate memories, their curation against the promoted ones, and the   *)
(* two databases they are kept in.  A candidate is marked in the first as  *)
(* it is judged; the memories are saved in the second at the end.          *)
(*                                                                         *)
(* Contents stand for a text with its type and subject; how alike two of   *)
(* them are is a constant.                                                 *)
(***************************************************************************)
EXTENDS Integers, Sequences, SequencesExt

CONSTANTS
    Contents,
    Alike,         \* pairs of contents that are duplicates
    Contrary,      \* pairs of the same subject that are similar, but not duplicates
    Trusts,        \* trust scores
    MinTrust,      \* below it a candidate is rejected
    Sessions,
    MaxCandidates  \* bound

ASSUME MemoryAssumption ==
    /\ \A p \in Alike \cup Contrary : <<p[2], p[1]>> \in Alike \cup Contrary
    /\ \A c \in Contents : <<c, c>> \in Alike
    /\ Alike \cap Contrary = {}
    /\ Trusts \subseteq Nat /\ MinTrust \in Nat

VARIABLES
    candidates,   \* candidates.db, in the order of creation
    memories,     \* promoted_memory.db, in the order of creation
    believed,     \* history: what the last curation held for true
    lost          \* history: candidates a crash took between the two databases

memoryVars == <<candidates, memories, believed, lost>>

MemoryInit == candidates = << >> /\ memories = << >> /\ believed = << >> /\ lost = {}

RegisterCandidate(s, c, t, sure) ==
    /\ Len(candidates) < MaxCandidates
    /\ candidates' = Append(candidates, [session |-> s, content |-> c, trust |-> t, sure |-> sure, status |-> "candidate"])
    /\ UNCHANGED <<memories, believed, lost>>

IsDuplicate(k, m) == <<k.content, m.content>> \in Alike
IsContradiction(k, m) == <<k.content, m.content>> \in Contrary

\* The first place in a list that passes a test, 0 when there is none.
FirstIndex(list, Test(_)) ==
    LET hits == {i \in DOMAIN list : Test(list[i])}
    IN  IF hits = {} THEN 0 ELSE CHOOSE i \in hits : \A j \in hits : i <= j

Promoted(id, k) == [id |-> id, content |-> k.content, trust |-> k.trust, active |-> TRUE]

\* What a curation has so far: its list of existing memories, the memories to save, the verdicts.
Rejects(acc, id) == [acc EXCEPT !.verdicts = Append(@, <<id, "rejected">>)]

Adds(acc, id, k) ==
    [acc EXCEPT !.existing = Append(@, Promoted(id, k)), !.promoted = Append(@, Promoted(id, k)),
                !.verdicts = Append(@, <<id, "promoted">>)]

\* _merge_with_existing: the first duplicate takes the content of a more trusted candidate.
Merges(acc, id, k) ==
    LET i == FirstIndex(acc.existing, LAMBDA m : IsDuplicate(k, m))
        merged == [acc.existing[i] EXCEPT !.content = k.content, !.trust = k.trust]
    IN  IF k.trust <= acc.existing[i].trust THEN Rejects(acc, id)
        ELSE [acc EXCEPT !.existing[i] = merged, !.merged = Append(@, merged),
                         !.verdicts = Append(@, <<id, "merged">>)]

\* _resolve_contradiction: the first memory it contradicts gives way to a more trusted candidate.
Resolves(acc, id, k) ==
    LET i == FirstIndex(acc.existing, LAMBDA m : IsContradiction(k, m))
        old == acc.existing[i]
    IN  IF k.trust <= MinTrust \/ k.trust <= old.trust THEN Rejects(acc, id)
        ELSE [acc EXCEPT !.existing[i] = Promoted(id, k), !.promoted = Append(@, Promoted(id, k)),
                         !.updated = Append(@, [old EXCEPT !.active = FALSE]),
                         !.verdicts = Append(@, <<id, "promoted">>)]

Judge(acc, id) ==
    LET k == candidates[id] IN
    IF ~k.sure \/ k.trust < MinTrust THEN Rejects(acc, id)
    ELSE IF \E i \in DOMAIN acc.existing : IsDuplicate(k, acc.existing[i]) THEN Merges(acc, id, k)
    ELSE IF \E i \in DOMAIN acc.existing : IsContradiction(k, acc.existing[i]) THEN Resolves(acc, id, k)
    ELSE Adds(acc, id, k)

\* Of the first n numbers the ones in S, the greatest first: the lists are read newest first.
NewestFirst(n, S) ==
    FoldLeft(LAMBDA list, i : IF i \in S THEN Append(list, i) ELSE list, << >>, [i \in 1..n |-> n + 1 - i])

\* The active memories, and the candidates of a session nobody has judged.
Listed ==
    LET places == NewestFirst(Len(memories), {i \in DOMAIN memories : memories[i].active})
    IN  [k \in DOMAIN places |-> memories[places[k]]]
Pending(s) ==
    NewestFirst(Len(candidates),
                {i \in DOMAIN candidates : candidates[i].session = s /\ candidates[i].status = "candidate"})

Curation(s) ==
    FoldLeft(Judge, [existing |-> Listed, promoted |-> << >>, merged |-> << >>, updated |-> << >>, verdicts |-> << >>],
             Pending(s))

\* Mutant of Persisted: what was deprecated is written before what was promoted and merged.
Persisted_UpdatesFirst(cur) == cur.updated \o cur.promoted \o cur.merged

\* A memory may be in several of the lists: the last one written stays.
Persisted(cur) == cur.promoted \o cur.merged \o cur.updated

\* bulk_save replaces the row of the same memory.
SaveOne(table, m) ==
    LET i == FirstIndex(table, LAMBDA old : old.id = m.id)
    IN  IF i = 0 THEN Append(table, m) ELSE [table EXCEPT ![i] = m]

Marked(verdicts) ==
    [i \in DOMAIN candidates |->
        IF \E v \in Range(verdicts) : v[1] = i
        THEN [candidates[i] EXCEPT !.status = (CHOOSE v \in Range(verdicts) : v[1] = i)[2]]
        ELSE candidates[i]]

Curate(s) ==
    LET cur == Curation(s) IN
    /\ Pending(s) # << >>
    /\ candidates' = Marked(cur.verdicts)
    /\ memories' = FoldLeft(SaveOne, memories, Persisted(cur))
    /\ believed' = cur.existing
    /\ UNCHANGED lost

\* The process dies in a curation: n candidates are marked, nothing is saved.
CurateCrashes(s, n) ==
    LET verdicts == SubSeq(Curation(s).verdicts, 1, n) IN
    /\ n \in 1..Len(Pending(s))
    /\ candidates' = Marked(verdicts)
    /\ lost' = lost \cup {v[1] : v \in Range(verdicts)}
    /\ UNCHANGED <<memories, believed>>

MemoryNext ==
    \/ \E s \in Sessions, c \in Contents, t \in Trusts, sure \in BOOLEAN : RegisterCandidate(s, c, t, sure)
    \/ \E s \in Sessions : Curate(s)
    \/ \E s \in Sessions, n \in 1..MaxCandidates : CurateCrashes(s, n)

MemorySpec == MemoryInit /\ [][MemoryNext]_memoryVars

-----------------------------------------------------------------------------
\* What is remembered is what was judged: the active memories of the database are the ones the last
\* finished curation ended with, although it may have promoted, merged and deprecated the same
\* memory in one go; and a candidate that is marked as promoted has its memory in the database,
\* unless the process died before it was saved.
JudgementIsSaved ==
    /\ {m \in Range(memories) : m.active} = Range(believed)
    /\ \A i \in DOMAIN candidates :
          candidates[i].status = "promoted" => i \in lost \/ \E m \in Range(memories) : m.id = i

=============================================================================
