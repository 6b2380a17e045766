---------------------------- MODULE SubagentsProofs ----------------------------
(***************************************************************************)
(* Proofs about module Subagents, for any number of runs, sessions and     *)
(* limits.  The inductive invariant Inv adds to the types that a run's     *)
(* status and its task record are determined by where its worker is        *)
(* (Places), and that the frames of a kill are about runs that were        *)
(* spawned (KillFrames).                                                   *)
(***************************************************************************)
EXTENDS Subagents, TLAPS, FiniteSetTheorems, SequenceTheorems

Place(r) ==
    /\ pc[r] = "none" <=> r \notin Spawned
    /\ pc[r] \in {"none", "starting"} => status[r] = "accepted" /\ record[r] = "accepted"
    /\ pc[r] = "starting" => inbox[r] >= 1
    /\ pc[r] = "waiting" => status[r] = "idle" /\ record[r] = "idle"
    /\ pc[r] = "turn" => status[r] = "running" /\ record[r] = "running"
    /\ pc[r] = "notifyOk" => /\ status[r] = "running"
                             /\ record[r] \in {"completed", "idle"}
                             /\ mode[r] = "run" => record[r] = "completed"
                             /\ mode[r] = "session" => record[r] = "idle"
    /\ pc[r] = "notifyFail" => status[r] = "failed" /\ record[r] = "failed"
    /\ pc[r] = "dead" => record[r] = status[r] /\ record[r] # "running"
    /\ cancel[r] => Live(r)

Places == \A r \in Runs : Place(r)

SpawnedFrames == [of : Spawned, todo : SUBSET Spawned]

KillFrames ==
    /\ kills \in [Runs -> Seq(SpawnedFrames)]
    /\ loop # 0 => kills[loop] # << >>

Inv == TypeOK /\ Places /\ KillFrames

-----------------------------------------------------------------------------
(* Stacks of frames. *)

LEMMA TopTyping ==
    ASSUME NEW S, NEW s \in Seq(S), s # << >>
    PROVE  Top(s) \in S /\ Len(s) \in Nat \ {0}
  BY EmptySeq, LenProperties, ElementOfSeq DEF Top

LEMMA PopTyping ==
    ASSUME NEW S, NEW s \in Seq(S), s # << >>
    PROVE  /\ Pop(s) \in Seq(S)
           /\ Len(s) > 1 => Pop(s) # << >>
  <1>1. Len(s) \in Nat /\ Len(s) >= 1
    BY EmptySeq, LenProperties
  <1>2. \A i \in 1 .. Len(s) - 1 : s[i] \in S
    BY <1>1, ElementOfSeq
  <1>3. Pop(s) \in Seq(S) /\ Len(Pop(s)) = IF 1 <= Len(s) - 1 THEN Len(s) - 1 - 1 + 1 ELSE 0
    BY <1>1, <1>2, SubSeqProperties DEF Pop
  <1>4. Len(s) > 1 => Len(Pop(s)) # 0
    BY <1>1, <1>3
  <1>. QED  BY <1>3, <1>4, EmptySeq

\* Taking a child off the top frame and pushing its own.
LEMMA PushTyping ==
    ASSUME NEW S, NEW s \in Seq([of : S, todo : SUBSET S]), s # << >>,
           NEW c \in S, NEW theirs \in SUBSET S
    PROVE  LET t == Append(WithoutChild(s, c), [of |-> c, todo |-> theirs])
           IN  t \in Seq([of : S, todo : SUBSET S]) /\ t # << >>
  <1>. DEFINE F == [of : S, todo : SUBSET S]
              u == WithoutChild(s, c)
              f == [of |-> c, todo |-> theirs]
  <1>. HIDE DEF F
  <1>0. s \in Seq(F)
    BY DEF F
  <1>1. Len(s) \in 1 .. Len(s) /\ s[Len(s)] \in F
    BY <1>0, EmptySeq, LenProperties, ElementOfSeq
  <1>2. [s[Len(s)] EXCEPT !.todo = @ \ {c}] \in F
    BY <1>1 DEF F
  <1>3. u \in Seq(F)
    BY <1>0, <1>1, <1>2, ExceptSeq DEF WithoutChild
  <1>4. f \in F
    BY DEF F
  <1>5. Append(u, f) \in Seq(F) /\ Append(u, f) # << >>
    BY <1>3, <1>4, AppendProperties
  <1>. QED  BY <1>5 DEF F

-----------------------------------------------------------------------------
(* The invariant. *)

LEMMA InitInv == Init => Inv
  <1>. SUFFICES ASSUME Init PROVE Inv  OBVIOUS
  <1>. USE SubagentsAssumption DEF Init
  <1>1. TypeOK
    <2>1. count \in 0 .. MaxRuns /\ depth \in [Runs -> Nat] /\ inbox \in [Runs -> Nat]
      OBVIOUS
    <2>2. kills \in [Runs -> Seq(Frames)]
      BY EmptySeq
    <2>3. /\ session \in [Runs -> BOOLEAN] /\ cancel \in [Runs -> BOOLEAN]
          /\ stopped \in BOOLEAN /\ doomed \in [Runs -> SUBSET Runs]
      OBVIOUS
    <2>4. /\ owner \in [Runs -> Roots \cup Runs \cup {0}]
          /\ parent \in [Runs -> Runs \cup {0}] /\ loop \in Runs \cup {0}
      OBVIOUS
    <2>5. /\ mode \in [Runs -> {"run", "session"}]
          /\ status \in [Runs -> Statuses] /\ record \in [Runs -> Statuses]
          /\ pc \in [Runs -> WorkerPCs \cup {"none", "dead"}]
      BY DEF Statuses
    <2>. QED  BY <2>1, <2>2, <2>3, <2>4, <2>5 DEF TypeOK
  <1>2. Places
    BY DEF Places, Place, Spawned, Live, WorkerPCs, Runs
  <1>3. KillFrames
    BY EmptySeq DEF KillFrames
  <1>. QED  BY <1>1, <1>2, <1>3 DEF Inv

\* The steps of a worker: they touch neither the frames of a kill nor, of the
\* run functions, any place but r.
LEMMA WorkerFrame ==
    ASSUME Inv, NEW r \in Runs, WorkerStep(r)
    PROVE  /\ UNCHANGED <<identity, killers, stopped>>
           /\ \A q \in Runs \ {r} :
                 /\ session'[q] = session[q] /\ status'[q] = status[q]
                 /\ record'[q] = record[q] /\ pc'[q] = pc[q]
                 /\ inbox'[q] = inbox[q] /\ cancel'[q] = cancel[q]
  BY DEF Inv, TypeOK, WorkerStep, SessionCreated, StartFails, MessageArrives, TurnSucceeds, TurnFails, RunCompletes, SessionGoesOn, FailureNotified, CancelLands, MayRun, TakeMessage,
         identity, killers

LEMMA WorkerTypes ==
    ASSUME Inv, NEW r \in Runs, WorkerStep(r)
    PROVE  TypeOK'
  <1>. USE DEF Inv, TypeOK, Places, Place, Statuses, WorkerPCs, identity, killers,
               MayRun, TakeMessage
  <1>1. CASE SessionCreated(r)
    <2>1. inbox' \in [Runs -> Nat]
      BY <1>1 DEF SessionCreated
    <2>2. session' \in [Runs -> BOOLEAN]
      BY <1>1 DEF SessionCreated
    <2>3. /\ status' \in [Runs -> Statuses] /\ record' \in [Runs -> Statuses]
          /\ pc' \in [Runs -> WorkerPCs \cup {"none", "dead"}]
      BY <1>1 DEF SessionCreated
    <2>. QED  BY <1>1, <2>1, <2>2, <2>3 DEF SessionCreated
  <1>2. CASE StartFails(r)
    BY <1>2 DEF StartFails
  <1>3. CASE MessageArrives(r)
    BY <1>3, SMTT(40) DEF MessageArrives
  <1>4. CASE TurnSucceeds(r)
    BY <1>4 DEF TurnSucceeds
  <1>5. CASE TurnFails(r)
    BY <1>5 DEF TurnFails
  <1>6. CASE RunCompletes(r)
    BY <1>6 DEF RunCompletes
  <1>7. CASE SessionGoesOn(r)
    <2>1. inbox' \in [Runs -> Nat]
      BY <1>7 DEF SessionGoesOn
    <2>2. /\ status' \in [Runs -> Statuses] /\ record' \in [Runs -> Statuses]
          /\ pc' \in [Runs -> WorkerPCs \cup {"none", "dead"}]
      BY <1>7 DEF SessionGoesOn
    <2>. QED  BY <1>7, <2>1, <2>2 DEF SessionGoesOn
  <1>8. CASE FailureNotified(r)
    BY <1>8 DEF FailureNotified
  <1>9. CASE CancelLands(r)
    BY <1>9, SMTT(40) DEF CancelLands
  <1>. QED  BY <1>1, <1>2, <1>3, <1>4, <1>5, <1>6, <1>7, <1>8, <1>9 DEF WorkerStep

LEMMA WorkerPlace ==
    ASSUME Inv, NEW r \in Runs, WorkerStep(r)
    PROVE  Place(r)'
  <1>. USE DEF Inv, TypeOK, Places, Place, Statuses, WorkerPCs, Spawned, Live,
               identity, killers, MayRun, TakeMessage
  <1>1. CASE SessionCreated(r)
    BY <1>1 DEF SessionCreated
  <1>2. CASE StartFails(r)
    BY <1>2 DEF StartFails
  <1>3. CASE MessageArrives(r)
    BY <1>3 DEF MessageArrives
  <1>4. CASE TurnSucceeds(r)
    BY <1>4 DEF TurnSucceeds
  <1>5. CASE TurnFails(r)
    BY <1>5 DEF TurnFails
  <1>6. CASE RunCompletes(r)
    BY <1>6 DEF RunCompletes
  <1>7. CASE SessionGoesOn(r)
    BY <1>7 DEF SessionGoesOn
  <1>8. CASE FailureNotified(r)
    BY <1>8 DEF FailureNotified
  <1>9. CASE CancelLands(r)
    BY <1>9 DEF CancelLands
  <1>. QED  BY <1>1, <1>2, <1>3, <1>4, <1>5, <1>6, <1>7, <1>8, <1>9 DEF WorkerStep

LEMMA WorkerInv ==
    ASSUME Inv, NEW r \in Runs, WorkerStep(r)
    PROVE  Inv'
  <1>1. \A q \in Runs \ {r} : Place(q)'
    BY WorkerFrame DEF Inv, Places, Place, Spawned, Live, identity, WorkerPCs
  <1>2. KillFrames'
    BY WorkerFrame DEF Inv, KillFrames, SpawnedFrames, Spawned, identity, killers
  <1>. QED  BY <1>1, <1>2, WorkerPlace, WorkerTypes DEF Inv, Places

LEMMA SpawnedInRuns == TypeOK => Spawned \subseteq Runs /\ SpawnedFrames \subseteq Frames
  <1>. SUFFICES ASSUME TypeOK PROVE Spawned \subseteq Runs /\ SpawnedFrames \subseteq Frames
    OBVIOUS
  <1>1. Spawned \subseteq Runs
    BY SubagentsAssumption DEF TypeOK, Spawned, Runs
  <1>2. SpawnedFrames \subseteq Frames
    BY <1>1 DEF SpawnedFrames, Frames
  <1>. QED  BY <1>1, <1>2

\* Frames only get more runs to be about.
LEMMA FramesGrow ==
    ASSUME KillFrames, count' >= count, count \in Nat, count' \in Nat, kills' = kills,
           loop' = loop
    PROVE  KillFrames'
  <1>1. SpawnedFrames \subseteq SpawnedFrames'
    BY DEF SpawnedFrames, Spawned
  <1>2. \A k \in Runs : kills[k] \in Seq(SpawnedFrames')
    BY <1>1, SeqMonotonic DEF KillFrames
  <1>. QED  BY <1>2 DEF KillFrames

LEMMA SpawnInv ==
    ASSUME Inv, NEW s \in Roots \cup Runs, NEW m \in Modes, Spawn(s, m)
    PROVE  Inv'
  <1>. PICK r \in Runs : r = count + 1
    BY SubagentsAssumption DEF Inv, TypeOK, Spawn, Runs
  <1>0. count \in Nat /\ count' = r /\ pc[r] = "none"
    BY SubagentsAssumption DEF Inv, TypeOK, Spawn, Runs, Places, Place, Spawned
  <1>1. ParentOf(s) \in Runs \cup {0} /\ DepthFrom(ParentOf(s)) \in Nat
    BY SubagentsAssumption, SMTT(40) DEF Inv, TypeOK, ParentOf, DepthFrom, Active, Spawned, Runs
  <1>2. TypeOK'
    <2>1. /\ mode' \in [Runs -> {"run", "session"}]
          /\ owner' \in [Runs -> Roots \cup Runs \cup {0}]
          /\ pc' \in [Runs -> WorkerPCs \cup {"none", "dead"}]
      BY <1>0, SubagentsAssumption DEF Inv, TypeOK, Spawn, WorkerPCs
    <2>2. /\ parent' \in [Runs -> Runs \cup {0}] /\ depth' \in [Runs -> Nat]
          /\ inbox' \in [Runs -> Nat] /\ count' \in 0 .. MaxRuns
      BY <1>0, <1>1, SubagentsAssumption DEF Inv, TypeOK, Spawn, Runs
    <2>. QED  BY <2>1, <2>2 DEF Inv, TypeOK, Spawn, killers
  <1>3. Place(r)'
    <2>1. status[r] = "accepted" /\ record[r] = "accepted" /\ ~cancel[r]
      BY <1>0 DEF Inv, Places, Place, Live, WorkerPCs
    <2>2. pc'[r] = "starting" /\ inbox'[r] = 1
      BY <1>0 DEF Inv, TypeOK, Spawn
    <2>3. r \in Spawned'
      BY <1>0 DEF Spawned
    <2>. QED  BY <2>1, <2>2, <2>3 DEF Spawn, Place, Live, WorkerPCs
  <1>4. \A q \in Runs \ {r} : Place(q)'
    <2>. SUFFICES ASSUME NEW q \in Runs \ {r} PROVE Place(q)'
      OBVIOUS
    <2>1. q \in Spawned' <=> q \in Spawned
      BY <1>0 DEF Spawned, Runs
    <2>2. pc'[q] = pc[q] /\ inbox'[q] = inbox[q] /\ mode'[q] = mode[q]
      BY DEF Inv, TypeOK, Spawn
    <2>. QED  BY <2>1, <2>2 DEF Inv, Places, Place, Spawn, Live
  <1>5. KillFrames'
    BY <1>0, FramesGrow DEF Inv, Spawn, killers
  <1>. QED  BY <1>2, <1>3, <1>4, <1>5 DEF Inv, Places

LEMMA SteerInv ==
    ASSUME Inv, NEW r \in Runs, Steer(r)
    PROVE  Inv'
  <1>1. inbox' \in [Runs -> Nat] /\ \A q \in Runs : inbox'[q] >= inbox[q]
    BY DEF Inv, TypeOK, Steer
  <1>2. TypeOK'
    BY <1>1 DEF Inv, TypeOK, Steer, identity, killers
  <1>3. Places'
    BY <1>1 DEF Inv, Places, Place, Steer, TypeOK, identity, Spawned, Live
  <1>4. KillFrames'
    BY DEF Inv, Steer, KillFrames, SpawnedFrames, Spawned, identity, killers
  <1>. QED  BY <1>2, <1>3, <1>4 DEF Inv

\* The steps of a kill that only move its frames.
LEMMA FramesMove ==
    ASSUME Inv, UNCHANGED <<identity, work, stopped>>, KillFrames',
           doomed' \in [Runs -> SUBSET Runs], loop' \in Runs \cup {0},
           cancel' \in [Runs -> BOOLEAN], \A q \in Runs : cancel'[q] => Live(q)
    PROVE  Inv'
  <1>1. SpawnedFrames \subseteq Frames
    BY SpawnedInRuns DEF Inv
  <1>2. \A k \in Runs : kills'[k] \in Seq(SpawnedFrames)
    BY DEF KillFrames, SpawnedFrames, Spawned, identity
  <1>3. kills' \in [Runs -> Seq(Frames)]
    BY <1>1, <1>2, SeqMonotonic DEF KillFrames
  <1>4. TypeOK'
    BY <1>3 DEF Inv, TypeOK, identity, work
  <1>5. Places'
    BY DEF Inv, Places, Place, identity, work, Spawned, Live
  <1>. QED  BY <1>4, <1>5 DEF Inv

LEMMA ChildrenSpawned == \A r : Children(r) \subseteq Spawned
  BY DEF Children

LEMMA KillInv ==
    ASSUME Inv, NEW k \in Runs, Kill(k)
    PROVE  Inv'
  <1>1. k \in Spawned /\ Spawned \subseteq Runs
    BY SpawnedInRuns DEF Inv, Kill, Places, Place, Live, WorkerPCs
  <1>. DEFINE f == [of |-> k, todo |-> Children(k)]
  <1>2. f \in SpawnedFrames
    BY <1>1, ChildrenSpawned DEF SpawnedFrames
  <1>3. <<f>> \in Seq(SpawnedFrames) /\ <<f>> # << >>
    BY <1>2
  <1>4. kills' = [kills EXCEPT ![k] = <<f>>] /\ loop' = k /\ count' = count
    BY DEF Kill, identity
  <1>5. KillFrames'
    BY <1>3, <1>4 DEF Inv, KillFrames, SpawnedFrames, Spawned
  <1>6. doomed' \in [Runs -> SUBSET Runs]
    <2>. DEFINE D == {k} \cup Children(k) \cup UNION {Children(c) : c \in Children(k)}
    <2>1. D \subseteq Runs
      BY <1>1, ChildrenSpawned
    <2>2. doomed' = [doomed EXCEPT ![k] = D]
      BY DEF Kill
    <2>. QED  BY <2>1, <2>2 DEF Inv, TypeOK
  <1>7. cancel' \in [Runs -> BOOLEAN] /\ \A q \in Runs : cancel'[q] => Live(q)
    BY DEF Inv, TypeOK, Places, Place, Kill
  <1>8. UNCHANGED <<identity, work, stopped>>
    BY DEF Kill
  <1>. QED  BY <1>4, <1>5, <1>6, <1>7, <1>8, FramesMove

LEMMA DescendInv ==
    ASSUME Inv, NEW k \in Runs, Descend(k)
    PROVE  Inv'
  <1>1. PICK c \in Runs : PushChild(k, c)
    BY DEF Descend
  <1>2. loop = k /\ k # 0 /\ kills[k] \in Seq(SpawnedFrames) /\ kills[k] # << >>
    BY <1>1 DEF PushChild, Inv, KillFrames, Runs
  <1>3. Top(kills[k]) \in SpawnedFrames
    BY <1>2, TopTyping
  <1>4. c \in Spawned /\ Children(c) \in SUBSET Spawned
    BY <1>1, <1>3, ChildrenSpawned DEF PushChild, SpawnedFrames
  <1>. DEFINE t == Append(WithoutChild(kills[k], c),
                          [of |-> c, todo |-> Children(c)])
  <1>5. t \in Seq(SpawnedFrames) /\ t # << >>
    BY <1>2, <1>4, PushTyping DEF SpawnedFrames
  <1>6. kills' = [kills EXCEPT ![k] = t]
    BY <1>1 DEF PushChild
  <1>11. loop' = loop /\ count' = count
    BY <1>1 DEF PushChild, identity
  <1>. HIDE DEF t
  <1>7. KillFrames'
    BY <1>2, <1>5, <1>6, <1>11 DEF Inv, KillFrames, SpawnedFrames, Spawned
  <1>8. UNCHANGED <<identity, work, cancel, loop, doomed, stopped>>
    BY <1>1 DEF PushChild
  <1>9. cancel' \in [Runs -> BOOLEAN] /\ \A q \in Runs : cancel'[q] => Live(q)
    BY <1>8 DEF Inv, TypeOK, Places, Place
  <1>10. doomed' \in [Runs -> SUBSET Runs] /\ loop' \in Runs \cup {0}
    BY <1>8 DEF Inv, TypeOK
  <1>. QED  BY <1>7, <1>8, <1>9, <1>10, FramesMove

LEMMA PassOverInv ==
    ASSUME Inv, NEW k \in Runs, PassOver(k)
    PROVE  Inv'
  <1>1. kills[k] \in Seq(SpawnedFrames) /\ kills[k] # << >> /\ Len(kills[k]) > 1
    BY EmptySeq DEF PassOver, Inv, KillFrames, Runs
  <1>2. Pop(kills[k]) \in Seq(SpawnedFrames) /\ Pop(kills[k]) # << >>
    BY <1>1, PopTyping
  <1>3. kills' = [kills EXCEPT ![k] = Pop(kills[k])] /\ loop' = loop /\ count' = count
    BY DEF PassOver, identity
  <1>4. KillFrames'
    <2>1. SpawnedFrames' = SpawnedFrames
      BY <1>3 DEF SpawnedFrames, Spawned
    <2>2. kills' \in [Runs -> Seq(SpawnedFrames)]
      BY <1>2, <1>3 DEF Inv, KillFrames
    <2>3. loop' = k /\ kills'[k] # << >>
      BY <1>2, <1>3 DEF Inv, KillFrames, PassOver
    <2>. QED  BY <2>1, <2>2, <2>3 DEF KillFrames
  <1>5. UNCHANGED <<identity, work, cancel, loop, doomed, stopped>>
    BY DEF PassOver
  <1>6. cancel' \in [Runs -> BOOLEAN] /\ \A q \in Runs : cancel'[q] => Live(q)
    BY <1>5 DEF Inv, TypeOK, Places, Place
  <1>7. doomed' \in [Runs -> SUBSET Runs] /\ loop' \in Runs \cup {0}
    BY <1>5 DEF Inv, TypeOK
  <1>. QED  BY <1>4, <1>5, <1>6, <1>7, FramesMove

LEMMA CancelWorkerInv ==
    ASSUME Inv, NEW k \in Runs, CancelWorker(k)
    PROVE  Inv'
  <1>1. UNCHANGED <<identity, work, stopped>> /\ kills' = kills /\ loop' = 0
        /\ doomed' \in [Runs -> SUBSET Runs]
    BY DEF CancelWorker, Inv, TypeOK
  <1>2. KillFrames'
    BY <1>1 DEF Inv, KillFrames, SpawnedFrames, Spawned, identity
  <1>3. cancel' \in [Runs -> BOOLEAN] /\ \A q \in Runs : cancel'[q] => Live(q)
    BY DEF CancelWorker, Inv, TypeOK, Places, Place
  <1>. QED  BY <1>1, <1>2, <1>3, FramesMove

LEMMA WorkerAwaitedInv ==
    ASSUME Inv, NEW k \in Runs, WorkerAwaited(k)
    PROVE  Inv'
  <1>1. kills[k] \in Seq(SpawnedFrames) /\ kills[k] # << >>
    BY DEF WorkerAwaited, Inv, KillFrames
  <1>0. Top(kills[k]) \in SpawnedFrames
    BY <1>1, TopTyping
  <1>. PICK t \in Spawned : t = Top(kills[k]).of
    BY <1>0 DEF SpawnedFrames
  <1>2. t \in Spawned /\ pc[t] = "dead" /\ ~cancel[t] /\ t \in Runs
    <2>1. t \in Spawned
      OBVIOUS
    <2>2. t \in Runs
      BY SpawnedInRuns DEF Inv
    <2>3. ~Live(t)
      BY DEF WorkerAwaited
    <2>. QED  BY <2>1, <2>2, <2>3 DEF Inv, TypeOK, Places, Place, Live, WorkerPCs
  <1>3. /\ status' = [status EXCEPT ![t] = "cancelled"]
        /\ record' = [record EXCEPT ![t] = "cancelled"]
        /\ kills' = [kills EXCEPT ![k] = Pop(kills[k])]
        /\ loop' = IF Len(kills[k]) > 1 THEN k ELSE 0
        /\ UNCHANGED <<identity, session, pc, inbox, cancel, doomed, stopped>>
    BY DEF WorkerAwaited
  <1>4. Pop(kills[k]) \in Seq(SpawnedFrames) /\ (Len(kills[k]) > 1 => Pop(kills[k]) # << >>)
    BY <1>1, PopTyping
  <1>5. KillFrames'
    BY <1>3, <1>4 DEF Inv, KillFrames, SpawnedFrames, Spawned, identity
  <1>6. SpawnedFrames \subseteq Frames
    BY SpawnedInRuns DEF Inv
  <1>7. Pop(kills[k]) \in Seq(Frames)
    BY <1>4, <1>6, SeqMonotonic
  <1>8. TypeOK'
    <2>1. kills' \in [Runs -> Seq(Frames)]
      BY <1>3, <1>7 DEF Inv, TypeOK
    <2>2. status' \in [Runs -> Statuses] /\ record' \in [Runs -> Statuses]
      BY <1>3 DEF Inv, TypeOK, Statuses
    <2>3. loop' \in Runs \cup {0}
      BY <1>3
    <2>. QED  BY <1>3, <2>1, <2>2, <2>3 DEF Inv, TypeOK, identity
  <1>9. Place(t)'
    <2>1. status'[t] = "cancelled" /\ record'[t] = "cancelled" /\ pc'[t] = "dead"
          /\ ~cancel'[t] /\ t \in Spawned'
      BY <1>2, <1>3 DEF Inv, TypeOK, Spawned, identity
    <2>. QED  BY <2>1 DEF Place
  <1>10. \A q \in Runs \ {t} : Place(q)'
    <2>. SUFFICES ASSUME NEW q \in Runs \ {t} PROVE Place(q)'
      OBVIOUS
    <2>1. status'[q] = status[q] /\ record'[q] = record[q]
      BY <1>3 DEF Inv, TypeOK
    <2>. QED  BY <1>3, <2>1 DEF Inv, Places, Place, identity, Spawned, Live
  <1>. QED  BY <1>2, <1>5, <1>8, <1>9, <1>10 DEF Inv, Places

LEMMA ShutdownInv ==
    ASSUME Inv, Shutdown
    PROVE  Inv'
  <1>0. cancel' = [r \in Runs |-> Live(r)]
    BY DEF Shutdown
  <1>1. cancel' \in [Runs -> BOOLEAN] /\ \A q \in Runs : cancel'[q] => Live(q)
    <2>1. cancel' \in [Runs -> BOOLEAN]
      <3>1. \A r \in Runs : Live(r) \in BOOLEAN
        BY SMT DEF Live, WorkerPCs
      <3>. QED  BY <1>0, <3>1
    <2>2. \A q \in Runs : cancel'[q] => Live(q)
      BY <1>0, Zenon
    <2>. QED  BY <2>1, <2>2
  <1>2. TypeOK'
    BY <1>1 DEF Inv, TypeOK, Shutdown, identity, work, killers
  <1>3. Places'
    BY <1>1 DEF Inv, Places, Place, Shutdown, identity, work, Spawned, Live
  <1>4. KillFrames'
    BY DEF Inv, Shutdown, KillFrames, SpawnedFrames, Spawned, identity, killers
  <1>. QED  BY <1>2, <1>3, <1>4 DEF Inv

LEMMA StutterInv == Inv /\ UNCHANGED vars => Inv'
  BY ZenonT(40) DEF vars, Inv, TypeOK, Places, Place, KillFrames, SpawnedFrames, Spawned, Live

LEMMA StepInv == Inv /\ [Next]_vars => Inv'
  <1>. SUFFICES ASSUME Inv, [Next]_vars PROVE Inv'  OBVIOUS
  <1>1. ASSUME NEW k \in Runs, KillStep(k) PROVE Inv'
    BY <1>1, DescendInv, PassOverInv, CancelWorkerInv, WorkerAwaitedInv DEF KillStep
  <1>. QED  BY <1>1, SpawnInv, WorkerInv, SteerInv, KillInv, ShutdownInv, StutterInv
            DEF Next

\* TypeCorrect: the shapes of all variables, for any number of runs.
THEOREM TypeCorrect == Spec => []TypeOK
  <1>1. Spec => []Inv
    BY InitInv, StepInv, PTL DEF Spec
  <1>2. Inv => TypeOK
    BY DEF Inv
  <1>. QED  BY <1>1, <1>2, PTL

\* RunningMeansWorking: no ending of a worker leaves a task record that says
\* running.
THEOREM RunningMeansWorking == Spec => []RunningIsWorking
  <1>1. Spec => []Inv
    BY InitInv, StepInv, PTL DEF Spec
  <1>2. Inv => RunningIsWorking
    BY SpawnedInRuns DEF Inv, TypeOK, Places, Place, RunningIsWorking, WorkerPCs
  <1>. QED  BY <1>1, <1>2, PTL

\* RecordsAgree: the task record of a run whose worker is done has the run's
\* status.
THEOREM RecordsAgree == Spec => []RecordAgrees
  <1>1. Spec => []Inv
    BY InitInv, StepInv, PTL DEF Spec
  <1>2. Inv => RecordAgrees
    BY SpawnedInRuns DEF Inv, Places, Place, RecordAgrees
  <1>. QED  BY <1>1, <1>2, PTL

-----------------------------------------------------------------------------
(* The limits.  A step other than a spawn makes no run active. *)

LEMMA ActiveFinite == Inv => IsFiniteSet(Active)
  <1>. SUFFICES ASSUME Inv PROVE IsFiniteSet(Active)  OBVIOUS
  <1>1. count \in Int /\ 1 \in Int
    BY SubagentsAssumption DEF Inv, TypeOK
  <1>2. IsFiniteSet(Spawned)
    BY <1>1, FS_Interval DEF Spawned
  <1>. QED  BY <1>2, FS_Subset DEF Active

LEMMA NoRunRevives ==
    ASSUME Inv, [Next]_vars, ~ \E s \in Roots \cup Runs, m \in Modes : Spawn(s, m)
    PROVE  Active' \subseteq Active /\ owner' = owner
  <1>1. ASSUME NEW r \in Runs, WorkerStep(r) PROVE Active' \subseteq Active /\ owner' = owner
    <2>. USE DEF Inv, TypeOK, Places, Place, ActiveStatuses, identity, MayRun,
                 TakeMessage, WorkerPCs
    <2>1. status[r] \in ActiveStatuses \/ status'[r] \notin ActiveStatuses
      BY <1>1 DEF WorkerStep, SessionCreated, StartFails, MessageArrives,
         TurnSucceeds, TurnFails, RunCompletes, SessionGoesOn, FailureNotified,
         CancelLands
    <2>2. \A q \in Spawned \ {r} : status'[q] = status[q]
      BY <1>1, WorkerFrame, SpawnedInRuns
    <2>3. count' = count /\ owner' = owner
      BY <1>1, WorkerFrame
    <2>. QED  BY <2>1, <2>2, <2>3 DEF Active, Spawned
  <1>2. ASSUME NEW k \in Runs, KillStep(k) PROVE Active' \subseteq Active /\ owner' = owner
    <2>1. \A q \in Runs : status'[q] = status[q] \/ status'[q] = "cancelled"
      BY <1>2 DEF KillStep, Descend, PushChild, PassOver, CancelWorker, WorkerAwaited,
                  work, Inv, TypeOK
    <2>2. count' = count /\ owner' = owner
      BY <1>2 DEF KillStep, Descend, PushChild, PassOver, CancelWorker, WorkerAwaited,
                  identity
    <2>. QED  BY <2>1, <2>2, SpawnedInRuns DEF Active, Spawned, ActiveStatuses, Inv
  <1>3. ASSUME NEW r \in Runs, Steer(r) \/ Kill(r)
        PROVE  Active' \subseteq Active /\ owner' = owner
    BY <1>3 DEF Steer, Kill, identity, work, Active, Spawned
  <1>4. CASE Shutdown \/ UNCHANGED vars
    BY <1>4 DEF Shutdown, vars, identity, work, Active, Spawned
  <1>. QED  BY <1>1, <1>2, <1>3, <1>4 DEF Next

LEMMA LimitsKept ==
    ASSUME Inv, LimitsHold, [Next]_vars
    PROVE  LimitsHold'
  <1>0. IsFiniteSet(Active)
    BY ActiveFinite
  <1>1. ASSUME NEW s \in Roots \cup Runs, NEW m \in Modes, Spawn(s, m)
        PROVE  LimitsHold'
    <2>. PICK r \in Runs : r = count + 1
      BY <1>1, SubagentsAssumption DEF Inv, TypeOK, Spawn, Runs
    <2>1. /\ count' = r /\ status' = status /\ owner' = [owner EXCEPT ![r] = s]
          /\ WithinLimits(s)
      BY <1>1 DEF Spawn
    <2>2. Spawned' = Spawned \cup {r} /\ r \notin Spawned
      BY <2>1, SubagentsAssumption DEF Inv, TypeOK, Spawned, Runs
    <2>3. Active' \subseteq Active \cup {r} /\ r \notin Active
      BY <2>1, <2>2 DEF Active
    <2>4. Cardinality(Active') <= MaxConcurrent
      <3>1. /\ IsFiniteSet(Active \cup {r})
            /\ Cardinality(Active \cup {r}) = Cardinality(Active) + 1
        BY <1>0, <2>3, FS_AddElement
      <3>2. IsFiniteSet(Active') /\ Cardinality(Active') <= Cardinality(Active) + 1
        BY <2>3, <3>1, FS_Subset
      <3>3. Cardinality(Active) \in Nat /\ Cardinality(Active') \in Nat
        BY <1>0, <3>2, FS_CardinalityType
      <3>4. Cardinality(Active) < MaxConcurrent
        BY <2>1 DEF WithinLimits
      <3>. QED  BY <3>2, <3>3, <3>4, SubagentsAssumption
    <2>5. ASSUME NEW q \in Roots \cup Runs
          PROVE  Cardinality({x \in Active' : owner'[x] = q}) <= MaxPerSession
      <3>. DEFINE A == {x \in Active : owner[x] = q}
                  B == {x \in Active' : owner'[x] = q}
      <3>1. IsFiniteSet(A) /\ Cardinality(A) \in Nat
        BY <1>0, FS_Subset, FS_CardinalityType
      <3>2. \A x \in Spawned : owner'[x] = owner[x]
        BY <2>1, <2>2, SpawnedInRuns DEF Inv, TypeOK
      <3>3. CASE q # s
        <4>1. owner'[r] = s
          BY <2>1 DEF Inv, TypeOK
        <4>2. B \subseteq A
          BY <2>3, <3>2, <3>3, <4>1 DEF Active
        <4>3. Cardinality(B) <= Cardinality(A) /\ Cardinality(B) \in Nat
          BY <3>1, <4>2, FS_Subset, FS_CardinalityType
        <4>4. Cardinality(A) <= MaxPerSession
          BY DEF LimitsHold
        <4>. QED  BY <3>1, <4>3, <4>4, SubagentsAssumption
      <3>4. CASE q = s
        <4>1. B \subseteq A \cup {r}
          BY <2>3, <3>2 DEF Active
        <4>2. IsFiniteSet(A \cup {r}) /\ Cardinality(A \cup {r}) = Cardinality(A) + 1
          BY <2>3, <3>1, FS_AddElement
        <4>3. IsFiniteSet(B) /\ Cardinality(B) <= Cardinality(A) + 1
          BY <4>1, <4>2, FS_Subset
        <4>4. Cardinality(B) \in Nat
          BY <4>3, FS_CardinalityType
        <4>5. Cardinality(A) < MaxPerSession
          BY <2>1, <3>4 DEF WithinLimits
        <4>. QED  BY <3>1, <4>3, <4>4, <4>5, SubagentsAssumption
      <3>. QED  BY <3>3, <3>4
    <2>. QED  BY <2>4, <2>5 DEF LimitsHold
  <1>2. CASE ~ \E s \in Roots \cup Runs, m \in Modes : Spawn(s, m)
    <2>1. Active' \subseteq Active /\ owner' = owner
      BY <1>2, NoRunRevives
    <2>2. Cardinality(Active') <= Cardinality(Active) /\ IsFiniteSet(Active')
      BY <1>0, <2>1, FS_Subset
    <2>3. Cardinality(Active) \in Nat /\ Cardinality(Active') \in Nat
      BY <1>0, <2>2, FS_CardinalityType
    <2>4. ASSUME NEW q \in Roots \cup Runs
          PROVE  Cardinality({x \in Active' : owner'[x] = q}) <= MaxPerSession
      <3>. DEFINE A == {x \in Active : owner[x] = q}
                  B == {x \in Active' : owner'[x] = q}
      <3>1. IsFiniteSet(A) /\ Cardinality(A) \in Nat
        BY <1>0, FS_Subset, FS_CardinalityType
      <3>2. B \subseteq A
        BY <2>1
      <3>3. Cardinality(B) <= Cardinality(A) /\ Cardinality(B) \in Nat
        BY <3>1, <3>2, FS_Subset, FS_CardinalityType
      <3>4. Cardinality(A) <= MaxPerSession
        BY DEF LimitsHold
      <3>. QED  BY <3>1, <3>3, <3>4, SubagentsAssumption
    <2>. QED  BY <2>2, <2>3, <2>4, SubagentsAssumption DEF LimitsHold
  <1>. QED  BY <1>1, <1>2

\* SpawnLimitsHold: the limits on concurrent runs hold at any time, for any
\* limits: nothing a run, a steer or a kill does makes a finished run active.
THEOREM SpawnLimitsHold == Spec => []LimitsHold
  <1>1. Init => LimitsHold
    <2>. SUFFICES ASSUME Init PROVE LimitsHold  OBVIOUS
    <2>1. Active = {}
      BY DEF Init, Active, Spawned
    <2>2. \A s : {r \in Active : owner[r] = s} = {}
      BY <2>1
    <2>. QED  BY <2>1, <2>2, FS_EmptySet, SubagentsAssumption DEF LimitsHold
  <1>2. Inv /\ LimitsHold /\ [Next]_vars => LimitsHold'
    BY LimitsKept
  <1>. QED  BY <1>1, <1>2, InitInv, StepInv, PTL DEF Spec

-----------------------------------------------------------------------------
(* The tree of runs, and the outcomes. *)

LEMMA OnlySpawnGrows ==
    ASSUME [Next]_vars, ~ \E s \in Roots \cup Runs, m \in Modes : Spawn(s, m)
    PROVE  UNCHANGED identity
  BY DEF Next, vars, WorkerStep, SessionCreated, StartFails, MessageArrives,
         TurnSucceeds, TurnFails, RunCompletes, SessionGoesOn, FailureNotified,
         CancelLands, Steer, Kill, KillStep, Descend, PushChild, PassOver,
         CancelWorker, WorkerAwaited, Shutdown, identity

LEMMA ForestKept ==
    ASSUME Inv, TreeIsShallow, [Next]_vars
    PROVE  TreeIsShallow'
  <1>1. ASSUME NEW s \in Roots \cup Runs, NEW m \in Modes, Spawn(s, m)
        PROVE  TreeIsShallow'
    <2>. PICK r \in Runs : r = count + 1
      BY <1>1, SubagentsAssumption DEF Inv, TypeOK, Spawn, Runs
    <2>. PICK p \in Runs \cup {0} : p = ParentOf(s)
      BY SpawnedInRuns DEF ParentOf, Active, Inv
    <2>1. Spawned' = Spawned \cup {r} /\ r \notin Spawned /\ Spawned \subseteq Runs
      BY <1>1, SubagentsAssumption, SpawnedInRuns DEF Inv, TypeOK, Spawn, Spawned, Runs
    <2>2. p = 0 \/ p \in Spawned
      BY DEF ParentOf, Active
    <2>3. /\ parent' = [parent EXCEPT ![r] = p]
          /\ depth' = [depth EXCEPT ![r] = DepthFrom(p)]
          /\ DepthFrom(p) <= MaxDepth
      BY <1>1 DEF Spawn, WithinLimits
    <2>4. \A q \in Spawned : parent[q] = 0 \/ parent[q] \in Spawned
      <3>. SUFFICES ASSUME NEW q \in Spawned, parent[q] # 0
           PROVE  parent[q] \in Spawned
        OBVIOUS
      <3>1. q \in Nat /\ q <= count /\ count \in Nat
        BY SubagentsAssumption DEF Inv, TypeOK, Spawned
      <3>2. parent[q] \in Nat /\ parent[q] >= 1
        BY <2>1, SubagentsAssumption DEF Inv, TypeOK, Runs
      <3>3. parent[q] < q
        BY DEF TreeIsShallow
      <3>. QED  BY <3>1, <3>2, <3>3 DEF Spawned
    <2>5. ASSUME NEW q \in Spawned
          PROVE  /\ depth'[q] <= MaxDepth
                 /\ IF parent'[q] = 0 THEN depth'[q] = 1
                    ELSE parent'[q] < q /\ depth'[q] = depth'[parent'[q]] + 1
      BY <2>1, <2>3, <2>4 DEF TreeIsShallow, Inv, TypeOK
    <2>6. /\ depth'[r] = DepthFrom(p) /\ parent'[r] = p
          /\ p # 0 => p < r /\ depth'[p] = depth[p]
      BY <2>1, <2>2, <2>3 DEF Inv, TypeOK, Spawned
    <2>7. /\ depth'[r] <= MaxDepth
          /\ IF parent'[r] = 0 THEN depth'[r] = 1
             ELSE parent'[r] < r /\ depth'[r] = depth'[parent'[r]] + 1
      BY <2>3, <2>6 DEF DepthFrom
    <2>. QED  BY <2>1, <2>5, <2>7 DEF TreeIsShallow
  <1>2. CASE ~ \E s \in Roots \cup Runs, m \in Modes : Spawn(s, m)
    BY <1>2, OnlySpawnGrows DEF identity, TreeIsShallow, Spawned
  <1>. QED  BY <1>1, <1>2

\* ForestIsShallow: the depth limit holds for the whole forest of runs.
THEOREM ForestIsShallow == Spec => []TreeIsShallow
  <1>1. Init => TreeIsShallow
    BY DEF Init, TreeIsShallow, Spawned
  <1>2. Inv /\ TreeIsShallow /\ [Next]_vars => TreeIsShallow'
    BY ForestKept
  <1>. QED  BY <1>1, <1>2, InitInv, StepInv, PTL DEF Spec

\* OutcomesAreFinal: an outcome in a task record is replaced by none but
\* "cancelled".
THEOREM OutcomesAreFinal == Spec => OutcomeIsFinal
  <1>1. ASSUME Inv, [Next]_vars, NEW r \in Spawned, record[r] \in FinalStatuses
        PROVE  record'[r] \in {record[r], "cancelled"}
    <2>. USE DEF FinalStatuses, ActiveStatuses, Statuses
    <2>0. r \in Runs
      BY <1>1, SpawnedInRuns DEF Inv
    <2>1. ASSUME NEW q \in Runs, WorkerStep(q)
          PROVE  record'[r] \in {record[r], "cancelled"}
      <3>1. CASE q # r
        BY <2>0, <2>1, <3>1, WorkerFrame, <1>1
      <3>2. CASE q = r
        BY <1>1, <2>0, <2>1, <3>2
           DEF WorkerStep, SessionCreated, StartFails, MessageArrives, TurnSucceeds,
               TurnFails, RunCompletes, SessionGoesOn, FailureNotified, CancelLands,
               MayRun, TakeMessage, Inv, TypeOK, Places, Place
      <3>. QED  BY <3>1, <3>2
    <2>2. ASSUME NEW k \in Runs, KillStep(k)
          PROVE  record'[r] \in {record[r], "cancelled"}
      BY <1>1, <2>0, <2>2, ZenonT(40) DEF KillStep, Descend, PushChild, PassOver, CancelWorker,
                        WorkerAwaited, work, Inv, TypeOK
    <2>3. CASE UNCHANGED record
      BY <2>3
    <2>. QED  BY <1>1, <2>1, <2>2, <2>3
              DEF Next, Spawn, Steer, Kill, Shutdown, work, vars
  <1>2. Inv /\ [Next]_vars =>
          [\A r \in Spawned : record[r] \in FinalStatuses =>
             record'[r] \in {record[r], "cancelled"}]_vars
    BY <1>1 DEF vars
  <1>. QED  BY <1>2, InitInv, StepInv, PTL DEF Spec, OutcomeIsFinal

-----------------------------------------------------------------------------
(* What the frames of a kill still reach. *)

\* A frame reaches the run it is about, the children that are left, and theirs.
Reached(stack, r) ==
    \E i \in 1 .. Len(stack) :
        stack[i].of = r \/ r \in stack[i].todo \/ parent[r] \in stack[i].todo

\* Whoever was alive when the kill began is done or still reached.
Pursued ==
    \A k \in Runs : kills[k] # << >> =>
        /\ doomed[k] \subseteq Spawned
        /\ \A r \in doomed[k] : Live(r) => Reached(kills[k], r)

\* A worker that is done does not start again.
LEMMA DeadStayDead ==
    ASSUME Inv, [Next]_vars, NEW r \in Spawned
    PROVE  Live(r)' => Live(r)
  <1>0. r \in Runs
    BY SpawnedInRuns DEF Inv
  <1>1. ASSUME NEW q \in Runs, WorkerStep(q) PROVE Live(r)' => Live(r)
    <2>1. CASE q # r
      BY <1>0, <1>1, <2>1, WorkerFrame DEF Live
    <2>2. CASE q = r
      BY <1>0, <1>1, <2>2 DEF WorkerStep, SessionCreated, StartFails, MessageArrives, TurnSucceeds,
         TurnFails, RunCompletes, SessionGoesOn, FailureNotified, CancelLands, MayRun, TakeMessage,
         Inv, TypeOK, Places, Place, Live, WorkerPCs
    <2>. QED  BY <2>1, <2>2
  <1>2. ASSUME NEW s \in Roots \cup Runs, NEW m \in Modes, Spawn(s, m) PROVE Live(r)' => Live(r)
    <2>1. r # count + 1
      BY SubagentsAssumption DEF Spawned, Inv, TypeOK
    <2>. QED  BY <1>0, <1>2, <2>1 DEF Spawn, Live, Inv, TypeOK
  <1>3. CASE pc' = pc
    BY <1>3 DEF Live
  <1>. QED  BY <1>1, <1>2, <1>3 DEF Next, Steer, Kill, KillStep, Descend, PushChild, PassOver,
               CancelWorker, WorkerAwaited, Shutdown, work, vars

\* Going into a child: the child has its own frame now, and its living children are in it.
LEMMA PushReaches ==
    ASSUME NEW s \in Seq(SpawnedFrames), s # << >>, NEW c \in Top(s).todo, NEW r \in Spawned, Live(r),
           Reached(s, r)
    PROVE  Reached(Append(WithoutChild(s, c), [of |-> c, todo |-> Children(c)]), r)
  <1>. DEFINE n == Len(s)
              u == WithoutChild(s, c)
              f == [of |-> c, todo |-> Children(c)]
              t == Append(u, f)
  <1>1. n \in Nat /\ n \in 1 .. n /\ \A i \in 1 .. n : s[i] \in SpawnedFrames
    BY EmptySeq, LenProperties, ElementOfSeq
  <1>2. [s[n] EXCEPT !.todo = @ \ {c}] \in SpawnedFrames
    BY <1>1 DEF SpawnedFrames
  <1>3. /\ u \in Seq(SpawnedFrames) /\ Len(u) = n
        /\ \A i \in 1 .. n : u[i] = IF i = n THEN [s[n] EXCEPT !.todo = @ \ {c}] ELSE s[i]
    BY <1>1, <1>2, ExceptSeq DEF WithoutChild
  <1>4. \A i \in 1 .. n : u[i].of = s[i].of /\ s[i].todo \subseteq u[i].todo \cup {c}
    BY <1>1, <1>3 DEF SpawnedFrames
  <1>5. f \in [of : {c}, todo : SUBSET Spawned]
    BY ChildrenSpawned
  <1>6. /\ Len(t) = n + 1 /\ t[n + 1] = f /\ \A i \in 1 .. n : t[i] = u[i]
    <2>. HIDE DEF u, f
    <2>1. c \in Spawned
      BY <1>1 DEF Top, SpawnedFrames
    <2>2. f \in SpawnedFrames
      BY <2>1, <1>5 DEF SpawnedFrames
    <2>. QED  BY <1>1, <1>3, <2>2, AppendProperties
  <1>7. f.of = c /\ f.todo = Children(c)
    OBVIOUS
  <1>8. PICK i \in 1 .. n : s[i].of = r \/ r \in s[i].todo \/ parent[r] \in s[i].todo
    BY DEF Reached
  <1>9. parent[r] = c => r \in Children(c)
    BY DEF Children
  <1>. HIDE DEF n, u, f, t
  <1>10. i \in 1 .. Len(t) /\ n + 1 \in 1 .. Len(t) /\ t[i] = u[i]
    BY <1>1, <1>6, <1>8
  <1>11. Reached(t, r)
    BY <1>4, <1>6, <1>7, <1>8, <1>9, <1>10 DEF Reached
  <1>. QED  BY <1>11 DEF t, u, f

\* Leaving a frame whose children are all seen to and whose own worker is done.
LEMMA PopReaches ==
    ASSUME NEW s \in Seq(SpawnedFrames), s # << >>, Top(s).todo = {}, NEW r \in Spawned, Live(r),
           ~Live(Top(s).of), Reached(s, r)
    PROVE  Reached(Pop(s), r)
  <1>1. Len(s) \in Nat /\ Len(s) >= 1
    BY EmptySeq, LenProperties
  <1>2. PICK i \in 1 .. Len(s) : s[i].of = r \/ r \in s[i].todo \/ parent[r] \in s[i].todo
    BY DEF Reached
  <1>3. i # Len(s)
    BY <1>2 DEF Top
  <1>4. i \in 1 .. Len(s) - 1
    BY <1>1, <1>2, <1>3
  <1>5. \A j \in 1 .. Len(s) - 1 : s[j] \in SpawnedFrames
    BY <1>1, ElementOfSeq
  <1>6. /\ Len(Pop(s)) = IF 1 <= Len(s) - 1 THEN Len(s) - 1 - 1 + 1 ELSE 0
        /\ \A j \in 1 .. Len(s) - 1 - 1 + 1 : Pop(s)[j] = s[1 + j - 1]
    BY <1>1, <1>5, SubSeqProperties DEF Pop
  <1>7. Len(Pop(s)) = Len(s) - 1 /\ Pop(s)[i] = s[i]
    BY <1>1, <1>4, <1>6
  <1>. QED  BY <1>2, <1>4, <1>7 DEF Reached

LEMMA PursuedInitially == Init => Pursued
  BY DEF Init, Pursued

\* Steps that leave the kills alone.
LEMMA PursuedAside ==
    ASSUME Inv, Pursued, [Next]_vars, kills' = kills, doomed' = doomed
    PROVE  Pursued'
  <1>1. Spawned \subseteq Spawned' /\ \A r \in Spawned : parent'[r] = parent[r]
    <2>1. CASE \E s \in Roots \cup Runs, m \in Modes : Spawn(s, m)
      <3>1. count' = count + 1 /\ \E p : parent' = [parent EXCEPT ![count + 1] = p]
        BY <2>1 DEF Spawn
      <3>2. parent \in [Runs -> Runs \cup {0}] /\ Spawned \subseteq Runs /\ count \in Nat
        BY SpawnedInRuns, SubagentsAssumption DEF Inv, TypeOK
      <3>. QED  BY <3>1, <3>2 DEF Spawned
    <2>2. CASE ~ \E s \in Roots \cup Runs, m \in Modes : Spawn(s, m)
      BY <2>2, OnlySpawnGrows DEF identity, Spawned
    <2>. QED  BY <2>1, <2>2
  <1>2. ASSUME NEW k \in Runs, kills'[k] # << >>
        PROVE  /\ doomed'[k] \subseteq Spawned'
               /\ \A r \in doomed'[k] : Live(r)' => Reached(kills[k], r)'
    <2>1. doomed[k] \subseteq Spawned /\ \A r \in doomed[k] : Live(r) => Reached(kills[k], r)
      BY <1>2 DEF Pursued
    <2>2. ASSUME NEW r \in doomed[k], Live(r)' PROVE Reached(kills[k], r)'
      BY <1>1, <2>1, <2>2, DeadStayDead DEF Reached
    <2>. QED  BY <1>1, <2>1, <2>2
  <1>. QED  BY <1>2 DEF Pursued

\* Steps of a kill of k: the others are left alone, and who runs is.
LEMMA PursuedStep ==
    ASSUME Inv, Pursued, NEW k \in Runs, KillStep(k)
    PROVE  Pursued' /\ (kills[k] # << >> /\ kills'[k] = << >> => \A r \in doomed[k] : ~Live(r))
  <1>1. /\ kills \in [Runs -> Seq(SpawnedFrames)] /\ (loop # 0 => kills[loop] # << >>)
        /\ doomed \in [Runs -> SUBSET Runs] /\ k # 0
    BY DEF Inv, KillFrames, TypeOK, Runs
  <1>2. UNCHANGED <<count, parent, pc, doomed>>
    BY DEF KillStep, Descend, PushChild, PassOver, CancelWorker, WorkerAwaited, identity, work
  <1>. DEFINE Chased(stack) == \A r \in doomed[k] : Live(r) => Reached(stack, r)
  <1>3. kills[k] # << >> => doomed[k] \subseteq Spawned /\ Chased(kills[k])
    BY DEF Pursued
  <1>. DEFINE Safe(q) == /\ doomed'[q] \subseteq Spawned'
                         /\ \A r \in doomed'[q] : Live(r)' => Reached(kills[q], r)'
  <1>4. ASSUME NEW t, kills' = [kills EXCEPT ![k] = t], kills[k] # << >>, Chased(t),
               NEW q \in Runs, kills'[q] # << >>
        PROVE  Safe(q)
    <2>1. kills'[q] = IF q = k THEN t ELSE kills[q]
      BY <1>1, <1>4
    <2>2. doomed'[q] = doomed[q] /\ Spawned' = Spawned /\ \A r \in Runs : Live(r)' <=> Live(r)
      BY <1>2 DEF Spawned, Live
    <2>3. CASE q = k
      BY <1>1, <1>2, <1>3, <1>4, <2>1, <2>2, <2>3 DEF Reached
    <2>4. CASE q # k
      <3>1. kills[q] # << >> /\ kills'[q] = kills[q]
        BY <1>4, <2>1, <2>4
      <3>2. doomed[q] \subseteq Spawned /\ \A r \in doomed[q] : Live(r) => Reached(kills[q], r)
        BY <3>1 DEF Pursued
      <3>. QED  BY <1>1, <1>2, <2>2, <3>1, <3>2 DEF Reached
    <2>. QED  BY <2>3, <2>4
  <1>5. CASE Descend(k)
    <2>1. PICK c \in Runs : PushChild(k, c)
      BY <1>5 DEF Descend
    <2>2. /\ kills[k] # << >> /\ c \in Top(kills[k]).todo
          /\ kills' = [kills EXCEPT ![k] = Append(WithoutChild(kills[k], c),
                                                 [of |-> c, todo |-> Children(c)])]
      BY <1>1, <2>1 DEF PushChild
    <2>. DEFINE t == Append(WithoutChild(kills[k], c), [of |-> c, todo |-> Children(c)])
    <2>3. Chased(t)
      BY <1>1, <1>3, <2>2, PushReaches
    <2>4. t # << >>
      <3>1. Top(kills[k]) \in SpawnedFrames
        BY <1>1, <2>2, TopTyping
      <3>2. c \in Spawned
        BY <2>2, <3>1 DEF SpawnedFrames
      <3>. QED  BY <1>1, <2>2, <3>2, ChildrenSpawned, PushTyping DEF SpawnedFrames
    <2>. HIDE DEF t
    <2>5. kills' = [kills EXCEPT ![k] = t]
      BY <2>2 DEF t
    <2>6. ASSUME NEW q \in Runs, kills'[q] # << >> PROVE Safe(q)
      BY <1>4, <2>2, <2>3, <2>5, <2>6
    <2>7. kills'[k] # << >>
      BY <1>1, <2>4, <2>5
    <2>. QED  BY <2>6, <2>7 DEF Pursued
  <1>6. CASE PassOver(k) \/ WorkerAwaited(k)
    <2>1. /\ kills[k] # << >> /\ Top(kills[k]).todo = {} /\ ~Live(Top(kills[k]).of)
          /\ kills' = [kills EXCEPT ![k] = Pop(kills[k])]
      BY <1>1, <1>6, EmptySeq DEF PassOver, WorkerAwaited
    <2>. DEFINE t == Pop(kills[k])
    <2>2. Chased(t)
      BY <1>1, <1>3, <2>1, PopReaches
    <2>. HIDE DEF t
    <2>3. kills' = [kills EXCEPT ![k] = t]
      BY <2>1 DEF t
    <2>4. ASSUME NEW q \in Runs, kills'[q] # << >> PROVE Safe(q)
      BY <1>4, <2>1, <2>2, <2>3, <2>4
    <2>5. ASSUME kills'[k] = << >>, NEW r \in doomed[k] PROVE ~Live(r)
      <3>1. t = << >>
        BY <1>1, <2>3, <2>5
      <3>2. ~Reached(<< >>, r)
        BY EmptySeq DEF Reached
      <3>. QED  BY <2>2, <3>1, <3>2
    <2>. QED  BY <2>4, <2>5 DEF Pursued
  <1>7. CASE CancelWorker(k)
    <2>1. kills' = kills
      BY <1>7 DEF CancelWorker
    <2>. QED  BY <1>2, <2>1 DEF Pursued, Reached, Live, Spawned
  <1>. QED  BY <1>5, <1>6, <1>7 DEF KillStep

\* A kill begins: the run is in its frame, its children are listed, and so are their parents.
LEMMA PursuedFromTheStart ==
    ASSUME Inv, Pursued, NEW k \in Runs, Kill(k)
    PROVE  Pursued'
  <1>. DEFINE f == [of |-> k, todo |-> Children(k)]
              D == {k} \cup Children(k) \cup UNION {Children(c) : c \in Children(k)}
  <1>1. /\ kills' = [kills EXCEPT ![k] = <<f>>] /\ doomed' = [doomed EXCEPT ![k] = D]
        /\ UNCHANGED <<count, parent, pc>>
    BY DEF Kill, identity, work
  <1>2. kills \in [Runs -> Seq(Frames)] /\ doomed \in [Runs -> SUBSET Runs]
    BY DEF Inv, TypeOK
  <1>3. k \in Spawned
    BY DEF Inv, Kill, Places, Place, Live, WorkerPCs
  <1>4. D \subseteq Spawned
    BY <1>3, ChildrenSpawned
  <1>5. ASSUME NEW r \in D PROVE Reached(<<f>>, r)
    <2>1. r = k \/ r \in Children(k) \/ parent[r] \in Children(k)
      BY <1>5 DEF Children
    <2>2. Len(<<f>>) = 1 /\ <<f>>[1] = f
      OBVIOUS
    <2>3. f.of = k /\ f.todo = Children(k)
      OBVIOUS
    <2>. HIDE DEF f
    <2>. QED  BY <2>1, <2>2, <2>3 DEF Reached
  <1>. HIDE DEF f, D
  <1>6. ASSUME NEW q \in Runs, kills'[q] # << >>
        PROVE  /\ doomed'[q] \subseteq Spawned'
               /\ \A r \in doomed'[q] : Live(r)' => Reached(kills[q], r)'
    <2>1. CASE q = k
      BY <1>1, <1>2, <1>4, <1>5, <2>1 DEF Spawned, Reached
    <2>2. CASE q # k
      BY <1>1, <1>2, <1>6, <2>2 DEF Pursued, Spawned, Reached, Live
    <2>. QED  BY <2>1, <2>2
  <1>. QED  BY <1>6 DEF Pursued

LEMMA PursuedKept ==
    ASSUME Inv, Pursued, [Next]_vars
    PROVE  /\ Pursued'
           /\ \A k \in Runs : kills[k] # << >> /\ kills'[k] = << >> => \A r \in doomed[k] : ~Live(r)'
  <1>0. kills \in [Runs -> Seq(Frames)]
    BY DEF Inv, TypeOK
  <1>1. ASSUME NEW k \in Runs, KillStep(k)
        PROVE  /\ Pursued'
               /\ \A q \in Runs : kills[q] # << >> /\ kills'[q] = << >> =>
                     \A r \in doomed[q] : ~Live(r)'
    <2>1. pc' = pc /\ doomed' = doomed
      BY <1>1 DEF KillStep, Descend, PushChild, PassOver, CancelWorker, WorkerAwaited, work
    <2>2. \A q \in Runs \ {k} : kills'[q] = kills[q]
      BY <1>0, <1>1 DEF KillStep, Descend, PushChild, PassOver, CancelWorker, WorkerAwaited
    <2>. QED  BY <1>1, <2>1, <2>2, PursuedStep DEF Live
  <1>2. ASSUME NEW k \in Runs, Kill(k)
        PROVE  /\ Pursued'
               /\ \A q \in Runs : kills[q] # << >> => kills'[q] # << >>
    <2>1. \E f : kills' = [kills EXCEPT ![k] = <<f>>]
      BY <1>2 DEF Kill
    <2>. QED  BY <1>0, <1>2, <2>1, PursuedFromTheStart
  <1>3. CASE kills' = kills /\ doomed' = doomed
    BY <1>3, PursuedAside
  <1>. QED  BY <1>1, <1>2, <1>3 DEF Next, Spawn, WorkerStep, SessionCreated, StartFails,
               MessageArrives, TurnSucceeds, TurnFails, RunCompletes, SessionGoesOn, FailureNotified,
               CancelLands, Steer, Shutdown, killers, vars

\* When a kill ends, the workers of the run, of its children and of their children that were alive
\* when it began are done, however many there are and whatever ran while it waited for them.
THEOREM KillsAreThorough == Spec => KillIsThorough
  <1>1. Inv /\ Pursued /\ [Next]_vars =>
          [\A k \in Runs : kills[k] # << >> /\ kills'[k] = << >> =>
             \A r \in doomed[k] : ~Live(r)']_vars
    BY PursuedKept
  <1>2. Inv /\ Pursued /\ [Next]_vars => Pursued'
    BY PursuedKept
  <1>. QED  BY <1>1, <1>2, InitInv, StepInv, PursuedInitially, PTL DEF Spec, KillIsThorough

=============================================================================
