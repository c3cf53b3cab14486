----------------------- MODULE DecisionPipeline_proofs -----------------------
(***************************************************************************)
(* Proofs about DecisionPipeline, for every graph, every set of            *)
(* overlapping runs and every setting of modes, risks and guards.          *)
(***************************************************************************)
EXTENDS DecisionPipeline, TLAPS

LEMMA PossibleAreOutcomes ==
    ASSUME NEW threshold, NEW up
    PROVE  PossibleOutcomes(threshold, up) \subseteq Outcomes
  BY DEF PossibleOutcomes, Outcomes

(* Every reachable state is well-typed, for every instance: in particular  *)
(* an outcome reaches the queue, the store or the trace only as one of the *)
(* four outcomes of the policy engine.  The proof needs to know that a     *)
(* task past "built" has a verdict, which is the second part of TypeInv    *)
Judged == {"judged", "traced", "audited", "queued", "routed", "completed"}

HasVerdict ==
    \A r \in Runs, d \in Decisions :
        stage[r][d] \in Judged => verdict[r][d] \in Summary(Confidences)

(* ... and a run that gathers is at a wave, so that it has a next one. *)
GathersInWave == \A r \in Runs : awaiting[r] => wave[r] \in 1..NumWaves

TypeInv == TypeOK /\ HasVerdict /\ GathersInWave

LEMMA TypeInit == Init => TypeInv
  <1> SUFFICES ASSUME Init PROVE TypeInv
    OBVIOUS
  <1>1. ControlType
    BY PipelineAssumption DEF Init, ControlType
  <1>2. TaskType
    BY DEF Init, TaskType, Stages, None
  <1>3. EvidenceType
    BY DEF Init, EvidenceType, NoTrace
  <1>4. EffectType
    BY DEF Init, EffectType
  <1>5. HasVerdict
    BY DEF Init, HasVerdict, Judged
  <1>6. GathersInWave
    BY DEF Init, GathersInWave
  <1> QED
    BY <1>1, <1>2, <1>3, <1>4, <1>5, <1>6 DEF TypeInv, TypeOK

LEMMA BeginType ==
    ASSUME TypeInv, NEW r \in Runs, Begin(r)
    PROVE  TypeInv'
  <1>1. ControlType'
    BY PipelineAssumption DEF TypeInv, TypeOK, Begin, ControlType
  <1>2. TaskType'
    BY DEF TypeInv, TypeOK, Begin, TaskType
  <1>3. EvidenceType'
    BY DEF TypeInv, TypeOK, Begin, EvidenceType, evidence
  <1>4. EffectType'
    BY DEF TypeInv, TypeOK, Begin, EffectType, effects
  <1>5. HasVerdict'
    BY DEF TypeInv, Begin, HasVerdict
  <1>6. GathersInWave'
    BY DEF TypeInv, TypeOK, ControlType, Begin, GathersInWave
  <1> QED
    BY <1>1, <1>2, <1>3, <1>4, <1>5, <1>6 DEF TypeInv, TypeOK

LEMMA DispatchType ==
    ASSUME TypeInv, NEW r \in Runs, Dispatch(r)
    PROVE  TypeInv'
  <1>1. ControlType'
    BY PipelineAssumption DEF TypeInv, TypeOK, Dispatch, ControlType
  <1>2. TaskType'
    BY DEF TypeInv, TypeOK, Dispatch, TaskType, Stages, Running, Final
  <1>3. EvidenceType'
    BY DEF TypeInv, TypeOK, Dispatch, EvidenceType, evidence
  <1>4. EffectType'
    BY DEF TypeInv, TypeOK, Dispatch, EffectType, effects
  <1>5. HasVerdict'
    BY DEF TypeInv, TypeOK, TaskType, Dispatch, HasVerdict, Judged
  <1>6. GathersInWave'
    BY DEF TypeInv, TypeOK, ControlType, Dispatch, GathersInWave
  <1> QED
    BY <1>1, <1>2, <1>3, <1>4, <1>5, <1>6 DEF TypeInv, TypeOK

LEMMA CollectType ==
    ASSUME TypeInv, NEW r \in Runs, Collect(r)
    PROVE  TypeInv'
  <1>1. ControlType'
    BY PipelineAssumption DEF TypeInv, TypeOK, GathersInWave, Collect, ControlType, InWave
  <1>2. TaskType'
    BY DEF TypeInv, TypeOK, Collect, TaskType, Stages, Running, Final
  <1>3. EvidenceType'
    BY DEF TypeInv, TypeOK, Collect, EvidenceType, evidence
  <1>4. EffectType'
    BY DEF TypeInv, TypeOK, Collect, EffectType, effects
  <1>5. HasVerdict'
    BY DEF TypeInv, TypeOK, TaskType, Collect, HasVerdict, Judged
  <1>6. GathersInWave'
    BY DEF TypeInv, TypeOK, ControlType, Collect, GathersInWave
  <1> QED
    BY <1>1, <1>2, <1>3, <1>4, <1>5, <1>6 DEF TypeInv, TypeOK

(* The steps of a task leave the executor's variables alone. *)
LEMMA TaskStepType ==
    ASSUME TypeInv, NEW r \in Runs, NEW d \in Decisions, Task(r, d)
    PROVE  TypeInv'
  <1>1. CASE Build(r, d)
    <2>1. ControlType' /\ EvidenceType' /\ EffectType' /\ GathersInWave'
      BY <1>1 DEF TypeInv, TypeOK, ControlType, EvidenceType, EffectType, GathersInWave,
                  Build, control, evidence, effects
    <2>2. TaskType'
      BY <1>1 DEF TypeInv, TypeOK, EffectType, TaskType, Stages, Running, Build, Advance
    <2>3. HasVerdict'
      BY <1>1 DEF TypeInv, TypeOK, TaskType, HasVerdict, Judged, Build, Advance
    <2> QED
      BY <2>1, <2>2, <2>3 DEF TypeInv, TypeOK
  <1>2. CASE Judge(r, d)
    <2>1. ControlType' /\ EvidenceType' /\ EffectType' /\ GathersInWave'
      BY <1>2 DEF TypeInv, TypeOK, ControlType, EvidenceType, EffectType, GathersInWave,
                  Judge, control, evidence, effects
    <2>2. PICK v \in Summary(Confidences) : verdict' = [verdict EXCEPT ![r][d] = v]
      BY <1>2, PossibleAreOutcomes DEF Judge, Summary
    <2>3. TaskType'
      BY <1>2, <2>2 DEF TypeInv, TypeOK, TaskType, Stages, Running, Judge, Advance
    <2>4. HasVerdict'
      BY <1>2, <2>2 DEF TypeInv, TypeOK, TaskType, HasVerdict, Judged, Judge, Advance
    <2> QED
      BY <2>1, <2>3, <2>4 DEF TypeInv, TypeOK
  <1>3. CASE WriteTrace(r, d)
    <2>1. ControlType' /\ EffectType' /\ GathersInWave'
      BY <1>3 DEF TypeInv, TypeOK, ControlType, EffectType, GathersInWave,
                  WriteTrace, control, effects
    <2>2. verdict[r][d].outcome \in Outcomes
      BY <1>3 DEF TypeInv, HasVerdict, Judged, Summary, WriteTrace, Advance
    <2>3. EvidenceType'
      BY <1>3, <2>2 DEF TypeInv, TypeOK, EvidenceType, WriteTrace
    <2>4. TaskType'
      BY <1>3 DEF TypeInv, TypeOK, TaskType, Stages, Running, WriteTrace, Advance
    <2>5. HasVerdict'
      BY <1>3 DEF TypeInv, TypeOK, TaskType, HasVerdict, Judged, WriteTrace, Advance
    <2> QED
      BY <2>1, <2>3, <2>4, <2>5 DEF TypeInv, TypeOK
  <1>4. CASE AuditGate(r, d)
    <2>1. ControlType' /\ EvidenceType' /\ EffectType' /\ GathersInWave'
      BY <1>4 DEF TypeInv, TypeOK, ControlType, EvidenceType, EffectType, GathersInWave,
                  AuditGate, control, effects
    <2>2. TaskType'
      BY <1>4 DEF TypeInv, TypeOK, TaskType, Stages, Running, AuditGate, Advance
    <2>3. HasVerdict'
      BY <1>4 DEF TypeInv, TypeOK, TaskType, HasVerdict, Judged, AuditGate, Advance
    <2> QED
      BY <2>1, <2>2, <2>3 DEF TypeInv, TypeOK
  <1>5. CASE Observe(r, d)
    <2>1. ControlType' /\ EvidenceType' /\ EffectType' /\ GathersInWave'
      BY <1>5 DEF TypeInv, TypeOK, ControlType, EvidenceType, EffectType, GathersInWave,
                  Observe, control, evidence, effects
    <2>2. TaskType'
      BY <1>5 DEF TypeInv, TypeOK, TaskType, Stages, Resolved, Observe, Advance
    <2>3. HasVerdict'
      BY <1>5 DEF TypeInv, TypeOK, TaskType, HasVerdict, Judged, Observe, Advance
    <2> QED
      BY <2>1, <2>2, <2>3 DEF TypeInv, TypeOK
  <1>6. CASE Enqueue(r, d)
    <2>1. ControlType' /\ EvidenceType' /\ GathersInWave'
      BY <1>6 DEF TypeInv, TypeOK, ControlType, EvidenceType, GathersInWave,
                  Enqueue, control, evidence
    <2>2. verdict[r][d].outcome \in Outcomes
      BY <1>6 DEF TypeInv, HasVerdict, Judged, Summary, Enqueue, Advance
    <2>3. EffectType'
      <3>1. [run |-> r, proposed |-> verdict[r][d].outcome] \in QueueItems
        BY <2>2 DEF QueueItems
      <3>2. /\ queue \in [Decisions -> Seq(QueueItems)] /\ log' = log
            /\ queue' = [queue EXCEPT ![d] = Append(@, [run |-> r, proposed |-> verdict[r][d].outcome])]
        BY <1>6 DEF TypeInv, TypeOK, EffectType, Enqueue
      <3>3. queue' \in [Decisions -> Seq(QueueItems)]
        BY <3>1, <3>2
      <3> QED
        BY <3>2, <3>3 DEF TypeInv, TypeOK, EffectType
    <2>4. TaskType'
      BY <1>6 DEF TypeInv, TypeOK, TaskType, Stages, Running, Enqueue, Advance
    <2>5. HasVerdict'
      BY <1>6 DEF TypeInv, TypeOK, TaskType, HasVerdict, Judged, Enqueue, Advance
    <2> QED
      BY <2>1, <2>3, <2>4, <2>5 DEF TypeInv, TypeOK
  <1>7. CASE Writeback(r, d)
    <2>1. ControlType' /\ EvidenceType' /\ GathersInWave'
      BY <1>7 DEF TypeInv, TypeOK, ControlType, EvidenceType, GathersInWave,
                  Writeback, control, evidence
    <2>2. verdict[r][d] \in Summary(Confidences)
      BY <1>7 DEF TypeInv, HasVerdict, Judged, Writeback
    <2>3. [run |-> r, outcome |-> verdict[r][d].outcome,
           confidence |-> verdict[r][d].confidence] \in DecisionRecords
      BY <2>2 DEF Summary, DecisionRecords
    <2>4. EffectType'
      BY <1>7, <2>3 DEF TypeInv, TypeOK, EffectType, Writeback
    <2>5. TaskType'
      BY <1>7 DEF TypeInv, TypeOK, TaskType, Stages, Resolved, Writeback
    <2>6. HasVerdict'
      BY <1>7, <2>2 DEF TypeInv, TypeOK, TaskType, HasVerdict, Judged, Writeback
    <2> QED
      BY <2>1, <2>4, <2>5, <2>6 DEF TypeInv, TypeOK
  <1>8. CASE Raise(r, d)
    <2>1. ControlType' /\ EvidenceType' /\ EffectType' /\ GathersInWave'
      BY <1>8 DEF TypeInv, TypeOK, ControlType, EvidenceType, EffectType, GathersInWave,
                  Raise, control, evidence, effects
    <2>2. TaskType'
      BY <1>8 DEF TypeInv, TypeOK, TaskType, Stages, Resolved, Raise
    <2>3. HasVerdict'
      BY <1>8 DEF TypeInv, TypeOK, TaskType, HasVerdict, Judged, Raise
    <2> QED
      BY <2>1, <2>2, <2>3 DEF TypeInv, TypeOK
  <1> QED
    BY <1>1, <1>2, <1>3, <1>4, <1>5, <1>6, <1>7, <1>8 DEF Task

LEMMA TypeStutter == TypeInv /\ UNCHANGED vars => TypeInv'
  BY DEF TypeInv, TypeOK, ControlType, TaskType, EvidenceType, EffectType, HasVerdict,
         GathersInWave, vars, control, evidence, effects

LEMMA TypeNext == TypeInv /\ [Next]_vars => TypeInv'
  <1> SUFFICES ASSUME TypeInv, [Next]_vars PROVE TypeInv'
    OBVIOUS
  <1>1. CASE UNCHANGED vars
    BY <1>1, TypeStutter
  <1>2. ASSUME NEW r \in Runs, Begin(r) PROVE TypeInv'
    BY <1>2, BeginType
  <1>3. ASSUME NEW r \in Runs, Dispatch(r) PROVE TypeInv'
    BY <1>3, DispatchType
  <1>4. ASSUME NEW r \in Runs, Collect(r) PROVE TypeInv'
    BY <1>4, CollectType
  <1>5. ASSUME NEW r \in Runs, NEW d \in Decisions, Task(r, d) PROVE TypeInv'
    BY <1>5, TaskStepType
  <1> QED
    BY <1>1, <1>2, <1>3, <1>4, <1>5 DEF Next, Executor

LEMMA TypeInvariant == Spec => []TypeInv
  BY TypeInit, TypeNext, PTL DEF Spec

(* Every reachable state is well-typed, for every instance: in particular  *)
(* an outcome reaches the queue, the store or the trace only as one of the *)
(* four outcomes of the policy engine.                                     *)
THEOREM TypeCorrect == Spec => []TypeOK
  <1>1. TypeInv => TypeOK
    BY DEF TypeInv
  <1> QED
    BY <1>1, TypeInvariant, PTL

-----------------------------------------------------------------------------
(* Where the tasks of a run can be: decisions of later waves are pending,  *)
(* those of earlier waves are final, and only the wave the run gathers has *)
(* tasks.  Everything below needs it, because Dispatch and Collect look at *)
(* the wave of a decision and not at its stage.                            *)
WavePos(r, d) ==
    /\ WaveOf[d] > wave[r] => stage[r][d] = "pending"
    /\ WaveOf[d] = wave[r] /\ ~awaiting[r] => stage[r][d] = "pending"
    /\ WaveOf[d] < wave[r] => stage[r][d] \in Final
    /\ WaveOf[d] = wave[r] /\ awaiting[r] =>
          stage[r][d] \in Running \cup Resolved \cup {"skipped"}

WavePosition == \A r \in Runs, d \in Decisions : WavePos(r, d)

(* What every step of a task has in common. *)
LEMMA TaskMoves ==
    ASSUME TypeInv, NEW r \in Runs, NEW d \in Decisions, Task(r, d)
    PROVE  /\ UNCHANGED <<control, announced>>
           /\ stage[r][d] \in Running
           /\ \E x \in Running \cup Resolved : stage' = [stage EXCEPT ![r][d] = x]
  <1>1. CASE Build(r, d)
    BY <1>1 DEF Build, Advance, Running
  <1>2. CASE Judge(r, d)
    BY <1>2 DEF Judge, Advance, Running
  <1>3. CASE WriteTrace(r, d)
    BY <1>3 DEF WriteTrace, Advance, Running
  <1>4. CASE AuditGate(r, d)
    BY <1>4 DEF AuditGate, Advance, Running
  <1>5. CASE Observe(r, d)
    BY <1>5 DEF Observe, Advance, Running, Resolved
  <1>6. CASE Enqueue(r, d)
    BY <1>6 DEF Enqueue, Advance, Running
  <1>7. CASE Writeback(r, d)
    BY <1>7 DEF Writeback, Running, Resolved
  <1>8. CASE Raise(r, d)
    BY <1>8 DEF Raise, Running, Resolved
  <1> QED
    BY <1>1, <1>2, <1>3, <1>4, <1>5, <1>6, <1>7, <1>8 DEF Task

LEMMA WaveInit == Init => WavePosition
  <1> SUFFICES ASSUME Init, NEW r \in Runs, NEW d \in Decisions PROVE WavePos(r, d)
    BY DEF WavePosition
  <1>1. wave[r] = 0 /\ ~awaiting[r] /\ stage[r][d] = "pending"
    BY DEF Init
  <1>2. WaveOf[d] \in Nat /\ WaveOf[d] > 0
    BY PipelineAssumption
  <1> QED
    BY <1>1, <1>2 DEF WavePos

LEMMA WaveNext == TypeInv /\ WavePosition /\ [Next]_vars => WavePosition'
  <1> SUFFICES ASSUME TypeInv, WavePosition, [Next]_vars,
                      NEW q \in Runs, NEW e \in Decisions
               PROVE  WavePos(q, e)'
    BY DEF WavePosition
  <1>0. WavePos(q, e) /\ WaveOf[e] \in Nat /\ WaveOf[e] > 0 /\ wave[q] \in Nat
    BY PipelineAssumption DEF WavePosition, TypeInv, TypeOK, ControlType
  <1>1. CASE UNCHANGED vars
    BY <1>0, <1>1 DEF WavePos, vars, control
  <1>2. ASSUME NEW r \in Runs, Begin(r) PROVE WavePos(q, e)'
    <2>1. /\ stage' = stage /\ awaiting' = awaiting
          /\ wave'[q] = IF q = r THEN 1 ELSE wave[q]
          /\ wave[r] = 0
      BY <1>2 DEF Begin, TypeInv, TypeOK, ControlType
    <2>2. q = r => ~awaiting[q]
      BY <2>1 DEF TypeInv, GathersInWave
    <2> QED
      BY <1>0, <2>1, <2>2 DEF WavePos
  <1>3. ASSUME NEW r \in Runs, Dispatch(r) PROVE WavePos(q, e)'
    <2> DEFINE tasks == {d \in InWave(r) : MayStart(r, d)}
    <2>1. CASE q # r
      <3>1. stage'[q] = stage[q] /\ wave'[q] = wave[q] /\ awaiting'[q] = awaiting[q]
        BY <1>3, <2>1 DEF Dispatch, TypeInv, TypeOK, ControlType, TaskType
      <3> QED
        BY <1>0, <3>1 DEF WavePos
    <2>2. CASE q = r
      <3>1. wave'[r] = IF tasks = {} THEN wave[r] + 1 ELSE wave[r]
        BY <1>3 DEF Dispatch, TypeInv, TypeOK, ControlType
      <3>2. awaiting'[r] <=> tasks # {}
        BY <1>3 DEF Dispatch, TypeInv, TypeOK, ControlType
      <3>3. stage'[r][e] = IF e \in tasks THEN "started"
                           ELSE IF e \in InWave(r) THEN "skipped" ELSE stage[r][e]
        BY <1>3 DEF Dispatch, TypeInv, TypeOK, TaskType
      <3>4. ~awaiting[r]
        BY <1>3 DEF Dispatch
      <3>5. e \in InWave(r) <=> WaveOf[e] = wave[r]
        BY DEF InWave
      <3>6. CASE tasks = {}
        BY <1>0, <2>2, <3>1, <3>2, <3>3, <3>4, <3>5, <3>6 DEF WavePos, Final
      <3>7. CASE tasks # {}
        <4>1. e \in tasks => e \in InWave(r)
          OBVIOUS
        <4> HIDE DEF tasks
        <4> QED
          BY <1>0, <2>2, <3>1, <3>2, <3>3, <3>4, <3>5, <3>7, <4>1 DEF WavePos, Running
      <3> QED
        BY <3>6, <3>7
    <2> QED
      BY <2>1, <2>2
  <1>4. ASSUME NEW r \in Runs, Collect(r) PROVE WavePos(q, e)'
    <2>1. CASE q # r
      <3>1. stage'[q] = stage[q] /\ wave'[q] = wave[q] /\ awaiting'[q] = awaiting[q]
        BY <1>4, <2>1 DEF Collect, TypeInv, TypeOK, ControlType, TaskType
      <3> QED
        BY <1>0, <3>1 DEF WavePos
    <2>2. CASE q = r
      <3>1. wave'[r] = wave[r] + 1 /\ awaiting[r] /\ ~awaiting'[r]
        BY <1>4 DEF Collect, TypeInv, TypeOK, ControlType
      <3>2. stage'[r][e] = IF e \in InWave(r) /\ stage[r][e] = "routed" THEN "completed"
                           ELSE IF e \in InWave(r) /\ stage[r][e] \in Running \cup Resolved
                           THEN "failed" ELSE stage[r][e]
        BY <1>4 DEF Collect, TypeInv, TypeOK, TaskType, Resolved
      <3>3. e \in InWave(r) <=> WaveOf[e] = wave[r]
        BY DEF InWave
      <3> QED
        BY <1>0, <2>2, <3>1, <3>2, <3>3 DEF WavePos, Running, Resolved, Final
    <2> QED
      BY <2>1, <2>2
  <1>5. ASSUME NEW r \in Runs, NEW d \in Decisions, Task(r, d) PROVE WavePos(q, e)'
    <2>1. UNCHANGED control /\ stage[r][d] \in Running
      BY <1>5, TaskMoves
    <2>2. PICK x \in Running \cup Resolved : stage' = [stage EXCEPT ![r][d] = x]
      BY <1>5, TaskMoves
    <2>3. stage'[q][e] = IF q = r /\ e = d THEN x ELSE stage[q][e]
      BY <2>2 DEF TypeInv, TypeOK, TaskType
    <2> QED
      BY <1>0, <2>1, <2>3 DEF WavePos, control, Running, Resolved, Final
  <1> QED
    BY <1>1, <1>2, <1>3, <1>4, <1>5 DEF Next, Executor

-----------------------------------------------------------------------------
(* What the loop over a wave and the collection of its results do to any   *)
(* one decision of any one run.                                            *)
LEMMA DispatchStage ==
    ASSUME TypeInv, WavePosition, NEW r \in Runs, Dispatch(r),
           NEW q \in Runs, NEW e \in Decisions
    PROVE  /\ stage'[q][e] = IF q = r /\ e \in InWave(r)
                             THEN IF MayStart(r, e) THEN "started" ELSE "skipped"
                             ELSE stage[q][e]
           /\ e \in InWave(r) => stage[r][e] = "pending"
  <1>1. stage'[q][e] = IF q = r /\ e \in InWave(r)
                       THEN IF MayStart(r, e) THEN "started" ELSE "skipped"
                       ELSE stage[q][e]
    BY DEF Dispatch, TypeInv, TypeOK, TaskType, InWave
  <1>2. WavePos(r, e) /\ ~awaiting[r]
    BY DEF WavePosition, Dispatch
  <1> QED
    BY <1>1, <1>2 DEF WavePos, InWave

LEMMA CollectStage ==
    ASSUME TypeInv, WavePosition, NEW r \in Runs, Collect(r),
           NEW q \in Runs, NEW e \in Decisions
    PROVE  stage'[q][e] = IF q = r /\ stage[q][e] = "routed" THEN "completed"
                          ELSE IF q = r /\ stage[q][e] \in Running \cup Resolved THEN "failed"
                          ELSE stage[q][e]
  <1>1. stage'[q][e] = IF q = r /\ e \in InWave(r) /\ stage[q][e] = "routed" THEN "completed"
                       ELSE IF q = r /\ e \in InWave(r) /\ stage[q][e] \in Running \cup Resolved
                       THEN "failed" ELSE stage[q][e]
    BY DEF Collect, TypeInv, TypeOK, TaskType, Resolved
  <1>2. WavePos(q, e) /\ WaveOf[e] \in Nat /\ wave[q] \in Nat
    BY PipelineAssumption DEF WavePosition, TypeInv, TypeOK, ControlType
  <1>3. stage[q][e] \in Running \cup Resolved => WaveOf[e] = wave[q]
    BY <1>2 DEF WavePos, Running, Resolved, Final
  <1> QED
    BY <1>1, <1>3 DEF InWave, Resolved

(* The store after a writeback: one more record, of this run. *)
LEMMA WritebackLog ==
    ASSUME TypeInv, NEW r \in Runs, NEW d \in Decisions, Writeback(r, d), NEW e \in Decisions
    PROVE  /\ e # d => log'[e] = log[e]
           /\ e = d => Records(e)' = Records(e) \cup {Len(log[e]) + 1}
           /\ \A i \in Records(e) : i \in Records(e)' /\ log'[e][i] = log[e][i]
           /\ e = d => LET record == log'[e][Len(log[e]) + 1]
                       IN  record.run = r /\ record.outcome = verdict[r][d].outcome
           /\ Len(log[e]) + 1 \notin Records(e)
  <1> DEFINE record == [run        |-> r,
                        outcome    |-> verdict[r][d].outcome,
                        confidence |-> verdict[r][d].confidence]
  <1>1. log' = [log EXCEPT ![d] = Append(@, record)]
    BY DEF Writeback
  <1>2. log \in [Decisions -> Seq(DecisionRecords)]
    BY DEF TypeInv, TypeOK, EffectType
  <1>3. record \in DecisionRecords
    BY DEF Writeback, TypeInv, HasVerdict, Judged, Summary, DecisionRecords
  <1>4. record.run = r /\ record.outcome = verdict[r][d].outcome
    OBVIOUS
  <1>5. Records(e) = 1..Len(log[e]) /\ Len(log[e]) \in Nat
    BY <1>2 DEF Records
  <1> HIDE DEF record
  <1>6. CASE e = d
    <2>1. log'[e] = Append(log[e], record)
      BY <1>1, <1>2, <1>6
    <2>2. /\ log'[e] \in Seq(DecisionRecords)
          /\ Len(log'[e]) = Len(log[e]) + 1
          /\ log'[e][Len(log[e]) + 1] = record
          /\ \A i \in 1..Len(log[e]) : log'[e][i] = log[e][i]
      BY <1>2, <1>3, <2>1
    <2>3. Records(e)' = 1..(Len(log[e]) + 1)
      BY <2>2 DEF Records
    <2> QED
      BY <1>4, <1>5, <1>6, <2>2, <2>3
  <1>7. CASE e # d
    BY <1>1, <1>2, <1>5, <1>7 DEF Records
  <1> QED
    BY <1>6, <1>7

(* The human queue after an item was added: one more, of this run. *)
LEMMA EnqueueQueue ==
    ASSUME TypeInv, NEW r \in Runs, NEW d \in Decisions, Enqueue(r, d), NEW e \in Decisions
    PROVE  /\ e # d => queue'[e] = queue[e]
           /\ e = d => Items(e)' = Items(e) \cup {Len(queue[e]) + 1}
           /\ \A i \in Items(e) : i \in Items(e)' /\ queue'[e][i] = queue[e][i]
           /\ e = d => LET item == queue'[e][Len(queue[e]) + 1]
                       IN  item.run = r /\ item.proposed = verdict[r][d].outcome
           /\ Len(queue[e]) + 1 \notin Items(e)
  <1> DEFINE item == [run |-> r, proposed |-> verdict[r][d].outcome]
  <1>1. queue' = [queue EXCEPT ![d] = Append(@, item)]
    BY DEF Enqueue
  <1>2. queue \in [Decisions -> Seq(QueueItems)]
    BY DEF TypeInv, TypeOK, EffectType
  <1>3. item \in QueueItems
    BY DEF Enqueue, Advance, TypeInv, HasVerdict, Judged, Summary, QueueItems
  <1>4. item.run = r /\ item.proposed = verdict[r][d].outcome
    OBVIOUS
  <1>5. Items(e) = 1..Len(queue[e]) /\ Len(queue[e]) \in Nat
    BY <1>2 DEF Items
  <1> HIDE DEF item
  <1>6. CASE e = d
    <2>1. queue'[e] = Append(queue[e], item)
      BY <1>1, <1>2, <1>6
    <2>2. /\ queue'[e] \in Seq(QueueItems)
          /\ Len(queue'[e]) = Len(queue[e]) + 1
          /\ queue'[e][Len(queue[e]) + 1] = item
          /\ \A i \in 1..Len(queue[e]) : queue'[e][i] = queue[e][i]
      BY <1>2, <1>3, <2>1
    <2>3. Items(e)' = 1..(Len(queue[e]) + 1)
      BY <2>2 DEF Items
    <2> QED
      BY <1>4, <1>5, <1>6, <2>2, <2>3
  <1>7. CASE e # d
    BY <1>1, <1>2, <1>5, <1>7 DEF Items
  <1> QED
    BY <1>6, <1>7

-----------------------------------------------------------------------------
(* How far a task has come bounds what it has left behind, and what it has *)
(* left behind is what its verdict and its route say.  This is the         *)
(* inductive invariant behind EvidenceBeforeEffect and NobodyIsBypassed.   *)
Untraced == {"pending", "skipped", "started", "built", "judged"}
Traced   == {"traced", "audited", "queued", "routed", "completed"}
Audited  == {"audited", "queued", "routed", "completed"}
Ended    == {"routed", "raised", "completed", "failed"}

EvidenceSteps(r, d) ==
    /\ stage[r][d] \in {"pending", "skipped", "started", "built"} => verdict[r][d] = None
    /\ stage[r][d] \in Untraced => trace[r][d] = NoTrace
    /\ stage[r][d] \in Traced =>
          /\ trace[r][d].outcome = verdict[r][d].outcome
          /\ Risk[d] \in CriticScope => trace[r][d].reviewed
    /\ stage[r][d] \in Audited /\ AuditWired => <<r, d>> \in audit

EffectSteps(r, d) ==
    /\ Recorded(r, d) => stage[r][d] \in Ended /\ RouteOf(r, d) # "shadow_record"
    /\ Asked(r, d) => stage[r][d] \in Ended \cup {"queued"} /\ RouteOf(r, d) = "queue_human"
    /\ stage[r][d] = "queued" => RouteOf(r, d) = "queue_human"
    /\ stage[r][d] \in {"queued", "routed", "completed"} /\ RouteOf(r, d) = "queue_human" =>
          Asked(r, d)
    /\ stage[r][d] \in {"routed", "completed"} /\ RouteOf(r, d) # "shadow_record" =>
          Recorded(r, d)
    /\ Recorded(r, d) /\ RouteOf(r, d) = "queue_human" => Asked(r, d)

EffectEvidence(r, d) ==
    /\ \A i \in Records(d) : log[d][i].run = r =>
          log[d][i].outcome = verdict[r][d].outcome /\ Evidenced(r, d, log[d][i].outcome)
    /\ \A i \in Items(d) : queue[d][i].run = r =>
          queue[d][i].proposed = verdict[r][d].outcome /\ Evidenced(r, d, queue[d][i].proposed)

TaskInv(r, d) == EvidenceSteps(r, d) /\ EffectSteps(r, d) /\ EffectEvidence(r, d)

EvidenceInv == \A r \in Runs, d \in Decisions : TaskInv(r, d)

LEMMA EvidenceInit == Init => EvidenceInv
  <1> SUFFICES ASSUME Init, NEW r \in Runs, NEW d \in Decisions PROVE TaskInv(r, d)
    BY DEF EvidenceInv
  <1>1. /\ stage[r][d] = "pending" /\ verdict[r][d] = None /\ trace[r][d] = NoTrace
        /\ queue[d] = <<>> /\ log[d] = <<>>
    BY DEF Init
  <1>2. Records(d) = {} /\ Items(d) = {}
    BY <1>1 DEF Records, Items
  <1> QED
    BY <1>1, <1>2 DEF TaskInv, EvidenceSteps, EffectSteps, EffectEvidence, Recorded, Asked, Items,
                      Traced, Audited, Ended

(* A pair the step does not touch keeps its part of the invariant. *)
LEMMA Untouched ==
    ASSUME NEW q \in Runs, NEW e \in Decisions, TaskInv(q, e),
           UNCHANGED <<stage[q][e], verdict[q][e], trace[q][e]>>,
           <<q, e>> \in audit => <<q, e>> \in audit',
           \A i \in Items(e) : i \in Items(e)' /\ queue'[e][i] = queue[e][i],
           \A i \in Items(e)' : queue'[e][i].run = q => i \in Items(e),
           \A i \in Records(e) : i \in Records(e)' /\ log'[e][i] = log[e][i],
           \A i \in Records(e)' : log'[e][i].run = q => i \in Records(e)
    PROVE  TaskInv(q, e)'
  <1>1. RouteOf(q, e)' = RouteOf(q, e)
    BY DEF RouteOf
  <1>2. Asked(q, e)' <=> Asked(q, e)
    BY DEF Asked, Items
  <1>3. Recorded(q, e)' <=> Recorded(q, e)
    BY DEF Recorded
  <1>4. \A outcome : Evidenced(q, e, outcome) => Evidenced(q, e, outcome)'
    BY DEF Evidenced
  <1>5. EvidenceSteps(q, e)'
    BY DEF TaskInv, EvidenceSteps
  <1>6. EffectSteps(q, e)'
    BY <1>1, <1>2, <1>3 DEF TaskInv, EffectSteps
  <1>7. EffectEvidence(q, e)'
    BY <1>4 DEF TaskInv, EffectEvidence
  <1> QED
    BY <1>5, <1>6, <1>7 DEF TaskInv

(* The executor changes no evidence and no effect, only stages. *)
LEMMA BeginEvidence ==
    ASSUME TypeInv, EvidenceInv, NEW r \in Runs, Begin(r) \/ UNCHANGED vars
    PROVE  EvidenceInv'
  <1> SUFFICES ASSUME NEW q \in Runs, NEW e \in Decisions PROVE TaskInv(q, e)'
    BY DEF EvidenceInv
  <1>1. TaskInv(q, e)
    BY DEF EvidenceInv
  <1>2. UNCHANGED <<stage, verdict, trace, audit, queue, log>>
    BY DEF Begin, vars, evidence, effects
  <1> QED
    BY <1>1, <1>2, Untouched DEF Records, Items

LEMMA DispatchEvidence ==
    ASSUME TypeInv, WavePosition, EvidenceInv, NEW r \in Runs, Dispatch(r)
    PROVE  EvidenceInv'
  <1> SUFFICES ASSUME NEW q \in Runs, NEW e \in Decisions PROVE TaskInv(q, e)'
    BY DEF EvidenceInv
  <1>1. TaskInv(q, e)
    BY DEF EvidenceInv
  <1>2. UNCHANGED <<verdict, trace, audit, queue, log>>
    BY DEF Dispatch, evidence, effects
  <1>3. CASE stage'[q][e] = stage[q][e]
    BY <1>1, <1>2, <1>3, Untouched DEF Records, Items
  <1>4. CASE stage'[q][e] # stage[q][e]
    <2>1. stage[q][e] = "pending" /\ stage'[q][e] \in {"started", "skipped"}
      BY <1>4, DispatchStage
    <2>2. Recorded(q, e)' = Recorded(q, e) /\ Asked(q, e)' = Asked(q, e)
      BY <1>2 DEF Recorded, Asked, Items, Records
    <2>3. ~Recorded(q, e) /\ ~Asked(q, e)
      BY <1>1, <2>1 DEF TaskInv, EffectSteps, Ended
    <2>4. EvidenceSteps(q, e)'
      BY <1>1, <1>2, <2>1 DEF TaskInv, EvidenceSteps, Untraced, Traced, Audited
    <2>5. EffectSteps(q, e)'
      BY <2>1, <2>2, <2>3 DEF EffectSteps
    <2>6. EffectEvidence(q, e)'
      BY <2>2, <2>3 DEF EffectEvidence, Recorded, Asked, Items
    <2> QED
      BY <2>4, <2>5, <2>6 DEF TaskInv
  <1> QED
    BY <1>3, <1>4

LEMMA CollectEvidence ==
    ASSUME TypeInv, WavePosition, EvidenceInv, NEW r \in Runs, Collect(r)
    PROVE  EvidenceInv'
  <1> SUFFICES ASSUME NEW q \in Runs, NEW e \in Decisions PROVE TaskInv(q, e)'
    BY DEF EvidenceInv
  <1>1. TaskInv(q, e)
    BY DEF EvidenceInv
  <1>2. UNCHANGED <<verdict, trace, audit, queue, log>>
    BY DEF Collect, evidence, effects
  <1>3. CASE stage'[q][e] = stage[q][e]
    BY <1>1, <1>2, <1>3, Untouched DEF Records, Items
  <1>4. CASE stage'[q][e] # stage[q][e]
    <2>1. \/ stage[q][e] = "routed" /\ stage'[q][e] = "completed"
          \/ stage[q][e] = "raised" /\ stage'[q][e] = "failed"
      <3>1. e \in InWave(r) /\ stage[q][e] \in Running \cup Resolved /\ q = r
        BY <1>4 DEF Collect, TypeInv, TypeOK, TaskType, InWave, Resolved
      <3>2. stage[q][e] \in Resolved
        BY <3>1 DEF Collect
      <3> QED
        BY <3>1, <3>2, CollectStage DEF Resolved
    <2>2. /\ Recorded(q, e)' = Recorded(q, e) /\ Asked(q, e)' = Asked(q, e)
          /\ RouteOf(q, e)' = RouteOf(q, e)
      BY <1>2 DEF Recorded, Asked, Items, Records, RouteOf
    <2>3. EvidenceSteps(q, e)'
      BY <1>1, <1>2, <2>1 DEF TaskInv, EvidenceSteps, Untraced, Traced, Audited
    <2>4. EffectSteps(q, e)'
      BY <1>1, <2>1, <2>2 DEF TaskInv, EffectSteps, Ended
    <2>5. EffectEvidence(q, e)'
      BY <1>1, <1>2 DEF TaskInv, EffectEvidence, Evidenced, Records, Items
    <2> QED
      BY <2>3, <2>4, <2>5 DEF TaskInv
  <1> QED
    BY <1>3, <1>4

(* A step of a task touches its own decision only. *)
LEMMA OthersEvidence ==
    ASSUME TypeInv, EvidenceInv, NEW r \in Runs, NEW d \in Decisions, Task(r, d),
           NEW q \in Runs, NEW e \in Decisions, q # r \/ e # d
    PROVE  TaskInv(q, e)'
  <1>1. TaskInv(q, e)
    BY DEF EvidenceInv
  <1>2. stage'[q][e] = stage[q][e]
    BY TaskMoves DEF TypeInv, TypeOK, TaskType
  <1>3. CASE Writeback(r, d)
    <2>1. UNCHANGED <<verdict, trace, audit, queue>>
      BY <1>3 DEF Writeback, evidence
    <2>2. \A i \in Records(e) : i \in Records(e)' /\ log'[e][i] = log[e][i]
      BY <1>3, WritebackLog
    <2>3. \A i \in Records(e)' : log'[e][i].run = q => i \in Records(e)
      <3>1. CASE e # d
        BY <1>3, <3>1, WritebackLog DEF Records
      <3>2. CASE e = d
        BY <1>3, <3>2, WritebackLog
      <3> QED
        BY <3>1, <3>2
    <2> QED
      BY <1>1, <1>2, <2>1, <2>2, <2>3, Untouched DEF Items
  <1>4. CASE Enqueue(r, d)
    <2>1. UNCHANGED <<verdict, trace, audit, log>>
      BY <1>4 DEF Enqueue, evidence
    <2>2. \A i \in Items(e) : i \in Items(e)' /\ queue'[e][i] = queue[e][i]
      BY <1>4, EnqueueQueue
    <2>3. \A i \in Items(e)' : queue'[e][i].run = q => i \in Items(e)
      <3>1. CASE e # d
        BY <1>4, <3>1, EnqueueQueue DEF Items
      <3>2. CASE e = d
        BY <1>4, <3>2, EnqueueQueue
      <3> QED
        BY <3>1, <3>2
    <2> QED
      BY <1>1, <1>2, <2>1, <2>2, <2>3, Untouched DEF Records
  <1>5. CASE ~Writeback(r, d) /\ ~Enqueue(r, d)
    <2>1. log' = log /\ queue' = queue
      BY <1>5 DEF Task, Build, Judge, WriteTrace, AuditGate, Observe, Raise, effects
    <2>2. verdict'[q][e] = verdict[q][e]
      BY <1>5 DEF Task, Build, Judge, WriteTrace, AuditGate, Observe, Raise,
                  TypeInv, TypeOK, TaskType
    <2>3. trace'[q][e] = trace[q][e]
      BY <1>5 DEF Task, Build, Judge, WriteTrace, AuditGate, Observe, Raise,
                  evidence, TypeInv, TypeOK, EvidenceType
    <2>4. <<q, e>> \in audit => <<q, e>> \in audit'
      BY <1>5 DEF Task, Build, Judge, WriteTrace, AuditGate, Observe, Raise, evidence
    <2> QED
      BY <1>1, <1>2, <2>1, <2>2, <2>3, <2>4, Untouched DEF Records, Items
  <1> QED
    BY <1>3, <1>4, <1>5

LEMMA StatedIsEvidenced ==
    ASSUME NEW r, NEW d, TaskInv(r, d), stage[r][d] \in Audited
    PROVE  Evidenced(r, d, verdict[r][d].outcome)
  BY DEF TaskInv, EvidenceSteps, Evidenced, Traced, Audited

LEMMA OwnEvidence ==
    ASSUME TypeInv, EvidenceInv, NEW r \in Runs, NEW d \in Decisions, Task(r, d)
    PROVE  TaskInv(r, d)'
  <1>0. TaskInv(r, d)
    BY DEF EvidenceInv
  <1>1. CASE Build(r, d)
    <2>1. stage[r][d] = "started" /\ stage'[r][d] = "built"
      BY <1>1 DEF Build, Advance, TypeInv, TypeOK, TaskType
    <2>2. UNCHANGED <<verdict, trace, audit, queue, log>>
      BY <1>1 DEF Build, evidence, effects
    <2>3. ~Recorded(r, d)' /\ ~Asked(r, d)'
      BY <1>0, <2>1, <2>2 DEF TaskInv, EffectSteps, Ended, Recorded, Asked, Items, Records
    <2> QED
      BY <1>0, <2>1, <2>2, <2>3 DEF TaskInv, EvidenceSteps, EffectSteps, EffectEvidence,
         Recorded, Asked, Items, Untraced, Traced, Audited
  <1>2. CASE Judge(r, d)
    <2>1. stage[r][d] = "built" /\ stage'[r][d] = "judged"
      BY <1>2 DEF Judge, Advance, TypeInv, TypeOK, TaskType
    <2>2. UNCHANGED <<trace, audit, queue, log>>
      BY <1>2 DEF Judge, evidence, effects
    <2>3. ~Recorded(r, d)' /\ ~Asked(r, d)'
      BY <1>0, <2>1, <2>2 DEF TaskInv, EffectSteps, Ended, Recorded, Asked, Items, Records
    <2> QED
      BY <1>0, <2>1, <2>2, <2>3 DEF TaskInv, EvidenceSteps, EffectSteps, EffectEvidence,
         Recorded, Asked, Items, Untraced, Traced, Audited
  <1>3. CASE WriteTrace(r, d)
    <2>1. stage[r][d] = "judged" /\ stage'[r][d] = "traced"
      BY <1>3 DEF WriteTrace, Advance, TypeInv, TypeOK, TaskType
    <2>2. UNCHANGED <<verdict, audit, queue, log>>
      BY <1>3 DEF WriteTrace, effects
    <2>3. ~Recorded(r, d)' /\ ~Asked(r, d)'
      BY <1>0, <2>1, <2>2 DEF TaskInv, EffectSteps, Ended, Recorded, Asked, Items, Records
    <2>4. /\ trace'[r][d].outcome = verdict'[r][d].outcome
          /\ Risk[d] \in CriticScope => trace'[r][d].reviewed
      BY <1>3, <2>2 DEF WriteTrace, TypeInv, TypeOK, EvidenceType
    <2> QED
      BY <2>1, <2>3, <2>4 DEF TaskInv, EvidenceSteps, EffectSteps, EffectEvidence,
         Recorded, Asked, Items, Untraced, Traced, Audited
  <1>4. CASE AuditGate(r, d)
    <2>1. stage[r][d] = "traced" /\ stage'[r][d] = "audited"
      BY <1>4 DEF AuditGate, Advance, TypeInv, TypeOK, TaskType
    <2>2. UNCHANGED <<verdict, trace, queue, log>>
      BY <1>4 DEF AuditGate, effects
    <2>3. ~Recorded(r, d)' /\ ~Asked(r, d)'
      BY <1>0, <2>1, <2>2 DEF TaskInv, EffectSteps, Ended, Recorded, Asked, Items, Records
    <2>4. AuditWired => <<r, d>> \in audit'
      BY <1>4 DEF AuditGate
    <2> QED
      BY <1>0, <2>1, <2>2, <2>3, <2>4 DEF TaskInv, EvidenceSteps, EffectSteps, EffectEvidence,
         Recorded, Asked, Items, Untraced, Traced, Audited
  <1>5. CASE Observe(r, d)
    <2>1. stage[r][d] = "audited" /\ stage'[r][d] = "routed" /\ RouteOf(r, d) = "shadow_record"
      BY <1>5 DEF Observe, Advance, TypeInv, TypeOK, TaskType
    <2>2. UNCHANGED <<verdict, trace, audit, queue, log>>
      BY <1>5 DEF Observe, evidence, effects
    <2>3. RouteOf(r, d)' = "shadow_record" /\ ~Recorded(r, d)' /\ ~Asked(r, d)'
      BY <1>0, <2>1, <2>2 DEF TaskInv, EffectSteps, Ended, Recorded, Asked, Items, Records, RouteOf
    <2> QED
      BY <1>0, <2>1, <2>2, <2>3 DEF TaskInv, EvidenceSteps, EffectSteps, EffectEvidence,
         Recorded, Asked, Items, Untraced, Traced, Audited
  <1>6. CASE Enqueue(r, d)
    <2>1. stage[r][d] = "audited" /\ stage'[r][d] = "queued" /\ RouteOf(r, d) = "queue_human"
      BY <1>6 DEF Enqueue, Advance, TypeInv, TypeOK, TaskType
    <2>2. UNCHANGED <<verdict, trace, audit, log>>
      BY <1>6 DEF Enqueue, evidence
    <2>3. /\ Items(d)' = Items(d) \cup {Len(queue[d]) + 1}
          /\ queue'[d][Len(queue[d]) + 1].run = r
          /\ queue'[d][Len(queue[d]) + 1].proposed = verdict[r][d].outcome
      BY <1>6, EnqueueQueue
    <2>4. RouteOf(r, d)' = "queue_human" /\ ~Recorded(r, d)' /\ Asked(r, d)'
      <3>1. RouteOf(r, d)' = "queue_human"
        BY <2>1, <2>2 DEF RouteOf
      <3>2. ~Recorded(r, d)'
        BY <1>0, <2>1, <2>2 DEF TaskInv, EffectSteps, Ended, Recorded, Records
      <3> QED
        BY <2>3, <3>1, <3>2 DEF Asked
    <2>5. EvidenceSteps(r, d)'
      BY <1>0, <2>1, <2>2 DEF TaskInv, EvidenceSteps, Untraced, Traced, Audited
    <2>6. EffectSteps(r, d)'
      BY <2>1, <2>4 DEF EffectSteps
    <2>7. Evidenced(r, d, verdict[r][d].outcome)
      BY <1>0, <2>1, StatedIsEvidenced DEF Audited
    <2>8. \A i \in Items(d) : queue[d][i].run # r
      BY <1>0, <2>1 DEF TaskInv, EffectSteps, Ended, Asked
    <2>9. \A i \in Items(d) : queue'[d][i] = queue[d][i]
      BY <1>6, EnqueueQueue
    <2>10. EffectEvidence(r, d)'
      BY <2>2, <2>3, <2>4, <2>7, <2>8, <2>9 DEF EffectEvidence, Evidenced, Recorded
    <2> QED
      BY <2>5, <2>6, <2>10 DEF TaskInv
  <1>7. CASE Writeback(r, d)
    <2>1. /\ stage[r][d] = "queued" \/ (stage[r][d] = "audited"
                                          /\ RouteOf(r, d) \in {"block", "auto_writeback"})
          /\ stage'[r][d] \in {"routed", "raised"}
      BY <1>7 DEF Writeback, Resolved, TypeInv, TypeOK, TaskType
    <2>2. UNCHANGED <<verdict, trace, audit, queue>>
      BY <1>7 DEF Writeback, evidence
    <2>3. /\ Records(d)' = Records(d) \cup {Len(log[d]) + 1}
          /\ log'[d][Len(log[d]) + 1].run = r
          /\ log'[d][Len(log[d]) + 1].outcome = verdict[r][d].outcome
          /\ \A i \in Records(d) : log'[d][i] = log[d][i]
      BY <1>7, WritebackLog
    <2>4. ~Recorded(r, d) /\ Recorded(r, d)'
      BY <1>0, <2>1, <2>3 DEF TaskInv, EffectSteps, Ended, Recorded
    <2>5. RouteOf(r, d)' = RouteOf(r, d) /\ (Asked(r, d)' <=> Asked(r, d))
      BY <2>2 DEF RouteOf, Asked, Items
    <2>6. /\ RouteOf(r, d) # "shadow_record"
          /\ Asked(r, d) <=> RouteOf(r, d) = "queue_human"
      BY <1>0, <2>1 DEF TaskInv, EffectSteps, Ended
    <2>7. EvidenceSteps(r, d)'
      BY <1>0, <2>1, <2>2 DEF TaskInv, EvidenceSteps, Untraced, Traced, Audited
    <2>8. EffectSteps(r, d)'
      BY <2>1, <2>4, <2>5, <2>6 DEF EffectSteps, Ended
    <2>9. Evidenced(r, d, verdict[r][d].outcome)
      BY <1>0, <2>1, StatedIsEvidenced DEF Audited
    <2>10. EffectEvidence(r, d)'
      BY <1>0, <2>2, <2>3, <2>4, <2>9 DEF TaskInv, EffectEvidence, Evidenced, Recorded, Items
    <2> QED
      BY <2>7, <2>8, <2>10 DEF TaskInv
  <1>8. CASE Raise(r, d)
    <2>1. stage[r][d] \in Running /\ stage'[r][d] = "raised"
      BY <1>8 DEF Raise, TypeInv, TypeOK, TaskType
    <2>2. UNCHANGED <<verdict, trace, audit, queue, log>>
      BY <1>8 DEF Raise, evidence, effects
    <2>3. /\ RouteOf(r, d)' = RouteOf(r, d)
          /\ Recorded(r, d)' = Recorded(r, d) /\ Asked(r, d)' = Asked(r, d)
      BY <2>2 DEF RouteOf, Recorded, Asked, Items, Records
    <2>4. EvidenceSteps(r, d)'
      BY <2>1 DEF EvidenceSteps, Untraced, Traced, Audited
    <2>5. EffectSteps(r, d)'
      BY <1>0, <2>1, <2>3 DEF TaskInv, EffectSteps, Ended
    <2>6. EffectEvidence(r, d)'
      BY <1>0, <2>2 DEF TaskInv, EffectEvidence, Evidenced, Records, Items
    <2> QED
      BY <2>4, <2>5, <2>6 DEF TaskInv
  <1> QED
    BY <1>1, <1>2, <1>3, <1>4, <1>5, <1>6, <1>7, <1>8 DEF Task

LEMMA EvidenceNext == TypeInv /\ WavePosition /\ EvidenceInv /\ [Next]_vars => EvidenceInv'
  <1> SUFFICES ASSUME TypeInv, WavePosition, EvidenceInv, [Next]_vars PROVE EvidenceInv'
    OBVIOUS
  <1>1. CASE UNCHANGED vars
    <2> SUFFICES ASSUME NEW q \in Runs, NEW e \in Decisions PROVE TaskInv(q, e)'
      BY DEF EvidenceInv
    <2> QED
      BY <1>1, BeginEvidence DEF EvidenceInv
  <1>2. ASSUME NEW r \in Runs, Begin(r) PROVE EvidenceInv'
    BY <1>2, BeginEvidence
  <1>3. ASSUME NEW r \in Runs, Dispatch(r) PROVE EvidenceInv'
    BY <1>3, DispatchEvidence
  <1>4. ASSUME NEW r \in Runs, Collect(r) PROVE EvidenceInv'
    BY <1>4, CollectEvidence
  <1>5. ASSUME NEW r \in Runs, NEW d \in Decisions, Task(r, d) PROVE EvidenceInv'
    BY <1>5, OwnEvidence, OthersEvidence DEF EvidenceInv
  <1> QED
    BY <1>1, <1>2, <1>3, <1>4, <1>5 DEF Next, Executor

LEMMA EvidenceInvariant == Spec => [](TypeInv /\ WavePosition /\ EvidenceInv)
  <1>1. Init => TypeInv /\ WavePosition /\ EvidenceInv
    BY TypeInit, WaveInit, EvidenceInit
  <1>2. TypeInv /\ WavePosition /\ EvidenceInv /\ [Next]_vars
          => (TypeInv /\ WavePosition /\ EvidenceInv)'
    BY TypeNext, WaveNext, EvidenceNext
  <1> QED
    BY <1>1, <1>2, PTL DEF Spec

(* Whatever reached the human queue or the decision store has a trace that *)
(* states the same outcome, the critic's review where its risk is in scope *)
(* and, where the gate is wired, an audit record: in every state, so also  *)
(* in the one a crash or a failing step leaves behind.                     *)
THEOREM NoEffectWithoutEvidence == Spec => []EvidenceBeforeEffect
  <1>1. TypeInv /\ EvidenceInv => EvidenceBeforeEffect
    <2> SUFFICES ASSUME TypeInv, EvidenceInv PROVE EvidenceBeforeEffect
      OBVIOUS
    <2>1. ASSUME NEW d \in Decisions, NEW i \in Records(d)
          PROVE  Evidenced(log[d][i].run, d, log[d][i].outcome)
      <3>1. log[d][i].run \in Runs
        <4>1. log[d] \in Seq(DecisionRecords)
          BY DEF TypeInv, TypeOK, EffectType
        <4>2. log[d][i] \in DecisionRecords
          BY <4>1 DEF Records
        <4> QED
          BY <4>2 DEF DecisionRecords
      <3> QED
        BY <3>1 DEF EvidenceInv, TaskInv, EffectEvidence
    <2>2. ASSUME NEW d \in Decisions, NEW i \in Items(d)
          PROVE  Evidenced(queue[d][i].run, d, queue[d][i].proposed)
      <3>1. queue[d][i].run \in Runs
        <4>1. queue[d] \in Seq(QueueItems)
          BY DEF TypeInv, TypeOK, EffectType
        <4>2. queue[d][i] \in QueueItems
          BY <4>1 DEF Items
        <4> QED
          BY <4>2 DEF QueueItems
      <3> QED
        BY <3>1 DEF EvidenceInv, TaskInv, EffectEvidence
    <2> QED
      BY <2>1, <2>2 DEF EvidenceBeforeEffect
  <1> QED
    BY <1>1, EvidenceInvariant, PTL

(* No proposal is stored over the head of the human it waits for and no    *)
(* human is asked about anything else, for every mode and outcome, however *)
(* runs interleave and whatever fails.                                     *)
THEOREM RoutesTakeEffect == Spec => []NobodyIsBypassed
  <1>1. EvidenceInv => NobodyIsBypassed
    <2> SUFFICES ASSUME EvidenceInv, NEW r \in Runs, NEW d \in Decisions
                 PROVE  /\ Asked(r, d) => RouteOf(r, d) = "queue_human"
                        /\ Recorded(r, d) => \/ RouteOf(r, d) \in {"block", "auto_writeback"}
                                             \/ RouteOf(r, d) = "queue_human" /\ Asked(r, d)
                        /\ stage[r][d] = "completed" =>
                              /\ RouteOf(r, d) = "queue_human" => Asked(r, d)
                              /\ RouteOf(r, d) \in {"block", "auto_writeback"}
                                    => Recorded(r, d)
      BY DEF NobodyIsBypassed
    <2>1. EffectSteps(r, d)
      BY DEF EvidenceInv, TaskInv
    <2>2. RouteOf(r, d) \in {"block", "shadow_record", "queue_human", "auto_writeback"}
      BY DEF RouteOf, Action
    <2> QED
      BY <2>1, <2>2 DEF EffectSteps
  <1> QED
    BY <1>1, EvidenceInvariant, PTL

(* A run writes a decision's record at most once and queues it at most     *)
(* once: both are done from a stage in which TaskInv says it was not yet.  *)
LEMMA OneEffectNext ==
    ASSUME TypeInv, EvidenceInv, OneEffectPerRun, [Next]_vars
    PROVE  OneEffectPerRun'
  <1>1. CASE UNCHANGED <<queue, log>>
    BY <1>1 DEF OneEffectPerRun, Records, Items
  <1>2. ASSUME NEW r \in Runs, NEW d \in Decisions, Enqueue(r, d) PROVE OneEffectPerRun'
    <2>1. log' = log
      BY <1>2 DEF Enqueue
    <2>2. ~Asked(r, d)
      BY <1>2 DEF Enqueue, Advance, EvidenceInv, TaskInv, EffectSteps, Ended
    <2>3. ASSUME NEW e \in Decisions, NEW i \in Items(e)', NEW j \in Items(e)',
                 queue'[e][i].run = queue'[e][j].run
          PROVE  i = j
      <3>1. CASE e # d
        BY <1>2, <2>3, <3>1, EnqueueQueue DEF OneEffectPerRun, Items
      <3>2. CASE e = d
        <4>1. /\ i \in Items(e) \cup {Len(queue[e]) + 1} /\ j \in Items(e) \cup {Len(queue[e]) + 1}
              /\ \A k \in Items(e) : queue'[e][k] = queue[e][k]
              /\ queue'[e][Len(queue[e]) + 1].run = r
          BY <1>2, <3>2, EnqueueQueue
        <4>2. \A k \in Items(e) : queue[e][k].run # r
          BY <2>2, <3>2 DEF Asked
        <4> QED
          BY <2>3, <4>1, <4>2 DEF OneEffectPerRun
      <3> QED
        BY <3>1, <3>2
    <2> QED
      BY <2>1, <2>3 DEF OneEffectPerRun, Records
  <1>3. ASSUME NEW r \in Runs, NEW d \in Decisions, Writeback(r, d) PROVE OneEffectPerRun'
    <2>1. queue' = queue
      BY <1>3 DEF Writeback
    <2>2. ~Recorded(r, d)
      BY <1>3 DEF Writeback, EvidenceInv, TaskInv, EffectSteps, Ended
    <2>3. ASSUME NEW e \in Decisions, NEW i \in Records(e)', NEW j \in Records(e)',
                 log'[e][i].run = log'[e][j].run
          PROVE  i = j
      <3>1. CASE e # d
        BY <1>3, <2>3, <3>1, WritebackLog DEF OneEffectPerRun, Records
      <3>2. CASE e = d
        <4>1. /\ i \in Records(e) \cup {Len(log[e]) + 1} /\ j \in Records(e) \cup {Len(log[e]) + 1}
              /\ \A k \in Records(e) : log'[e][k] = log[e][k]
              /\ log'[e][Len(log[e]) + 1].run = r
          BY <1>3, <3>2, WritebackLog
        <4>2. \A k \in Records(e) : log[e][k].run # r
          BY <2>2, <3>2 DEF Recorded
        <4> QED
          BY <2>3, <4>1, <4>2 DEF OneEffectPerRun
      <3> QED
        BY <3>1, <3>2
    <2> QED
      BY <2>1, <2>3 DEF OneEffectPerRun, Items
  <1>4. \/ UNCHANGED <<queue, log>>
        \/ \E r \in Runs, d \in Decisions : Enqueue(r, d) \/ Writeback(r, d)
    BY DEF Next, Executor, Begin, Dispatch, Collect, Task, Build, Judge, WriteTrace, AuditGate,
           Observe, Raise, effects, vars
  <1> QED
    BY <1>1, <1>2, <1>3, <1>4

(* One record and one queue item per run and decision, whatever fails.     *)
THEOREM EffectsHappenOnce == Spec => []OneEffectPerRun
  <1>1. Init => OneEffectPerRun
    <2> SUFFICES ASSUME Init, NEW d \in Decisions PROVE Records(d) = {} /\ Items(d) = {}
      BY DEF OneEffectPerRun
    <2>1. log[d] = <<>> /\ queue[d] = <<>>
      BY DEF Init
    <2> QED
      BY <2>1 DEF Records, Items
  <1>2. TypeInv /\ EvidenceInv /\ OneEffectPerRun /\ [Next]_vars => OneEffectPerRun'
    BY OneEffectNext
  <1> QED
    BY <1>1, <1>2, EvidenceInvariant, PTL DEF Spec

(* A pair is announced when its task is collected as routed, at which      *)
(* EffectSteps has its record, and the history only grows.                 *)
LEMMA AnnouncedNext ==
    ASSUME TypeInv, WavePosition, EvidenceInv, AnnouncedIsStored, [Next]_vars
    PROVE  AnnouncedIsStored'
  <1>1. CASE UNCHANGED <<announced, log>>
    BY <1>1 DEF AnnouncedIsStored, Recorded, Records
  <1>2. ASSUME NEW r \in Runs, Collect(r) PROVE AnnouncedIsStored'
    <2>1. log' = log
      BY <1>2 DEF Collect, effects
    <2>2. ASSUME NEW a \in announced', a \notin announced
          PROVE  Recorded(a[1], a[2])
      <3>1. PICK d \in Decisions : /\ a = <<r, d>>
                                   /\ stage[r][d] = "routed"
                                   /\ RouteOf(r, d) \in {"auto_writeback", "block"}
        BY <1>2, <2>2 DEF Collect, InWave
      <3>2. Recorded(r, d)
        BY <3>1 DEF EvidenceInv, TaskInv, EffectSteps
      <3> QED
        BY <3>1, <3>2
    <2> QED
      BY <2>1, <2>2 DEF AnnouncedIsStored, Recorded, Records
  <1>3. ASSUME NEW r \in Runs, NEW d \in Decisions, Writeback(r, d) PROVE AnnouncedIsStored'
    <2>1. announced' = announced
      BY <1>3 DEF Writeback
    <2>2. ASSUME NEW a \in announced PROVE Recorded(a[1], a[2])'
      <3>1. PICK i \in Records(a[2]) : log[a[2]][i].run = a[1]
        BY DEF AnnouncedIsStored, Recorded
      <3>2. a[2] \in Decisions
        BY DEF TypeInv, TypeOK, ControlType
      <3>3. i \in Records(a[2])' /\ log'[a[2]][i] = log[a[2]][i]
        BY <1>3, <3>2, WritebackLog
      <3> QED
        BY <3>1, <3>3 DEF Recorded
    <2> QED
      BY <2>1, <2>2 DEF AnnouncedIsStored
  <1>4. \/ UNCHANGED <<announced, log>>
        \/ \E r \in Runs : Collect(r)
        \/ \E r \in Runs, d \in Decisions : Writeback(r, d)
    BY DEF Next, Executor, Begin, Dispatch, Task, Build, Judge, WriteTrace, AuditGate,
           Observe, Enqueue, Raise, effects, vars
  <1> QED
    BY <1>1, <1>2, <1>3, <1>4

(* No subscriber hears of an update it cannot find in the store, whatever  *)
(* fails and whatever runs overlap.                                        *)
THEOREM UpdatesAreTrue == Spec => []AnnouncedIsStored
  <1>1. Init => AnnouncedIsStored
    BY DEF Init, AnnouncedIsStored
  <1>2. TypeInv /\ WavePosition /\ EvidenceInv /\ AnnouncedIsStored /\ [Next]_vars
          => AnnouncedIsStored'
    BY AnnouncedNext
  <1> QED
    BY <1>1, <1>2, EvidenceInvariant, PTL DEF Spec

-----------------------------------------------------------------------------
(* What the run as a whole guarantees: the graph's order and hard rules,   *)
(* and that DecisionPipeline implements DecisionFlow.                      *)
Started == (Running \cup Resolved) \cup {"completed", "failed"}

(* A decision that started has an agent and completed upstreams, whose     *)
(* verdicts bound its own; once fraud_screening blocked nothing runs.      *)
OnCompleted(r, d) == stage[r][d] \in Started => d \in Registered /\ Missing(r, d) = {}

Bounded(r, d) ==
    verdict[r][d] # None =>
        verdict[r][d].outcome \in PossibleOutcomes(Threshold[d], Upstream(r, d))

FraudFlag(r) ==
    fraudBlocked[r] <=> stage[r][Fraud] = "completed" /\ verdict[r][Fraud].outcome = "block"

Stopped(r, d) ==
    fraudBlocked[r] =>
        /\ stage[r][d] \notin Running \cup Resolved
        /\ WaveOf[d] > WaveOf[Fraud] => stage[r][d] \in {"pending", "skipped"}

FlowInv ==
    \A r \in Runs :
        /\ FraudFlag(r)
        /\ \A d \in Decisions : OnCompleted(r, d) /\ Bounded(r, d) /\ Stopped(r, d)

PipelineInv == TypeInv /\ WavePosition /\ EvidenceInv

-----------------------------------------------------------------------------
(* A completed decision is completed for good, with its verdict, and a     *)
(* verdict is reached from "built" only.                                   *)
LEMMA VerdictSettles ==
    ASSUME TypeInv, WavePosition, [Next]_vars, NEW q \in Runs, NEW e \in Decisions
    PROVE  /\ stage[q][e] # "built" => verdict'[q][e] = verdict[q][e]
           /\ stage[q][e] = "completed" => stage'[q][e] = "completed"
  <1>1. CASE UNCHANGED vars
    BY <1>1 DEF vars
  <1>2. ASSUME NEW r \in Runs, Begin(r)
        PROVE  verdict' = verdict /\ stage' = stage
    BY <1>2 DEF Begin
  <1>3. ASSUME NEW r \in Runs, Dispatch(r)
        PROVE  verdict' = verdict /\ (stage[q][e] = "completed" => stage'[q][e] = "completed")
    BY <1>3, DispatchStage DEF Dispatch
  <1>4. ASSUME NEW r \in Runs, Collect(r)
        PROVE  verdict' = verdict /\ (stage[q][e] = "completed" => stage'[q][e] = "completed")
    BY <1>4, CollectStage DEF Collect, Running, Resolved
  <1>5. ASSUME NEW r \in Runs, NEW d \in Decisions, Task(r, d)
        PROVE  /\ stage[q][e] # "built" => verdict'[q][e] = verdict[q][e]
               /\ stage[q][e] = "completed" => stage'[q][e] = "completed"
    <2>1. stage[q][e] # "built" => verdict'[q][e] = verdict[q][e]
      <3>1. CASE Judge(r, d)
        <4>1. stage[r][d] = "built"
          BY <3>1 DEF Judge, Advance
        <4>2. PICK v : verdict' = [verdict EXCEPT ![r][d] = v]
          BY <3>1 DEF Judge
        <4> QED
          BY <4>1, <4>2 DEF TypeInv, TypeOK, TaskType
      <3>2. CASE ~Judge(r, d)
        BY <1>5, <3>2 DEF Task, Build, WriteTrace, AuditGate, Observe, Enqueue, Writeback, Raise
      <3> QED
        BY <3>1, <3>2
    <2>2. stage[q][e] = "completed" => stage'[q][e] = "completed"
      <3>1. stage[r][d] \in Running
        BY <1>5, TaskMoves
      <3>2. PICK x : stage' = [stage EXCEPT ![r][d] = x]
        BY <1>5, TaskMoves
      <3> QED
        BY <3>1, <3>2 DEF TypeInv, TypeOK, TaskType, Running
    <2> QED
      BY <2>1, <2>2
  <1> QED
    BY <1>1, <1>2, <1>3, <1>4, <1>5 DEF Next, Executor

(* How stages move, whatever the step: started from pending by Dispatch,   *)
(* or along the life of a task.                                            *)
LEMMA StageMoves ==
    ASSUME TypeInv, WavePosition, [Next]_vars, NEW q \in Runs, NEW e \in Decisions
    PROVE  \/ stage'[q][e] = stage[q][e]
           \/ stage[q][e] = "pending" /\ stage'[q][e] = "skipped"
           \/ /\ stage[q][e] = "pending" /\ stage'[q][e] = "started"
              /\ MayStart(q, e) /\ fraudBlocked' = fraudBlocked
           \/ stage[q][e] \in Running /\ stage'[q][e] \in Running \cup Resolved
           \/ /\ stage[q][e] \in Running \cup Resolved
              /\ stage'[q][e] \in {"completed", "failed"}
              /\ WaveOf[e] = wave[q] /\ wave'[q] = wave[q] + 1
  <1>1. CASE UNCHANGED vars
    BY <1>1 DEF vars
  <1>2. ASSUME NEW r \in Runs, Begin(r)
        PROVE  stage'[q][e] = stage[q][e]
    BY <1>2 DEF Begin
  <1>3. ASSUME NEW r \in Runs, Dispatch(r)
        PROVE  \/ stage'[q][e] = stage[q][e]
               \/ stage[q][e] = "pending" /\ stage'[q][e] = "skipped"
               \/ /\ stage[q][e] = "pending" /\ stage'[q][e] = "started"
                  /\ MayStart(q, e) /\ fraudBlocked' = fraudBlocked
    BY <1>3, DispatchStage DEF Dispatch
  <1>4. ASSUME NEW r \in Runs, Collect(r)
        PROVE  \/ stage'[q][e] = stage[q][e]
               \/ /\ stage[q][e] \in Running \cup Resolved
                  /\ stage'[q][e] \in {"completed", "failed"}
                  /\ WaveOf[e] = wave[q] /\ wave'[q] = wave[q] + 1
    <2>1. CASE q # r \/ stage[q][e] \notin Running \cup Resolved
      BY <1>4, <2>1, CollectStage DEF Resolved
    <2>2. CASE q = r /\ stage[q][e] \in Running \cup Resolved
      <3>1. stage'[q][e] \in {"completed", "failed"}
        BY <1>4, <2>2, CollectStage
      <3>2. wave'[q] = wave[q] + 1
        BY <1>4, <2>2 DEF Collect, TypeInv, TypeOK, ControlType
      <3>3. WavePos(q, e) /\ WaveOf[e] \in Nat /\ wave[q] \in Nat
        BY PipelineAssumption DEF WavePosition, TypeInv, TypeOK, ControlType
      <3>4. WaveOf[e] = wave[q]
        BY <2>2, <3>3 DEF WavePos, Running, Resolved, Final
      <3> QED
        BY <2>2, <3>1, <3>2, <3>4
    <2> QED
      BY <2>1, <2>2
  <1>5. ASSUME NEW r \in Runs, NEW d \in Decisions, Task(r, d)
        PROVE  \/ stage'[q][e] = stage[q][e]
               \/ stage[q][e] \in Running /\ stage'[q][e] \in Running \cup Resolved
    BY <1>5, TaskMoves DEF TypeInv, TypeOK, TaskType
  <1> QED
    BY <1>1, <1>2, <1>3, <1>4, <1>5 DEF Next, Executor

LEMMA FlowInit == Init => FlowInv
  BY PipelineAssumption, EvaluatorAssumption
  DEF Init, FlowInv, FraudFlag, OnCompleted, Bounded, Stopped, Started, Running, Resolved, None

LEMMA OnCompletedNext ==
    ASSUME TypeInv, WavePosition, FlowInv, [Next]_vars, NEW q \in Runs, NEW e \in Decisions
    PROVE  OnCompleted(q, e)'
  <1>1. OnCompleted(q, e)
    BY DEF FlowInv
  <1>2. stage'[q][e] \in Started => stage[q][e] \in Started \/ MayStart(q, e)
    BY StageMoves DEF Started, Running, Resolved
  <1>3. stage'[q][e] \in Started => e \in Registered /\ Missing(q, e) = {}
    BY <1>1, <1>2 DEF OnCompleted, MayStart
  <1>4. DependsOn[e] \subseteq Decisions
    BY PipelineAssumption
  <1>5. Missing(q, e) = {} => Missing(q, e)' = {}
    BY <1>4, VerdictSettles DEF Missing
  <1> QED
    BY <1>3, <1>5 DEF OnCompleted

LEMMA BoundedNext ==
    ASSUME PipelineInv, FlowInv, [Next]_vars, NEW q \in Runs, NEW e \in Decisions
    PROVE  Bounded(q, e)'
  <1>1. OnCompleted(q, e) /\ Bounded(q, e) /\ TaskInv(q, e)
    BY DEF PipelineInv, FlowInv, EvidenceInv
  <1>2. DependsOn[e] \subseteq Decisions
    BY PipelineAssumption
  <1>3. Missing(q, e) = {} => Upstream(q, e)' = Upstream(q, e)
    <2> SUFFICES ASSUME Missing(q, e) = {}, NEW u \in DependsOn[e]
                 PROVE  verdict'[q][u] = verdict[q][u]
      BY DEF Upstream
    <2>1. stage[q][u] = "completed"
      BY DEF Missing
    <2> QED
      BY <1>2, <2>1, VerdictSettles DEF PipelineInv
  <1>4. CASE verdict'[q][e] = verdict[q][e]
    <2>1. CASE verdict[q][e] = None
      BY <1>4, <2>1 DEF Bounded
    <2>2. CASE verdict[q][e] # None
      <3>1. stage[q][e] \in Started
        BY <1>1, <2>2 DEF TaskInv, EvidenceSteps, Started, Running, Resolved, PipelineInv,
                          TypeInv, TypeOK, TaskType, Stages, Final
      <3>2. Upstream(q, e)' = Upstream(q, e)
        BY <1>1, <1>3, <3>1 DEF OnCompleted
      <3> QED
        BY <1>1, <1>4, <3>2 DEF Bounded
    <2> QED
      BY <2>1, <2>2
  <1>5. CASE verdict'[q][e] # verdict[q][e]
    <2>1. stage[q][e] = "built"
      BY <1>5, VerdictSettles DEF PipelineInv
    <2>2. Upstream(q, e)' = Upstream(q, e)
      BY <1>1, <1>3, <2>1 DEF OnCompleted, Started, Running
    <2>3. verdict'[q][e].outcome \in PossibleOutcomes(Threshold[e], Upstream(q, e))
      <3>1. PICK r \in Runs, d \in Decisions : Judge(r, d)
        BY <1>5 DEF Next, vars, Begin, Executor, Dispatch, Collect, Task, Build, WriteTrace,
                    AuditGate, Observe, Enqueue, Writeback, Raise
      <3>2. PICK outcome \in PossibleOutcomes(Threshold[d], Upstream(r, d)), c \in Confidences :
                verdict' = [verdict EXCEPT ![r][d] = [outcome |-> outcome, confidence |-> c]]
        BY <3>1 DEF Judge
      <3>3. verdict \in [Runs -> [Decisions -> Summary(Confidences) \cup {None}]]
        BY DEF PipelineInv, TypeInv, TypeOK, TaskType
      <3>4. r = q /\ d = e
        BY <1>5, <3>2, <3>3
      <3>5. verdict'[q][e] = [outcome |-> outcome, confidence |-> c]
        BY <3>2, <3>3, <3>4
      <3> QED
        BY <3>4, <3>5
    <2> QED
      BY <2>2, <2>3 DEF Bounded
  <1> QED
    BY <1>4, <1>5

LEMMA CollectFlag ==
    ASSUME TypeInv, WavePosition, NEW r \in Runs, Collect(r), NEW q \in Runs
    PROVE  fraudBlocked'[q] <=>
              \/ fraudBlocked[q]
              \/ q = r /\ stage[r][Fraud] = "routed" /\ verdict[r][Fraud].outcome = "block"
  <1>1. Fraud \in Decisions
    BY EvaluatorAssumption
  <1>2. WavePos(r, Fraud) /\ WaveOf[Fraud] \in Nat /\ wave[r] \in Nat
    BY <1>1, PipelineAssumption DEF WavePosition, TypeInv, TypeOK, ControlType
  <1>3. stage[r][Fraud] = "routed" => Fraud \in InWave(r)
    BY <1>1, <1>2 DEF WavePos, InWave, Final
  <1> QED
    BY <1>1, <1>3 DEF Collect, TypeInv, TypeOK, ControlType, Resolved

LEMMA FraudFlagNext ==
    ASSUME TypeInv, WavePosition, FlowInv, [Next]_vars, NEW q \in Runs
    PROVE  FraudFlag(q)'
  <1>0. FraudFlag(q) /\ Fraud \in Decisions
    BY EvaluatorAssumption DEF FlowInv
  <1>1. ASSUME NEW r \in Runs, Collect(r) PROVE FraudFlag(q)'
    <2>1. verdict' = verdict
      BY <1>1 DEF Collect
    <2>2. stage'[q][Fraud] = "completed" <=>
              stage[q][Fraud] = "completed" \/ (q = r /\ stage[q][Fraud] = "routed")
      BY <1>0, <1>1, CollectStage DEF Running, Resolved
    <2> QED
      BY <1>0, <1>1, <2>1, <2>2, CollectFlag DEF FraudFlag
  <1>2. CASE ~\E r \in Runs : Collect(r)
    <2>1. fraudBlocked' = fraudBlocked
      BY <1>2, TaskMoves DEF Next, Executor, Begin, Dispatch, vars, control
    <2>2. stage[q][Fraud] = "completed" =>
              stage'[q][Fraud] = "completed" /\ verdict'[q][Fraud] = verdict[q][Fraud]
      BY <1>0, VerdictSettles
    <2>3. stage'[q][Fraud] = "completed" => stage[q][Fraud] = "completed"
      <3>1. ASSUME NEW r \in Runs, Dispatch(r)
            PROVE  stage'[q][Fraud] = "completed" => stage[q][Fraud] = "completed"
        BY <1>0, <3>1, DispatchStage
      <3>2. ASSUME NEW r \in Runs, NEW d \in Decisions, Task(r, d)
            PROVE  stage'[q][Fraud] = "completed" => stage[q][Fraud] = "completed"
        <4>1. PICK x \in Running \cup Resolved : stage' = [stage EXCEPT ![r][d] = x]
          BY <3>2, TaskMoves
        <4> QED
          BY <1>0, <4>1 DEF TypeInv, TypeOK, TaskType, Running, Resolved
      <3>3. ASSUME NEW r \in Runs, Begin(r) PROVE stage' = stage
        BY <3>3 DEF Begin
      <3> QED
        BY <1>2, <3>1, <3>2, <3>3 DEF Next, Executor, vars
    <2> QED
      BY <1>0, <2>1, <2>2, <2>3 DEF FraudFlag
  <1> QED
    BY <1>1, <1>2

LEMMA StoppedNext ==
    ASSUME TypeInv, WavePosition, FlowInv, [Next]_vars, NEW q \in Runs, NEW e \in Decisions
    PROVE  Stopped(q, e)'
  <1>0. /\ FraudFlag(q) /\ Stopped(q, e) /\ Fraud \in Decisions
        /\ WavePos(q, e) /\ WavePos(q, Fraud) /\ wave[q] \in Nat
        /\ WaveOf[e] \in Nat /\ WaveOf[Fraud] \in Nat
    BY EvaluatorAssumption, PipelineAssumption
    DEF FlowInv, WavePosition, TypeInv, TypeOK, ControlType
  <1>1. CASE fraudBlocked[q]
    <2>1. ~(stage[q][e] = "pending" /\ stage'[q][e] = "started" /\ MayStart(q, e))
      BY <1>0, <1>1 DEF FraudFlag, MayStart
    <2>2. stage'[q][e] = stage[q][e] \/ (stage[q][e] = "pending" /\ stage'[q][e] = "skipped")
      BY <1>0, <1>1, <2>1, StageMoves DEF Stopped
    <2> QED
      BY <1>0, <1>1, <2>2 DEF Stopped, Running, Resolved
  <1>2. CASE ~fraudBlocked[q] /\ fraudBlocked'[q]
    <2>1. PICK r \in Runs : Collect(r)
      BY <1>2, TaskMoves DEF Next, Executor, Begin, Dispatch, vars, control
    <2>2. q = r /\ stage[q][Fraud] = "routed"
      BY <1>2, <2>1, CollectFlag
    <2>3. WaveOf[Fraud] = wave[q]
      BY <1>0, <2>2 DEF WavePos, Final
    <2>4. stage'[q][e] \notin Running \cup Resolved
      BY <2>1, <2>2, CollectStage DEF Running, Resolved
    <2>5. WaveOf[e] > WaveOf[Fraud] => stage[q][e] = "pending"
      BY <1>0, <2>3 DEF WavePos
    <2>6. stage[q][e] = "pending" => stage'[q][e] = "pending"
      BY <2>1, CollectStage DEF Running, Resolved
    <2> QED
      BY <2>4, <2>5, <2>6 DEF Stopped
  <1> QED
    BY <1>1, <1>2 DEF Stopped

LEMMA FlowNext == PipelineInv /\ FlowInv /\ [Next]_vars => FlowInv'
  BY OnCompletedNext, BoundedNext, FraudFlagNext, StoppedNext DEF FlowInv, PipelineInv

LEMMA FlowInvariant == Spec => [](PipelineInv /\ FlowInv)
  <1>1. Spec => []PipelineInv
    BY EvidenceInvariant, PTL DEF PipelineInv
  <1>2. Init => FlowInv
    BY FlowInit
  <1>3. PipelineInv /\ FlowInv /\ [Next]_vars => FlowInv'
    BY FlowNext
  <1> QED
    BY <1>1, <1>2, <1>3, PTL DEF Spec

-----------------------------------------------------------------------------
(* fraud_block_stops_pipeline, for every graph: also for decisions that do *)
(* not depend on fraud_screening, and for any position of it.              *)
THEOREM FraudStops == Spec => []FraudBlockStopsPipeline
  <1>1. FlowInv => FraudBlockStopsPipeline
    BY DEF FlowInv, FraudFlag, Stopped, FraudBlockStopsPipeline
  <1> QED
    BY <1>1, FlowInvariant, PTL

(* No work on top of an upstream that failed or was skipped.               *)
THEOREM FailuresCascade == Spec => []FailureCascades
  <1>1. PipelineInv /\ FlowInv => FailureCascades
    <2> SUFFICES ASSUME PipelineInv, FlowInv, NEW r \in Runs, NEW d \in Decisions,
                        NEW u \in DependsOn[d],
                        stage[r][u] \in {"raised", "failed", "skipped"}
                 PROVE  /\ stage[r][d] \in {"pending", "skipped"}
                        /\ trace[r][d] = NoTrace
                        /\ ~Recorded(r, d)
      BY DEF FailureCascades
    <2>1. u \in Missing(r, d)
      BY DEF Missing
    <2>2. stage[r][d] \in {"pending", "skipped"}
      BY <2>1 DEF FlowInv, OnCompleted, Started, PipelineInv, TypeInv, TypeOK, TaskType,
                  Stages, Final
    <2>3. TaskInv(r, d)
      BY DEF PipelineInv, EvidenceInv
    <2> QED
      BY <2>2, <2>3 DEF TaskInv, EvidenceSteps, EffectSteps, Untraced, Ended
  <1> QED
    BY <1>1, FlowInvariant, PTL

(* upstream_block_propagates_to_dependents and the contamination guard,    *)
(* for every graph and threshold: below trouble a run enacts only blocks.  *)
THEOREM TroubleOnlyBlocks == Spec => []OnlyBlocksBelowTrouble
  <1>1. PipelineInv /\ FlowInv => OnlyBlocksBelowTrouble
    <2> SUFFICES ASSUME PipelineInv, FlowInv, NEW r \in Runs, NEW d \in Decisions, Troubled(r, d)
                 PROVE  /\ \A i \in Records(d) : log[d][i].run = r => log[d][i].outcome = "block"
                        /\ ~Asked(r, d)
      BY DEF OnlyBlocksBelowTrouble
    <2>1. TaskInv(r, d) /\ OnCompleted(r, d) /\ Bounded(r, d)
      BY DEF PipelineInv, EvidenceInv, FlowInv
    <2>2. ASSUME stage[r][d] \in Started, verdict[r][d] # None
          PROVE  verdict[r][d].outcome = "block"
      <3>1. PICK u \in DependsOn[d] : \/ verdict[r][u].outcome = "block"
                                      \/ verdict[r][u].confidence < Threshold[d]
        BY DEF Troubled
      <3>2. Upstream(r, d)[u] = verdict[r][u] /\ DOMAIN Upstream(r, d) = DependsOn[d]
        BY DEF Upstream
      <3>3. Blocked(Upstream(r, d)) # {} \/ LowConfidence(Threshold[d], Upstream(r, d))
        BY <3>1, <3>2 DEF Blocked, LowConfidence
      <3> QED
        BY <2>1, <2>2, <3>3 DEF Bounded, PossibleOutcomes
    <2>3. ASSUME NEW i \in Records(d), log[d][i].run = r
          PROVE  log[d][i].outcome = "block"
      <3>1. stage[r][d] \in Started
        BY <2>1, <2>3 DEF TaskInv, EffectSteps, Recorded, Ended, Started, Resolved
      <3>2. log[d][i].outcome = verdict[r][d].outcome
        BY <2>1, <2>3 DEF TaskInv, EffectEvidence
      <3>3. log[d][i].outcome # "none"
        <4>1. log[d] \in Seq(DecisionRecords)
          BY DEF PipelineInv, TypeInv, TypeOK, EffectType
        <4>2. log[d][i] \in DecisionRecords
          BY <4>1 DEF Records
        <4> QED
          BY <4>2 DEF DecisionRecords, Outcomes
      <3> QED
        BY <2>2, <3>1, <3>2, <3>3 DEF None
    <2>4. ~Asked(r, d)
      <3> SUFFICES ASSUME Asked(r, d) PROVE FALSE
        OBVIOUS
      <3>1. stage[r][d] \in Started /\ RouteOf(r, d) = "queue_human"
        BY <2>1 DEF TaskInv, EffectSteps, Ended, Started, Resolved, Running
      <3>2. PICK i \in Items(d) : queue[d][i].run = r
        BY DEF Asked
      <3>3. queue[d][i].proposed = verdict[r][d].outcome /\ queue[d][i].proposed \in Outcomes
        <4>1. queue[d] \in Seq(QueueItems)
          BY DEF PipelineInv, TypeInv, TypeOK, EffectType
        <4>2. queue[d][i] \in QueueItems
          BY <3>2, <4>1 DEF Items
        <4> QED
          BY <2>1, <3>2, <4>2 DEF TaskInv, EffectEvidence, QueueItems
      <3>4. verdict[r][d].outcome = "block"
        BY <2>2, <3>1, <3>3 DEF None, Outcomes
      <3> QED
        BY <3>1, <3>4 DEF RouteOf, Action
    <2> QED
      BY <2>3, <2>4
  <1> QED
    BY <1>1, FlowInvariant, PTL

-----------------------------------------------------------------------------
(* A bundle built from "started" on shows the run's own upstream records:  *)
(* the upstreams are completed, so their records are in the store.         *)
Shown(r, d) ==
    \A u \in DependsOn[d] :
        RouteOf(r, u) # "shadow_record" =>
            \E i \in Records(u) : log[u][i].run = r /\ i <= bundle[r][d][u]

ShownOnceBuilt ==
    \A r \in Runs, d \in Decisions :
        stage[r][d] = "built" \/ verdict[r][d] # None => Shown(r, d)

LEMMA LogGrows ==
    ASSUME TypeInv, [Next]_vars, NEW e \in Decisions, NEW i \in Records(e)
    PROVE  i \in Records(e)' /\ log'[e][i] = log[e][i]
  <1>1. ASSUME NEW r \in Runs, NEW d \in Decisions, Writeback(r, d)
        PROVE  i \in Records(e)' /\ log'[e][i] = log[e][i]
    BY <1>1, WritebackLog
  <1>2. log' = log \/ \E r \in Runs, d \in Decisions : Writeback(r, d)
    BY DEF Next, Executor, Begin, Dispatch, Collect, Task, Build, Judge, WriteTrace, AuditGate,
           Observe, Enqueue, Raise, effects, vars
  <1> QED
    BY <1>1, <1>2 DEF Records

LEMMA BundleStays ==
    ASSUME TypeInv, [Next]_vars, NEW q \in Runs, NEW e \in Decisions
    PROVE  bundle'[q][e] = bundle[q][e] \/ Build(q, e)
  <1>1. ASSUME NEW r \in Runs, NEW d \in Decisions, Build(r, d), r # q \/ d # e
        PROVE  bundle'[q][e] = bundle[q][e]
    BY <1>1 DEF Build, TypeInv, TypeOK, TaskType
  <1>2. bundle' = bundle \/ \E r \in Runs, d \in Decisions : Build(r, d)
    BY DEF Next, Executor, Begin, Dispatch, Collect, Task, Judge, WriteTrace, AuditGate,
           Observe, Enqueue, Writeback, Raise, vars
  <1> QED
    BY <1>1, <1>2

LEMMA ShownNext ==
    ASSUME PipelineInv, FlowInv, ShownOnceBuilt, [Next]_vars
    PROVE  ShownOnceBuilt'
  <1> SUFFICES ASSUME NEW q \in Runs, NEW e \in Decisions,
                      stage'[q][e] = "built" \/ verdict'[q][e] # None,
                      NEW u \in DependsOn[e], RouteOf(q, u)' # "shadow_record"
               PROVE  \E i \in Records(u)' : log'[u][i].run = q /\ i <= bundle'[q][e][u]
    BY DEF ShownOnceBuilt, Shown
  <1>0. TypeInv /\ WavePosition /\ EvidenceInv /\ u \in Decisions
    BY PipelineAssumption DEF PipelineInv
  <1>1. CASE Build(q, e)
    <2>1. stage[q][e] = "started"
      BY <1>1 DEF Build, Advance
    <2>2. stage[q][u] = "completed"
      BY <2>1 DEF FlowInv, OnCompleted, Started, Running, Missing
    <2>3. verdict' = verdict /\ log' = log
      BY <1>1 DEF Build, effects
    <2>4. Recorded(q, u)
      BY <1>0, <2>2, <2>3 DEF EvidenceInv, TaskInv, EffectSteps, RouteOf
    <2>5. bundle'[q][e][u] = Len(log[u])
      BY <1>0, <1>1 DEF Build, TypeInv, TypeOK, TaskType
    <2>6. Records(u) = 1..Len(log[u])
      BY <1>0 DEF Records, TypeInv, TypeOK, EffectType
    <2> QED
      BY <2>3, <2>4, <2>5, <2>6 DEF Recorded, Records
  <1>2. CASE ~Build(q, e)
    <2>1. bundle'[q][e] = bundle[q][e]
      BY <1>0, <1>2, BundleStays
    <2>2. stage[q][e] = "built" \/ verdict[q][e] # None
      <3>1. CASE verdict'[q][e] # verdict[q][e]
        BY <1>0, <3>1, VerdictSettles
      <3>2. CASE verdict'[q][e] = verdict[q][e] /\ stage'[q][e] # stage[q][e] /\ stage'[q][e] = "built"
        <4>1. PICK r \in Runs, d \in Decisions : Task(r, d)
          BY <1>0, <3>2, DispatchStage, CollectStage DEF Next, Executor, Begin, vars
        <4>2. PICK x : stage' = [stage EXCEPT ![r][d] = x]
          BY <1>0, <4>1, TaskMoves
        <4>3. r = q /\ d = e
          BY <1>0, <3>2, <4>2 DEF TypeInv, TypeOK, TaskType
        <4> QED
          BY <1>0, <1>2, <3>2, <4>1, <4>3 DEF Task, Judge, WriteTrace, AuditGate, Observe, Enqueue,
             Writeback, Raise, Advance, Resolved, TypeInv, TypeOK, TaskType
      <3> QED
        BY <3>1, <3>2
    <2>3. stage[q][e] \in Started
      <3>1. stage[q][e] \in Stages
        BY <1>0 DEF TypeInv, TypeOK, TaskType
      <3>2. stage[q][e] \notin {"pending", "skipped"}
        BY <1>0, <2>2 DEF EvidenceInv, TaskInv, EvidenceSteps
      <3> QED
        BY <3>1, <3>2 DEF Started, Stages, Final
    <2>4. stage[q][u] = "completed"
      BY <2>3 DEF FlowInv, OnCompleted, Missing
    <2>5. RouteOf(q, u) # "shadow_record"
      BY <1>0, <2>4, VerdictSettles DEF RouteOf
    <2>6. PICK i \in Records(u) : log[u][i].run = q /\ i <= bundle[q][e][u]
      BY <2>2, <2>5 DEF ShownOnceBuilt, Shown
    <2> QED
      BY <1>0, <2>1, <2>6, LogGrows
  <1> QED
    BY <1>1, <1>2

(* A dependent is never judged on a bundle that misses what its own run    *)
(* wrote for an upstream, however other runs write to the same store.      *)
THEOREM OwnUpstreamsShown == Spec => []OwnUpstreamVisible
  <1>1. Init => ShownOnceBuilt
    BY DEF Init, ShownOnceBuilt
  <1>2. PipelineInv /\ FlowInv /\ ShownOnceBuilt /\ [Next]_vars => ShownOnceBuilt'
    BY ShownNext
  <1>3. ShownOnceBuilt => OwnUpstreamVisible
    BY DEF ShownOnceBuilt, Shown, OwnUpstreamVisible
  <1> QED
    BY <1>1, <1>2, <1>3, FlowInvariant, PTL DEF Spec

-----------------------------------------------------------------------------
(* DecisionPipeline implements DecisionFlow. *)
LEMMA DispositionOf ==
    ASSUME NEW r \in Runs, NEW d \in Decisions
    PROVE  Dispositions[r][d] = Disposition(r, d)
  BY DEF Dispositions

LEMMA DispositionType ==
    ASSUME TypeInv'
    PROVE  Dispositions' \in [Runs -> [Decisions -> Flow!Dispositions]]
  <1> SUFFICES ASSUME NEW r \in Runs, NEW d \in Decisions
               PROVE  Disposition(r, d)' \in Flow!Dispositions
    BY DEF Dispositions
  <1>1. stage'[r][d] = "completed" => verdict'[r][d].outcome \in Outcomes
    BY DEF TypeInv, HasVerdict, Judged, Summary
  <1> QED
    BY <1>1 DEF Disposition, Flow!Dispositions, Flow!Outcomes, Outcomes

(* The abstract laws, read off the pipeline's state. *)
LEMMA MayRunMeans ==
    ASSUME PipelineInv, FlowInv, NEW r \in Runs, NEW d \in Decisions
    PROVE  /\ Flow!Halted(r) <=> fraudBlocked[r]
           /\ Flow!Undecided(r, d) = Missing(r, d)
  <1>1. \A u \in Decisions : Disposition(r, u) \in Outcomes <=> stage[r][u] = "completed"
    BY DEF Disposition, Outcomes, PipelineInv, TypeInv, HasVerdict, Judged, Summary
  <1>2. Flow!Halted(r) <=> fraudBlocked[r]
    <2>1. FraudFlag(r) /\ Fraud \in Decisions
      BY EvaluatorAssumption DEF FlowInv
    <2> QED
      BY <2>1, DispositionOf DEF Flow!Halted, FraudFlag, Disposition
  <1>3. DependsOn[d] \subseteq Decisions
    BY PipelineAssumption
  <1>4. Flow!Undecided(r, d) = Missing(r, d)
    BY <1>1, <1>3, DispositionOf DEF Flow!Undecided, Missing, Flow!Outcomes, Outcomes
  <1> QED
    BY <1>2, <1>4

LEMMA SkipIsLawful ==
    ASSUME PipelineInv, FlowInv, NEW r \in Runs, NEW d \in Decisions, ~MayStart(r, d)
    PROVE  Flow!Lawful(r, d, "skipped")
  BY MayRunMeans DEF Flow!Lawful, Flow!MayRun, MayStart

LEMMA EndIsLawful ==
    ASSUME PipelineInv, FlowInv, NEW r \in Runs, NEW d \in Decisions,
           stage[r][d] \in Running \cup Resolved
    PROVE  /\ Flow!Lawful(r, d, "failed")
           /\ stage[r][d] = "routed" => Flow!Lawful(r, d, verdict[r][d].outcome)
  <1>1. d \in Registered /\ Missing(r, d) = {} /\ ~fraudBlocked[r]
    BY DEF FlowInv, OnCompleted, Stopped, Started
  <1>2. Flow!MayRun(r, d)
    BY <1>1, MayRunMeans DEF Flow!MayRun
  <1>3. ASSUME stage[r][d] = "routed", NEW u \in DependsOn[d], Dispositions[r][u] = "block"
        PROVE  verdict[r][d].outcome = "block"
    <2>1. u \in Decisions
      BY PipelineAssumption
    <2>2. verdict[r][u].outcome = "block"
      BY <1>3, <2>1, DispositionOf DEF Disposition
    <2>3. u \in Blocked(Upstream(r, d))
      BY <2>2 DEF Blocked, Upstream
    <2>4. verdict[r][d] # None
      BY <1>3 DEF PipelineInv, TypeInv, HasVerdict, Judged, Summary, None, Outcomes
    <2>5. Bounded(r, d)
      BY DEF FlowInv
    <2> QED
      BY <2>3, <2>4, <2>5 DEF Bounded, PossibleOutcomes
  <1>4. stage[r][d] = "routed" => verdict[r][d].outcome \in Flow!Outcomes
    BY DEF PipelineInv, TypeInv, HasVerdict, Judged, Summary, Outcomes, Flow!Outcomes
  <1> QED
    BY <1>2, <1>3, <1>4 DEF Flow!Lawful

LEMMA StepIsLawful ==
    ASSUME PipelineInv, TypeInv', FlowInv, [Next]_vars
    PROVE  [Flow!Next]_Dispositions
  <1>0. PipelineInv => TypeInv /\ WavePosition
    BY DEF PipelineInv
  <1>1. CASE UNCHANGED vars
    BY <1>1 DEF vars, Dispositions, Disposition
  <1>2. ASSUME NEW r \in Runs, Begin(r) PROVE UNCHANGED Dispositions
    BY <1>2 DEF Begin, Dispositions, Disposition
  <1>3. ASSUME NEW r \in Runs, NEW d \in Decisions, Task(r, d) PROVE UNCHANGED Dispositions
    <2> SUFFICES ASSUME NEW q \in Runs, NEW e \in Decisions
                 PROVE  Disposition(q, e)' = Disposition(q, e)
      BY DEF Dispositions
    <2>1. [Next]_vars
      OBVIOUS
    <2>2. stage'[q][e] = stage[q][e]
            \/ (stage[q][e] \in Running /\ stage'[q][e] \in Running \cup Resolved)
      <3>1. stage[r][d] \in Running
        BY <1>0, <1>3, TaskMoves
      <3>2. PICK x \in Running \cup Resolved : stage' = [stage EXCEPT ![r][d] = x]
        BY <1>0, <1>3, TaskMoves
      <3> QED
        BY <1>0, <3>1, <3>2 DEF TypeInv, TypeOK, TaskType
    <2>3. stage[q][e] = "completed" => verdict'[q][e] = verdict[q][e]
      BY <1>0, VerdictSettles
    <2> QED
      BY <2>2, <2>3 DEF Disposition, Running, Resolved
  <1>4. ASSUME NEW r \in Runs, Dispatch(r) PROVE Flow!Settle(r)
    <2>1. verdict' = verdict
      BY <1>4 DEF Dispatch
    <2>2. Dispositions' \in [Runs -> [Decisions -> Flow!Dispositions]]
      BY DispositionType
    <2>3. ASSUME NEW q \in Runs \ {r} PROVE Dispositions'[q] = Dispositions[q]
      <3>1. \A e \in Decisions : stage'[q][e] = stage[q][e]
        BY <1>0, <1>4, DispatchStage
      <3> QED
        BY <2>1, <3>1 DEF Dispositions, Disposition
    <2>4. ASSUME NEW e \in Decisions, Dispositions'[r][e] # Dispositions[r][e]
          PROVE  Dispositions[r][e] = "open" /\ Flow!Lawful(r, e, Dispositions'[r][e])
      <3>1. Dispositions[r][e] = Disposition(r, e) /\ Dispositions'[r][e] = Disposition(r, e)'
        BY DEF Dispositions
      <3>2. stage'[r][e] # stage[r][e]
        BY <2>1, <2>4, <3>1 DEF Disposition
      <3>3. stage[r][e] = "pending" /\ e \in InWave(r)
        BY <1>0, <1>4, <3>2, DispatchStage
      <3>4. stage'[r][e] = IF MayStart(r, e) THEN "started" ELSE "skipped"
        BY <1>0, <1>4, <3>3, DispatchStage
      <3>5. ~MayStart(r, e)
        BY <2>4, <3>1, <3>3, <3>4 DEF Disposition
      <3> QED
        BY <3>1, <3>3, <3>4, <3>5, SkipIsLawful DEF Disposition
    <2> QED
      BY <2>2, <2>3, <2>4 DEF Flow!Settle
  <1>5. ASSUME NEW r \in Runs, Collect(r) PROVE Flow!Settle(r)
    <2>1. verdict' = verdict
      BY <1>5 DEF Collect
    <2>2. Dispositions' \in [Runs -> [Decisions -> Flow!Dispositions]]
      BY DispositionType
    <2>3. ASSUME NEW q \in Runs \ {r} PROVE Dispositions'[q] = Dispositions[q]
      <3>1. \A e \in Decisions : stage'[q][e] = stage[q][e]
        BY <1>0, <1>5, CollectStage
      <3> QED
        BY <2>1, <3>1 DEF Dispositions, Disposition
    <2>4. ASSUME NEW e \in Decisions, Dispositions'[r][e] # Dispositions[r][e]
          PROVE  Dispositions[r][e] = "open" /\ Flow!Lawful(r, e, Dispositions'[r][e])
      <3>1. Dispositions[r][e] = Disposition(r, e) /\ Dispositions'[r][e] = Disposition(r, e)'
        BY DEF Dispositions
      <3>2. stage'[r][e] # stage[r][e]
        BY <2>1, <2>4, <3>1 DEF Disposition
      <3>3. /\ stage[r][e] \in Running \cup Resolved
            /\ stage'[r][e] = IF stage[r][e] = "routed" THEN "completed" ELSE "failed"
        BY <1>0, <1>5, <3>2, CollectStage DEF Resolved
      <3>4. Dispositions[r][e] = "open"
        BY <3>1, <3>3 DEF Disposition, Running, Resolved
      <3>5. Dispositions'[r][e] = IF stage[r][e] = "routed" THEN verdict[r][e].outcome
                                 ELSE "failed"
        BY <2>1, <3>1, <3>3 DEF Disposition
      <3> QED
        BY <3>3, <3>4, <3>5, EndIsLawful
    <2> QED
      BY <2>2, <2>3, <2>4 DEF Flow!Settle
  <1> QED
    BY <1>1, <1>2, <1>3, <1>4, <1>5 DEF Next, Executor, Flow!Next

(* Every step of the executor and its tasks settles a set of decisions     *)
(* lawfully, or settles nothing, for every graph and every interleaving.   *)
THEOREM PipelineImplementsFlow == Spec => ImplementsFlow
  <1>1. Init => Flow!Init
    BY DEF Init, Flow!Init, Dispositions, Disposition
  <1>2. PipelineInv /\ PipelineInv' /\ FlowInv /\ [Next]_vars => [Flow!Next]_Dispositions
    BY StepIsLawful DEF PipelineInv
  <1> QED
    BY <1>1, <1>2, FlowInvariant, PTL DEF Spec, ImplementsFlow, Flow!Spec
=============================================================================
