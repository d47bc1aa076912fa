-------------------------- MODULE LocalDriverProofs --------------------------
(***************************************************************************)
(* Theorems about LocalDriver, for any set of tasks, any limit and any     *)
(* number of calls in progress.                                            *)
(***************************************************************************)
EXTENDS LocalDriver, FiniteSetTheorems, TLAPS

LEMMA InitIInv == Init => IInv
<1> SUFFICES ASSUME Init PROVE IInv
  OBVIOUS
<1>1. TypeOK /\ ControlInv /\ DirectoryInv
  BY DEF Init, TypeOK, ControlInv, DirectoryInv, InProgress, Uncounted
<1>2. Begun = {} /\ Calls = {} /\ Counted = {} /\ Holding = {}
  BY DEF Init, Begun, Calls, Counted, Holding, InProgress, Uncounted
<1>3. CountIsExact
  BY <1>2, FS_EmptySet DEF CountIsExact, Init
<1>4. CapacityInv
  BY <1>2, FS_EmptySet, BoundsAssumption DEF CapacityInv
<1> QED
  BY <1>1, <1>3, <1>4 DEF IInv

\* The sets that are counted are finite, for they only hold tasks whose call has
\* begun.
LEMMA Finite ==
  ASSUME TypeOK, ControlInv, IsFiniteSet(Begun)
  PROVE  /\ IsFiniteSet(Calls) /\ IsFiniteSet(Counted) /\ IsFiniteSet(Holding)
         /\ Cardinality(Calls) \in Nat
         /\ Cardinality(Counted) \in Nat
         /\ Cardinality(Holding) \in Nat
<1>1. Calls \subseteq Begun /\ Counted \subseteq Begun /\ Holding \subseteq Begun
  BY DEF Calls, Counted, Holding, Begun, InProgress, Uncounted
<1> QED
  BY <1>1, FS_Subset, FS_CardinalityType

-----------------------------------------------------------------------------
(* The control of calls, processes and goroutines.                          *)

LEMMA StepControl ==
  ASSUME TypeOK, ControlInv, [Next]_vars
  PROVE  /\ ControlInv'
         /\ server' \in {"up", "down"}
         /\ pc' \in [Tasks -> InProgress \cup {"idle", "handle", "error"}]
         /\ ctx' \in [Tasks -> {"live", "done"}]
         /\ process' \in [Tasks -> {"none", "running", "exited", "killed"}]
         /\ monitor' \in [Tasks -> {"none", "wait", "uncount", "forget", "clean", "done"}]
         /\ dir' \in [Tasks -> BOOLEAN]
         /\ handles' \subseteq Tasks
<1> DEFINE Goal == /\ ControlInv
                   /\ server \in {"up", "down"}
                   /\ pc \in [Tasks -> InProgress \cup {"idle", "handle", "error"}]
                   /\ ctx \in [Tasks -> {"live", "done"}]
                   /\ process \in [Tasks -> {"none", "running", "exited", "killed"}]
                   /\ monitor \in [Tasks -> {"none", "wait", "uncount", "forget", "clean", "done"}]
                   /\ dir \in [Tasks -> BOOLEAN]
                   /\ handles \subseteq Tasks
<1> SUFFICES Goal'
  OBVIOUS
<1> USE DEF TypeOK, ControlInv, InProgress, Uncounted, Serving, Goto, MonitorGoto
<1>1. ASSUME NEW t \in Tasks, Call(t) PROVE Goal'
  BY <1>1 DEF Call
<1>2. ASSUME NEW t \in Tasks, CheckCapacity(t) PROVE Goal'
  BY <1>2 DEF CheckCapacity
<1>3. ASSUME NEW t \in Tasks, MakeDir(t) PROVE Goal'
  <2>1. dir' \in [Tasks -> BOOLEAN]
    BY <1>3 DEF MakeDir
  <2>2. CASE Goto(t, "mkdir", "write")
    BY <1>3, <2>1, <2>2 DEF MakeDir
  <2>3. CASE Goto(t, "mkdir", "error")
    BY <1>3, <2>1, <2>3 DEF MakeDir
  <2> QED
    BY <1>3, <2>2, <2>3 DEF MakeDir
<1>4. ASSUME NEW t \in Tasks, WriteTask(t) PROVE Goal'
  BY <1>4 DEF WriteTask
<1>5. ASSUME NEW t \in Tasks, StartProcess(t) PROVE Goal'
  BY <1>5 DEF StartProcess
<1>6. ASSUME NEW t \in Tasks, Count(t) PROVE Goal'
  BY <1>6 DEF Count
<1>7. ASSUME NEW t \in Tasks, ReturnHandle(t) PROVE Goal'
  BY <1>7 DEF ReturnHandle
<1>8. ASSUME NEW t \in Tasks, Wait(t) PROVE Goal'
  BY <1>8 DEF Wait
<1>9. ASSUME NEW t \in Tasks, Uncount(t) PROVE Goal'
  BY <1>9 DEF Uncount
<1>10. ASSUME NEW t \in Tasks, Forget(t) PROVE Goal'
  BY <1>10 DEF Forget
<1>11. ASSUME NEW t \in Tasks, Clean(t) PROVE Goal'
  <2>1. dir' \in [Tasks -> BOOLEAN]
    BY <1>11 DEF Clean
  <2> QED
    BY <1>11, <2>1 DEF Clean
<1>12. ASSUME NEW t \in Tasks, RequestEnds(t) PROVE Goal'
  BY <1>12 DEF RequestEnds
<1>13. ASSUME NEW t \in Tasks, Kill(t) PROVE Goal'
  BY <1>13 DEF Kill
<1>14. ASSUME NEW t \in Tasks, ProcessExits(t) PROVE Goal'
  BY <1>14 DEF ProcessExits
<1>15. CASE ServerEnds
  BY <1>15 DEF ServerEnds
<1>16. CASE UNCHANGED vars
  BY <1>16 DEF vars
<1> HIDE DEF Goal, TypeOK, ControlInv, InProgress, Uncounted, Serving, Goto, MonitorGoto
<1> QED
  BY <1>1, <1>2, <1>3, <1>4, <1>5, <1>6, <1>7, <1>8, <1>9, <1>10, <1>11, <1>12,
     <1>13, <1>14, <1>15, <1>16 DEF Next, Dispatch, Monitor

-----------------------------------------------------------------------------
(* The directories.                                                         *)

\* What DirectoryInv says of one task.
Kept(t) == pc[t] \in {"write", "start", "count", "put"} \/ monitor[t] = "wait" => dir[t]

\* Writing a flag of one task.
LEMMA FlagSet ==
  ASSUME NEW f \in [Tasks -> BOOLEAN], NEW t \in Tasks, NEW b \in BOOLEAN
  PROVE  /\ [f EXCEPT ![t] = b][t] = b
         /\ \A u \in Tasks \ {t} : [f EXCEPT ![t] = b][u] = f[u]
  BY Zenon

\* A directory is made before its process is started, and goes, if it does, only
\* after the goroutine has seen the process end.
LEMMA StepDirectory ==
  ASSUME TypeOK, ControlInv, DirectoryInv, [Next]_vars
  PROVE  DirectoryInv'
<1> DEFINE Others(t) == \A u \in Tasks \ {t} :
      pc'[u] = pc[u] /\ monitor'[u] = monitor[u] /\ dir'[u] = dir[u]
<1>0. /\ pc \in [Tasks -> InProgress \cup {"idle", "handle", "error"}]
      /\ monitor \in [Tasks -> {"none", "wait", "uncount", "forget", "clean", "done"}]
      /\ dir \in [Tasks -> BOOLEAN]
      /\ \A t \in Tasks : Kept(t)
      /\ \A t \in Tasks : pc[t] = "handle" <=> monitor[t] # "none"
  BY DEF TypeOK, DirectoryInv, Kept, ControlInv
<1>s. ASSUME NEW t \in Tasks, Kept(t)', Others(t) PROVE DirectoryInv'
  BY <1>0, <1>s DEF DirectoryInv, Kept
\* Steps that leave the directory as it is.
<1>g. ASSUME NEW t \in Tasks, NEW from, NEW to, Goto(t, from, to), UNCHANGED <<monitor, dir>>
      PROVE  /\ pc[t] = from /\ pc'[t] = to /\ monitor'[t] = monitor[t] /\ dir'[t] = dir[t]
             /\ Others(t)
  BY <1>0, <1>g DEF Goto
<1>m. ASSUME NEW t \in Tasks, NEW from, NEW to, MonitorGoto(t, from, to), UNCHANGED <<pc, dir>>
      PROVE  /\ monitor[t] = from /\ monitor'[t] = to /\ pc'[t] = pc[t] /\ dir'[t] = dir[t]
             /\ Others(t)
  BY <1>0, <1>m DEF MonitorGoto
<1>1. ASSUME NEW t \in Tasks, Call(t) PROVE DirectoryInv'
  <2>1. Goto(t, "idle", "check") /\ UNCHANGED <<monitor, dir>>
    BY <1>1 DEF Call
  <2> QED
    BY <1>0, <1>g, <1>s, <2>1 DEF Kept
<1>2. ASSUME NEW t \in Tasks, CheckCapacity(t) PROVE DirectoryInv'
  <2>1. PICK to \in {"error", "mkdir"} : Goto(t, "check", to)
    BY <1>2 DEF CheckCapacity
  <2>2. UNCHANGED <<monitor, dir>>
    BY <1>2 DEF CheckCapacity
  <2> QED
    BY <1>0, <1>g, <1>s, <2>1, <2>2 DEF Kept
<1>3. ASSUME NEW t \in Tasks, MakeDir(t) PROVE DirectoryInv'
  <2>1. CASE Goto(t, "mkdir", "write") /\ dir' = [dir EXCEPT ![t] = TRUE]
    <3>1. dir'[t] /\ \A u \in Tasks \ {t} : dir'[u] = dir[u]
      BY <1>0, <2>1, FlagSet
    <3>2. \A u \in Tasks \ {t} : pc'[u] = pc[u] /\ monitor'[u] = monitor[u]
      BY <1>0, <1>3, <2>1 DEF MakeDir, Goto
    <3> QED
      BY <1>s, <3>1, <3>2 DEF Kept
  <2>2. CASE Goto(t, "mkdir", "error") /\ UNCHANGED dir
    <3>1. UNCHANGED <<monitor, dir>>
      BY <1>3, <2>2 DEF MakeDir
    <3> QED
      BY <1>0, <1>g, <1>s, <2>2, <3>1 DEF Kept
  <2> QED
    BY <1>3, <2>1, <2>2 DEF MakeDir
<1>4. ASSUME NEW t \in Tasks, WriteTask(t) PROVE DirectoryInv'
  <2>1. PICK to \in {"start", "error"} : Goto(t, "write", to)
    BY <1>4 DEF WriteTask
  <2>2. UNCHANGED <<monitor, dir>>
    BY <1>4 DEF WriteTask
  <2> QED
    BY <1>0, <1>g, <1>s, <2>1, <2>2 DEF Kept
<1>5. ASSUME NEW t \in Tasks, StartProcess(t) \/ Count(t) PROVE DirectoryInv'
  <2>1. \/ Goto(t, "start", "count") \/ Goto(t, "start", "error")
        \/ Goto(t, "count", "put")
    BY <1>5 DEF StartProcess, Count
  <2>2. UNCHANGED <<monitor, dir>>
    BY <1>5 DEF StartProcess, Count
  <2> QED
    BY <1>0, <1>g, <1>s, <2>1, <2>2 DEF Kept
<1>6. ASSUME NEW t \in Tasks, ReturnHandle(t) PROVE DirectoryInv'
  <2>1. pc[t] = "put" /\ dir'[t] = dir[t] /\ Others(t)
    BY <1>0, <1>6 DEF ReturnHandle, Goto
  <2> QED
    BY <1>0, <1>s, <2>1 DEF Kept
<1>7. ASSUME NEW t \in Tasks, Wait(t) \/ Uncount(t) \/ Forget(t) PROVE DirectoryInv'
  <2>1. \/ MonitorGoto(t, "wait", "uncount") \/ MonitorGoto(t, "uncount", "forget")
        \/ MonitorGoto(t, "forget", "clean")
    BY <1>7 DEF Wait, Uncount, Forget
  <2>2. UNCHANGED <<pc, dir>>
    BY <1>7 DEF Wait, Uncount, Forget
  <2> QED
    BY <1>0, <1>m, <1>s, <2>1, <2>2 DEF Kept
<1>8. ASSUME NEW t \in Tasks, Clean(t) PROVE DirectoryInv'
  <2>1. \A u \in Tasks \ {t} : dir'[u] = dir[u]
    BY <1>0, <1>8, FlagSet DEF Clean
  <2>2. /\ monitor[t] = "clean" /\ monitor'[t] = "done" /\ pc'[t] = pc[t]
        /\ \A u \in Tasks \ {t} : pc'[u] = pc[u] /\ monitor'[u] = monitor[u]
    BY <1>0, <1>8 DEF Clean, MonitorGoto
  <2>3. Kept(t)'
    BY <1>0, <2>2 DEF Kept
  <2> QED
    BY <1>s, <2>1, <2>2, <2>3
<1>9. ASSUME UNCHANGED <<pc, monitor, dir>> PROVE DirectoryInv'
  BY <1>0, <1>9 DEF DirectoryInv, Kept
<1>10. ASSUME NEW t \in Tasks, RequestEnds(t) \/ Kill(t) \/ ProcessExits(t)
       PROVE  DirectoryInv'
  BY <1>9, <1>10 DEF RequestEnds, Kill, ProcessExits
<1>11. CASE ServerEnds
  BY <1>9, <1>11 DEF ServerEnds
<1>12. CASE UNCHANGED vars
  BY <1>9, <1>12 DEF vars
<1> QED
  BY <1>1, <1>2, <1>3, <1>4, <1>5, <1>6, <1>7, <1>8, <1>10, <1>11, <1>12
     DEF Next, Dispatch, Monitor

-----------------------------------------------------------------------------
(* The count.                                                               *)

\* Only Count and Uncount change the set the count stands for, each by the task
\* it belongs to.
LEMMA CountedStep ==
  ASSUME TypeOK, ControlInv, [Next]_vars
  PROVE  \/ Counted' = Counted /\ active' = active
         \/ \E t \in Tasks \ Counted : Counted' = Counted \cup {t} /\ active' = active + 1
         \/ \E t \in Counted : Counted' = Counted \ {t} /\ active' = active - 1
<1> DEFINE Same == Counted' = Counted /\ active' = active
<1> USE DEF TypeOK, ControlInv, Counted, InProgress, Uncounted, Goto, MonitorGoto
<1>1. ASSUME NEW t \in Tasks, Call(t) PROVE Same
  BY <1>1 DEF Call
<1>2. ASSUME NEW t \in Tasks, CheckCapacity(t) PROVE Same
  BY <1>2 DEF CheckCapacity
<1>3. ASSUME NEW t \in Tasks, MakeDir(t) \/ WriteTask(t) PROVE Same
  BY <1>3 DEF MakeDir, WriteTask
<1>4. ASSUME NEW t \in Tasks, StartProcess(t) PROVE Same
  BY <1>4 DEF StartProcess
<1>5. ASSUME NEW t \in Tasks, Count(t)
      PROVE  t \notin Counted /\ Counted' = Counted \cup {t} /\ active' = active + 1
  BY <1>5 DEF Count
<1>6. ASSUME NEW t \in Tasks, ReturnHandle(t) PROVE Same
  BY <1>6 DEF ReturnHandle
<1>7. ASSUME NEW t \in Tasks, Wait(t) PROVE Same
  BY <1>7 DEF Wait
<1>8. ASSUME NEW t \in Tasks, Uncount(t)
      PROVE  t \in Counted /\ Counted' = Counted \ {t} /\ active' = active - 1
  BY <1>8 DEF Uncount
<1>9. ASSUME NEW t \in Tasks, Forget(t) \/ Clean(t) PROVE Same
  BY <1>9 DEF Forget, Clean
<1>10. ASSUME NEW t \in Tasks, RequestEnds(t) \/ Kill(t) \/ ProcessExits(t) PROVE Same
  BY <1>10 DEF RequestEnds, Kill, ProcessExits
<1>11. CASE ServerEnds \/ UNCHANGED vars
  BY <1>11 DEF ServerEnds, vars
<1> HIDE DEF Same, TypeOK, ControlInv, Counted, InProgress, Uncounted, Goto, MonitorGoto
<1>12. ASSUME NEW t \in Tasks,
              \/ Call(t) \/ Dispatch(t) \/ Monitor(t)
              \/ RequestEnds(t) \/ Kill(t) \/ ProcessExits(t)
       PROVE  Same \/ Count(t) \/ Uncount(t)
  BY <1>1, <1>2, <1>3, <1>4, <1>6, <1>7, <1>9, <1>10, <1>12 DEF Dispatch, Monitor
<1>13. CASE Same
  BY <1>13 DEF Same
<1>14. CASE \E t \in Tasks : Count(t) \/ Uncount(t)
  BY <1>5, <1>8, <1>14
<1> QED
  BY <1>11, <1>12, <1>13, <1>14 DEF Next

\* The counter stays exact, and so never goes below zero.
LEMMA StepCount == IInv /\ [Next]_vars => CountIsExact' /\ active' \in Nat
<1> SUFFICES ASSUME IInv, [Next]_vars PROVE CountIsExact' /\ active' \in Nat
  OBVIOUS
<1>1. IsFiniteSet(Counted) /\ Cardinality(Counted) \in Nat /\ active = Cardinality(Counted)
  BY Finite DEF IInv, CapacityInv, CountIsExact
<1>2. CASE Counted' = Counted /\ active' = active
  BY <1>1, <1>2 DEF CountIsExact
<1>3. ASSUME NEW t \in Tasks \ Counted, Counted' = Counted \cup {t}, active' = active + 1
      PROVE  CountIsExact' /\ active' \in Nat
  BY <1>1, <1>3, FS_AddElement DEF CountIsExact
<1>4. ASSUME NEW t \in Counted, Counted' = Counted \ {t}, active' = active - 1
      PROVE  CountIsExact' /\ active' \in Nat
  <2>1. Cardinality(Counted \ {t}) = Cardinality(Counted) - 1
    BY <1>1, <1>4, FS_RemoveElement
  <2>2. Cardinality(Counted \ {t}) \in Nat
    BY <1>1, FS_RemoveElement, FS_CardinalityType
  <2> QED
    BY <1>1, <1>4, <2>1, <2>2 DEF CountIsExact
<1> QED
  BY <1>2, <1>3, <1>4, CountedStep DEF IInv

-----------------------------------------------------------------------------
(* The limit.                                                               *)

\* A step begins one call, or lets one call past the capacity check, or leaves
\* no more calls and slots taken than there were.
LEMMA SlotsStep ==
  ASSUME TypeOK, ControlInv, [Next]_vars
  PROVE  \/ /\ Begun' = Begun /\ Calls' \subseteq Calls /\ Holding' \subseteq Holding
         \/ \E t \in Tasks : /\ Begun' = Begun \cup {t}
                             /\ Cardinality(Calls) < Callers
                             /\ Calls' = Calls \cup {t}
                             /\ Holding' = Holding
         \/ \E t \in Calls : /\ active < MaxConcurrency
                             /\ Begun' = Begun /\ Calls' = Calls
                             /\ Holding' \subseteq Calls \cup Counted
<1>a. ASSUME NEW t \in Tasks, CheckCapacity(t), active < MaxConcurrency
      PROVE  Goto(t, "check", "mkdir") /\ UNCHANGED monitor
  <2>1. ~(active >= MaxConcurrency)
    BY <1>a, BoundsAssumption DEF TypeOK
  <2> QED
    BY <1>a, <2>1 DEF CheckCapacity
<1>b. ASSUME NEW t \in Tasks, CheckCapacity(t), ~(active < MaxConcurrency)
      PROVE  Goto(t, "check", "error") /\ UNCHANGED monitor
  <2>1. active >= MaxConcurrency
    BY <1>b, BoundsAssumption DEF TypeOK
  <2> QED
    BY <1>b, <2>1 DEF CheckCapacity
<1> DEFINE Fewer == Begun' = Begun /\ Calls' \subseteq Calls /\ Holding' \subseteq Holding
<1> USE DEF TypeOK, ControlInv, Begun, Calls, Holding, Counted, InProgress,
            Uncounted, Goto, MonitorGoto
<1>1. ASSUME NEW t \in Tasks, Call(t)
      PROVE  /\ Begun' = Begun \cup {t}
             /\ Cardinality(Calls) < Callers
             /\ Calls' = Calls \cup {t}
             /\ Holding' = Holding
  BY <1>1 DEF Call
<1>2. ASSUME NEW t \in Tasks, CheckCapacity(t), active < MaxConcurrency
      PROVE  /\ t \in Calls
             /\ Begun' = Begun /\ Calls' = Calls
             /\ Holding' \subseteq Calls \cup Counted
  BY <1>2, <1>a
<1>3. ASSUME NEW t \in Tasks, CheckCapacity(t), ~(active < MaxConcurrency) PROVE Fewer
  BY <1>3, <1>b
<1>4. ASSUME NEW t \in Tasks, MakeDir(t) PROVE Fewer
  BY <1>4 DEF MakeDir
<1>5. ASSUME NEW t \in Tasks, WriteTask(t) PROVE Fewer
  BY <1>5 DEF WriteTask
<1>6. ASSUME NEW t \in Tasks, StartProcess(t) PROVE Fewer
  BY <1>6 DEF StartProcess
<1>7. ASSUME NEW t \in Tasks, Count(t) PROVE Fewer
  BY <1>7 DEF Count
<1>8. ASSUME NEW t \in Tasks, ReturnHandle(t) PROVE Fewer
  BY <1>8 DEF ReturnHandle
<1>9. ASSUME NEW t \in Tasks, Wait(t) \/ Uncount(t) PROVE Fewer
  BY <1>9 DEF Wait, Uncount
<1>10. ASSUME NEW t \in Tasks, Forget(t) \/ Clean(t) PROVE Fewer
  BY <1>10 DEF Forget, Clean
<1>11. ASSUME NEW t \in Tasks, RequestEnds(t) \/ Kill(t) \/ ProcessExits(t) PROVE Fewer
  BY <1>11 DEF RequestEnds, Kill, ProcessExits
<1>12. CASE ServerEnds \/ UNCHANGED vars
  BY <1>12 DEF ServerEnds, vars
<1> HIDE DEF Fewer, TypeOK, ControlInv, Begun, Calls, Holding, Counted, InProgress,
            Uncounted, Goto, MonitorGoto
<1>13. ASSUME NEW t \in Tasks,
              \/ Call(t) \/ Dispatch(t) \/ Monitor(t)
              \/ RequestEnds(t) \/ Kill(t) \/ ProcessExits(t)
       PROVE  Fewer \/ Call(t) \/ (CheckCapacity(t) /\ active < MaxConcurrency)
  BY <1>3, <1>4, <1>5, <1>6, <1>7, <1>8, <1>9, <1>10, <1>11, <1>13 DEF Dispatch, Monitor
<1>14. CASE Fewer
  BY <1>14 DEF Fewer
<1>15. CASE \E t \in Tasks : Call(t) \/ (CheckCapacity(t) /\ active < MaxConcurrency)
  BY <1>1, <1>2, <1>15
<1> QED
  BY <1>12, <1>13, <1>14, <1>15 DEF Next

\* A call that passes the check finds fewer slots counted than the limit, and no
\* more other calls in progress than there may be.
LEMMA StepCapacity == IInv /\ [Next]_vars => CapacityInv'
<1> SUFFICES ASSUME IInv, [Next]_vars PROVE CapacityInv'
  OBVIOUS
<1>1. /\ IsFiniteSet(Begun) /\ IsFiniteSet(Calls)
      /\ IsFiniteSet(Counted) /\ IsFiniteSet(Holding)
      /\ Cardinality(Calls) \in Nat /\ Cardinality(Counted) \in Nat
      /\ Cardinality(Holding) \in Nat
  BY Finite DEF IInv, CapacityInv
<1>2. CASE Begun' = Begun /\ Calls' \subseteq Calls /\ Holding' \subseteq Holding
  <2>1. /\ Cardinality(Calls') <= Cardinality(Calls)
        /\ Cardinality(Holding') <= Cardinality(Holding)
        /\ Cardinality(Calls') \in Nat /\ Cardinality(Holding') \in Nat
    BY <1>1, <1>2, FS_Subset, FS_CardinalityType
  <2> QED
    BY <1>1, <1>2, <2>1, BoundsAssumption DEF IInv, CapacityInv
<1>3. ASSUME NEW t \in Tasks,
             /\ Begun' = Begun \cup {t}
             /\ Cardinality(Calls) < Callers
             /\ Calls' = Calls \cup {t}
             /\ Holding' = Holding
      PROVE  CapacityInv'
  <2>1. IsFiniteSet(Begun')
    BY <1>1, <1>3, FS_AddElement
  <2>2. /\ Cardinality(Calls') \in Nat
        /\ Cardinality(Calls') <= Cardinality(Calls) + 1
    <3>1. /\ IsFiniteSet(Calls \cup {t})
          /\ Cardinality(Calls \cup {t}) =
               IF t \in Calls THEN Cardinality(Calls) ELSE Cardinality(Calls) + 1
      BY <1>1, FS_AddElement
    <3> QED
      BY <1>1, <1>3, <3>1
  <2> QED
    BY <1>1, <1>3, <2>1, <2>2, BoundsAssumption DEF IInv, CapacityInv
<1>4. ASSUME active < MaxConcurrency,
             Begun' = Begun, Calls' = Calls,
             Holding' \subseteq Calls \cup Counted
      PROVE  CapacityInv'
  <2>1. Cardinality(Counted) <= MaxConcurrency - 1 /\ Cardinality(Calls) <= Callers
    BY <1>1, <1>4, BoundsAssumption DEF IInv, CountIsExact, CapacityInv
  <2>2. /\ IsFiniteSet(Calls \cup Counted)
        /\ Cardinality(Calls \cup Counted) =
             Cardinality(Calls) + Cardinality(Counted) - Cardinality(Calls \cap Counted)
    BY <1>1, FS_Union
  <2>3. Cardinality(Calls \cap Counted) \in Nat
    BY <1>1, FS_Intersection, FS_CardinalityType
  <2>4. Cardinality(Holding') <= Cardinality(Calls \cup Counted) /\ Cardinality(Holding') \in Nat
    BY <1>4, <2>2, FS_Subset, FS_CardinalityType
  <2>5. Cardinality(Holding') <= MaxConcurrency + Callers - 1
    BY <1>1, <2>1, <2>2, <2>3, <2>4, BoundsAssumption
  <2> QED
    BY <1>1, <1>4, <2>1, <2>5 DEF CapacityInv
<1> QED
  BY <1>2, <1>3, <1>4, SlotsStep DEF IInv

\* A process that runs holds a slot.
LEMMA RunningHolds == TypeOK /\ ControlInv => Running \subseteq Holding
  BY DEF TypeOK, ControlInv, Running, Holding, Counted, InProgress, Uncounted

-----------------------------------------------------------------------------
(* The theorems.                                                            *)

\* Everything above, for every state the driver can reach.
THEOREM Inductive == Spec => []IInv
<1>1. IInv /\ [Next]_vars => IInv'
  <2> SUFFICES ASSUME IInv, [Next]_vars PROVE IInv'
    OBVIOUS
  <2>1. TypeOK' /\ ControlInv'
    BY StepControl, StepCount DEF IInv, TypeOK
  <2> QED
    BY <2>1, StepCount, StepCapacity, StepDirectory DEF IInv
<1> QED
  BY InitIInv, <1>1, PTL DEF Spec

\* Types of every call, process and goroutine; the counter never goes below zero.
THEOREM TypeCorrect == Spec => []TypeOK
  BY Inductive, PTL DEF IInv

\* Runtime.active counts the started processes whose exit was not yet noticed,
\* however the calls and the goroutines interleave.
THEOREM CountStaysExact == Spec => []CountIsExact
  BY Inductive, PTL DEF IInv

\* The limit is passed by no more than the other calls in progress.
THEOREM OvershootStaysBounded == Spec => []OvershootIsBounded
<1>1. IInv => OvershootIsBounded
  <2> SUFFICES ASSUME IInv PROVE OvershootIsBounded
    OBVIOUS
  <2>1. IsFiniteSet(Holding) /\ Cardinality(Holding) \in Nat
    BY Finite DEF IInv, CapacityInv
  <2>2. Running \subseteq Holding
    BY RunningHolds DEF IInv
  <2>3. Cardinality(Running) <= Cardinality(Holding) /\ Cardinality(Running) \in Nat
    BY <2>1, <2>2, FS_Subset, FS_CardinalityType
  <2> QED
    BY <2>1, <2>3, BoundsAssumption DEF IInv, CapacityInv, OvershootIsBounded
<1> QED
  BY Inductive, <1>1, PTL

\* No process runs without its directory, whatever the goroutine that removes it
\* and the end of the server do.
THEOREM DirectoriesAreKept == Spec => []DirectoryIsKept
<1>1. IInv => DirectoryIsKept
  <2> SUFFICES ASSUME IInv, NEW t \in Tasks, process[t] = "running" PROVE dir[t]
    BY DEF DirectoryIsKept
  <2>1. pc[t] \in {"count", "put"} \/ monitor[t] = "wait"
    BY DEF IInv, TypeOK, ControlInv, InProgress, Uncounted
  <2> QED
    BY <2>1 DEF IInv, DirectoryInv
<1> QED
  BY Inductive, <1>1, PTL

-----------------------------------------------------------------------------
(* The contract.                                                            *)

\* Steps of the driver that the contract does not see.
LEMMA Unseen ==
  ASSUME UNCHANGED process,
         \A t \in Tasks : pc[t] \in InProgress <=> pc'[t] \in InProgress,
         \A t \in Tasks : pc[t] \notin InProgress => pc'[t] = pc[t]
  PROVE  UNCHANGED Driver!vars
  BY DEF Driver!vars, InProgress, Uncounted

\* A step that takes the call of one task from one stage of the contract to the
\* next.
LEMMA Advances ==
  ASSUME TypeOK, UNCHANGED process, NEW t \in Tasks,
         NEW to \in InProgress \cup {"idle", "handle", "error"},
         pc' = [pc EXCEPT ![t] = to]
  PROVE  /\ pc[t] = "idle" /\ to \in InProgress => Driver!Call(t)
         /\ pc[t] \in InProgress /\ to = "error" => Driver!ReturnError(t)
         /\ pc[t] \in InProgress /\ to = "handle" /\ process[t] # "none"
              => Driver!ReturnHandle(t)
  BY DEF Driver!Call, Driver!ReturnError, Driver!ReturnHandle, Driver!Advance,
         TypeOK, InProgress, Uncounted

LEMMA StepContract == IInv /\ [Next]_vars => [Driver!Next]_(Driver!vars)
<1> SUFFICES ASSUME IInv, [Next]_vars PROVE Driver!Next \/ UNCHANGED Driver!vars
  OBVIOUS
<1>0. TypeOK /\ ControlInv
  BY DEF IInv
<1> DEFINE Goal == Driver!Next \/ UNCHANGED Driver!vars
<1>1. ASSUME NEW t \in Tasks, NEW from \in InProgress, NEW to \in InProgress,
             Goto(t, from, to), UNCHANGED process
      PROVE  UNCHANGED Driver!vars
  BY <1>0, <1>1, Unseen DEF Goto, TypeOK
<1>2. ASSUME NEW t \in Tasks, NEW from \in InProgress,
             Goto(t, from, "error"), UNCHANGED process
      PROVE  Driver!Next
  BY <1>0, <1>2, Advances DEF Goto, Driver!Next
<1>3. ASSUME NEW t \in Tasks, UNCHANGED <<pc, process>> PROVE UNCHANGED Driver!vars
  BY <1>3, Unseen
<1>4. {"check", "mkdir", "write", "start", "count", "put"} = InProgress
  BY DEF InProgress, Uncounted
<1>5. ASSUME NEW t \in Tasks, Call(t) PROVE Driver!Next
  BY <1>0, <1>4, <1>5, Advances DEF Call, Goto, Driver!Next
<1>6. ASSUME NEW t \in Tasks, CheckCapacity(t) PROVE Goal
  <2>1. Goto(t, "check", "error") \/ Goto(t, "check", "mkdir")
    BY <1>6 DEF CheckCapacity
  <2> QED
    BY <1>1, <1>2, <1>4, <1>6, <2>1 DEF CheckCapacity
<1>7. ASSUME NEW t \in Tasks, MakeDir(t) PROVE Goal
  BY <1>1, <1>2, <1>4, <1>7 DEF MakeDir
<1>8. ASSUME NEW t \in Tasks, WriteTask(t) PROVE Goal
  BY <1>1, <1>2, <1>4, <1>8 DEF WriteTask
<1>9. ASSUME NEW t \in Tasks, StartProcess(t) PROVE Goal
  <2>1. CASE Goto(t, "start", "error") /\ UNCHANGED process
    BY <1>2, <1>4, <2>1
  <2>2. CASE Goto(t, "start", "count") /\ process' = [process EXCEPT ![t] = "running"]
    <3>1. Driver!Start(t)
      BY <1>0, <2>2 DEF Driver!Start, Goto, TypeOK, ControlInv, InProgress, Uncounted
    <3> QED
      BY <3>1 DEF Driver!Next
  <2> QED
    BY <1>9, <2>1, <2>2 DEF StartProcess
<1>10. ASSUME NEW t \in Tasks, Count(t) PROVE Goal
  BY <1>1, <1>4, <1>10 DEF Count
<1>11. ASSUME NEW t \in Tasks, ReturnHandle(t) PROVE Driver!Next
  <2>1. process[t] # "none"
    BY <1>0, <1>11 DEF ReturnHandle, Goto, ControlInv
  <2> QED
    BY <1>0, <1>4, <1>11, <2>1, Advances DEF ReturnHandle, Goto, Driver!Next
<1>12. ASSUME NEW t \in Tasks, Monitor(t) PROVE Goal
  BY <1>3, <1>12 DEF Monitor, Wait, Uncount, Forget, Clean
<1>13. ASSUME NEW t \in Tasks, RequestEnds(t) PROVE Goal
  BY <1>3, <1>13 DEF RequestEnds
<1>14. ASSUME NEW t \in Tasks, Kill(t) \/ ProcessExits(t) PROVE Driver!Next
  <2>1. PICK how \in {"killed", "exited"} :
          /\ process[t] = "running"
          /\ process' = [process EXCEPT ![t] = how]
          /\ UNCHANGED pc
    BY <1>14 DEF Kill, ProcessExits
  <2> DEFINE agent == [u \in Tasks |-> IF process[u] \in {"exited", "killed"}
                                      THEN "gone" ELSE process[u]]
             call  == [u \in Tasks |-> CASE pc[u] = "idle" -> "none"
                                         [] pc[u] \in InProgress -> "pending"
                                         [] OTHER -> pc[u]]
  <2>2. agent[t] = "running" /\ agent' = [agent EXCEPT ![t] = "gone"]
    BY <1>0, <2>1 DEF TypeOK
  <2>3. UNCHANGED call
    BY <2>1
  <2>4. Driver!End(t)
    BY <2>2, <2>3 DEF Driver!End
  <2> QED
    BY <2>4 DEF Driver!Next
<1>15. CASE ServerEnds \/ UNCHANGED vars
  BY <1>15, Unseen DEF ServerEnds, vars
<1> HIDE DEF Goal
<1>16. ASSUME NEW t \in Tasks,
              \/ Call(t) \/ Dispatch(t) \/ Monitor(t)
              \/ RequestEnds(t) \/ Kill(t) \/ ProcessExits(t)
       PROVE  Driver!Next \/ Goal
  BY <1>5, <1>6, <1>7, <1>8, <1>9, <1>10, <1>11, <1>12, <1>13, <1>14, <1>16 DEF Dispatch
<1> QED
  BY <1>15, <1>16 DEF Next, Goal

\* What a caller sees is what RuntimeDriver promises: an agent at most once, none
\* after an error, one behind every handle.  (That the agent of a failed call
\* ends, RuntimeDriver's liveness, is left to the runs.)
THEOREM ImplementsContract == Spec => Driver!Init /\ [][Driver!Next]_(Driver!vars)
<1>1. Init => Driver!Init
  BY DEF Init, Driver!Init, InProgress, Uncounted
<1> QED
  BY <1>1, Inductive, StepContract, PTL DEF Spec
=============================================================================
