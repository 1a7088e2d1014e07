---------------------------- MODULE SchedulerProofs ----------------------------
(***************************************************************************)
(* Proofs about Scheduler for any finite set of workers, any set of        *)
(* coroutines and any number of operations.                                *)
(***************************************************************************)
EXTENDS Scheduler, FiniteSetTheorems, SequenceTheorems, TLAPS

------------------------------------------------------------------------------
(* Queues *)

(* The coroutines a queue of tasks names. *)
Cos(q) == {q[i].co : i \in DOMAIN q}

(* It names none of them twice. *)
Distinct(q) == \A i, j \in DOMAIN q : q[i].co = q[j].co => i = j

(* A task put at the end of the queue, of a coroutine that is not in it. *)
LEMMA AppendTask ==
  ASSUME NEW q \in Seq(Task), NEW t \in Task, Distinct(q), t.co \notin Cos(q)
  PROVE  /\ Append(q, t) \in Seq(Task)
         /\ Cos(Append(q, t)) = Cos(q) \cup {t.co}
         /\ Distinct(Append(q, t))
<1>1. /\ Append(q, t) \in Seq(Task) /\ Len(q) \in Nat
      /\ DOMAIN q = 1 .. Len(q) /\ DOMAIN Append(q, t) = 1 .. Len(q) + 1
      /\ \A i \in 1 .. Len(q) : Append(q, t)[i] = q[i]
      /\ Append(q, t)[Len(q) + 1] = t
  OBVIOUS
<1>2. \A i \in 1 .. Len(q) + 1 : i \in 1 .. Len(q) \/ i = Len(q) + 1
  BY <1>1
<1>3. ASSUME NEW x PROVE x \in Cos(Append(q, t)) <=> x \in Cos(q) \cup {t.co}
  BY <1>1, <1>2 DEF Cos
<1>4. Distinct(Append(q, t))
  BY <1>1, <1>2 DEF Cos, Distinct
<1> QED
  BY <1>1, <1>3, <1>4

(* Taking one task out of the queue leaves a queue of tasks. *)
LEMMA RemoveType ==
  ASSUME NEW q \in Seq(Task), NEW i \in DOMAIN q
  PROVE  Remove(q, i) \in Seq(Task)
BY DEF Remove

(* Taking one task out of the queue leaves the others. *)
LEMMA RemoveTask ==
  ASSUME NEW q \in Seq(Task), NEW i \in DOMAIN q, Distinct(q)
  PROVE  /\ Remove(q, i) \in Seq(Task)
         /\ Cos(Remove(q, i)) = Cos(q) \ {q[i].co}
         /\ Distinct(Remove(q, i))
<1> DEFINE n == Len(q)
           a == SubSeq(q, 1, i - 1)
           b == SubSeq(q, i + 1, n)
           r == Remove(q, i)
<1>1. n \in Nat /\ i \in 1 .. n /\ DOMAIN q = 1 .. n /\ \A j \in 1 .. n : q[j] \in Task
  OBVIOUS
<1>2. /\ a \in Seq(Task) /\ Len(a) = i - 1
      /\ \A j \in 1 .. i - 1 : a[j] = q[j]
  <2>1. 1 \in Int /\ i - 1 \in Int /\ \A j \in 1 .. i - 1 : q[j] \in Task
    BY <1>1
  <2> HIDE DEF n
  <2> QED
    BY <1>1, <2>1, SubSeqProperties
<1>3. /\ b \in Seq(Task) /\ Len(b) = n - i
      /\ \A j \in 1 .. n - i : b[j] = q[i + j]
  <2>1. i + 1 \in Int /\ n \in Int /\ \A j \in i + 1 .. n : q[j] \in Task
    BY <1>1
  <2> HIDE DEF n
  <2> QED
    BY <1>1, <2>1, SubSeqProperties
<1>4. r = a \o b
  BY DEF Remove
<1> HIDE DEF a, b, r, n
<1>5. /\ r \in Seq(Task) /\ Len(r) = n - 1 /\ DOMAIN r = 1 .. n - 1
      /\ \A j \in 1 .. n - 1 : r[j] = IF j < i THEN q[j] ELSE q[j + 1]
  <2>1. /\ r \in Seq(Task) /\ Len(r) = n - 1
        /\ \A j \in 1 .. n - 1 : r[j] = IF j <= i - 1 THEN a[j] ELSE b[j - (i - 1)]
    <3>1. /\ r \in Seq(Task) /\ Len(r) = Len(a) + Len(b)
          /\ \A j \in 1 .. Len(a) + Len(b) : r[j] = IF j <= Len(a) THEN a[j] ELSE b[j - Len(a)]
      BY <1>2, <1>3, <1>4, ConcatProperties
    <3>2. Len(a) = i - 1 /\ Len(a) + Len(b) = n - 1
      BY <1>1, <1>2, <1>3
    <3> QED
      BY <3>1, <3>2
  <2>2. ASSUME NEW j \in 1 .. n - 1 PROVE r[j] = IF j < i THEN q[j] ELSE q[j + 1]
    <3>1. CASE j < i
      <4>1. j \in 1 .. i - 1 /\ j <= i - 1
        BY <1>1, <3>1
      <4>2. r[j] = a[j] /\ a[j] = q[j]
        BY <1>2, <2>1, <4>1
      <4> QED
        BY <3>1, <4>2
    <3>2. CASE ~(j < i)
      <4>1. j - (i - 1) \in 1 .. n - i /\ i + (j - (i - 1)) = j + 1 /\ ~(j <= i - 1)
        BY <1>1, <3>2
      <4>2. r[j] = b[j - (i - 1)]
        BY <2>1, <4>1
      <4>3. b[j - (i - 1)] = q[j + 1]
        BY <1>3, <4>1
      <4> QED
        BY <3>2, <4>2, <4>3
    <3> QED
      BY <3>1, <3>2
  <2> QED
    BY <1>1, <2>1, <2>2
<1>6. Cos(r) = Cos(q) \ {q[i].co}
  <2>1. ASSUME NEW x \in Cos(r) PROVE x \in Cos(q) \ {q[i].co}
    <3>1. PICK j \in 1 .. n - 1 : x = r[j].co
      BY <1>5 DEF Cos
    <3>2. PICK k \in 1 .. n : r[j] = q[k] /\ k # i
      BY <1>1, <1>5
    <3> QED
      BY <1>1, <3>1, <3>2 DEF Cos, Distinct
  <2>2. ASSUME NEW x \in Cos(q) \ {q[i].co} PROVE x \in Cos(r)
    <3>1. PICK k \in 1 .. n : x = q[k].co /\ k # i
      BY <1>1 DEF Cos
    <3>2. PICK j \in 1 .. n - 1 : r[j] = q[k]
      <4>1. CASE k < i
        BY <1>1, <1>5, <4>1
      <4>2. CASE k > i
        <5>1. k - 1 \in 1 .. n - 1 /\ ~(k - 1 < i) /\ (k - 1) + 1 = k
          BY <1>1, <4>2
        <5> QED
          BY <1>5, <5>1
      <4>3. k < i \/ k > i
        BY <1>1, <3>1
      <4> QED
        BY <4>1, <4>2, <4>3
    <3> QED
      BY <1>5, <3>1, <3>2 DEF Cos
  <2> QED
    BY <2>1, <2>2
<1>7. Distinct(r)
  <2> SUFFICES ASSUME NEW j \in 1 .. n - 1, NEW k \in 1 .. n - 1, r[j].co = r[k].co
               PROVE  j = k
    BY <1>5 DEF Distinct
  <2> DEFINE at(l) == IF l < i THEN l ELSE l + 1
  <2>1. \A l \in 1 .. n - 1 : at(l) \in 1 .. n /\ r[l] = q[at(l)]
    BY <1>1, <1>5
  <2>2. at(j) = at(k)
    <3>1. at(j) \in DOMAIN q /\ at(k) \in DOMAIN q
      BY <1>1, <2>1
    <3>2. q[at(j)].co = q[at(k)].co
      BY <2>1
    <3> HIDE DEF at, r
    <3> QED
      BY <3>1, <3>2 DEF Distinct
  <2> QED
    BY <1>1, <2>2
<1> QED
  BY <1>5, <1>6, <1>7 DEF r

------------------------------------------------------------------------------
(* Types and counters *)

Empty   == {"loop", "requeue", "rest", "check", "wait", "drain", "leave", "exit"}
Running == {"run", "spawned", "moved", "yield"}
Leaving == {"switch", "after", "settle"}
Holding == {"got"} \cup Running \cup Leaving

(* A worker has a task exactly while run() handles one; only between the   *)
(* search and the tickle it may or may not have found one.                 *)
Where == \A w \in Worker : /\ pc[w] \in Empty => task[w] = "none"
                           /\ pc[w] \in Holding => task[w] # "none"

(* A set of workers has a cardinality that follows one who joins or goes.  *)
LEMMA WorkerCount ==
  ASSUME NEW S \in SUBSET Worker, NEW w \in Worker
  PROVE  /\ Cardinality(S) \in Nat
         /\ w \notin S => Cardinality(S \cup {w}) = Cardinality(S) + 1
         /\ w \in S => /\ Cardinality(S \ {w}) = Cardinality(S) - 1
                       /\ Cardinality(S) > 0
<1>1. IsFiniteSet(S)
  BY FS_Subset, SchedulerAssumption
<1>2. Cardinality(S) \in Nat /\ (Cardinality(S) = 0 <=> S = {})
  BY <1>1, FS_CardinalityType, FS_EmptySet
<1>3. w \notin S => Cardinality(S \cup {w}) = Cardinality(S) + 1
  BY <1>1, FS_AddElement
<1>4. w \in S => Cardinality(S \ {w}) = Cardinality(S) - 1
  BY <1>1, FS_RemoveElement
<1>5. w \in S => Cardinality(S) > 0
  BY <1>2
<1> QED
  BY <1>2, <1>3, <1>4, <1>5

ActiveSet == {w \in Worker : Active(w)}
IdleSet   == {w \in Worker : Idle(w)}

(* The counters are natural numbers. *)
LEMMA CountersAreNat == CountersExact => active \in Nat /\ idle \in Nat
<1>1. IsFiniteSet(ActiveSet) /\ IsFiniteSet(IdleSet)
  BY FS_Subset, SchedulerAssumption DEF ActiveSet, IdleSet
<1> QED
  BY <1>1, FS_CardinalityType DEF CountersExact, ActiveSet, IdleSet

(* A step on which nobody becomes or ceases to be active or idle. *)
LEMMA SameCounts ==
  ASSUME CountersExact, UNCHANGED <<active, idle>>,
         \A v \in Worker : (Active(v)' <=> Active(v)) /\ (Idle(v)' <=> Idle(v))
  PROVE  CountersExact'
<1>1. ActiveSet' = ActiveSet /\ IdleSet' = IdleSet
  BY DEF ActiveSet, IdleSet
<1> QED
  BY <1>1 DEF CountersExact, ActiveSet, IdleSet

(* A step on which the active or the idle workers change by worker w. *)
LEMMA NewCounts ==
  ASSUME CountersExact, NEW w \in Worker,
         \A v \in Worker \ {w} : (Active(v)' <=> Active(v)) /\ (Idle(v)' <=> Idle(v)),
         \/ active' = active /\ (Active(w)' <=> Active(w))
         \/ active' = active + 1 /\ Active(w)' /\ ~Active(w)
         \/ active' = active - 1 /\ ~Active(w)' /\ Active(w),
         \/ idle' = idle /\ (Idle(w)' <=> Idle(w))
         \/ idle' = idle + 1 /\ Idle(w)' /\ ~Idle(w)
         \/ idle' = idle - 1 /\ ~Idle(w)' /\ Idle(w)
  PROVE  CountersExact'
<1>1. active = Cardinality(ActiveSet) /\ idle = Cardinality(IdleSet)
  BY DEF CountersExact, ActiveSet, IdleSet
<1>2. ActiveSet \in SUBSET Worker /\ IdleSet \in SUBSET Worker
  BY DEF ActiveSet, IdleSet
<1>3. active' = Cardinality(ActiveSet')
  <2>1. CASE active' = active /\ (Active(w)' <=> Active(w))
    <3>1. ActiveSet' = ActiveSet
      BY <2>1 DEF ActiveSet
    <3> QED
      BY <1>1, <2>1, <3>1
  <2>2. CASE active' = active + 1 /\ Active(w)' /\ ~Active(w)
    <3>1. ActiveSet' = ActiveSet \cup {w} /\ w \notin ActiveSet
      BY <2>2 DEF ActiveSet
    <3> QED
      BY <1>1, <1>2, <2>2, <3>1, WorkerCount
  <2>3. CASE active' = active - 1 /\ ~Active(w)' /\ Active(w)
    <3>1. ActiveSet' = ActiveSet \ {w} /\ w \in ActiveSet
      BY <2>3 DEF ActiveSet
    <3> QED
      BY <1>1, <1>2, <2>3, <3>1, WorkerCount
  <2> QED
    BY <2>1, <2>2, <2>3
<1>4. idle' = Cardinality(IdleSet')
  <2>1. CASE idle' = idle /\ (Idle(w)' <=> Idle(w))
    <3>1. IdleSet' = IdleSet
      BY <2>1 DEF IdleSet
    <3> QED
      BY <1>1, <2>1, <3>1
  <2>2. CASE idle' = idle + 1 /\ Idle(w)' /\ ~Idle(w)
    <3>1. IdleSet' = IdleSet \cup {w} /\ w \notin IdleSet
      BY <2>2 DEF IdleSet
    <3> QED
      BY <1>1, <1>2, <2>2, <3>1, WorkerCount
  <2>3. CASE idle' = idle - 1 /\ ~Idle(w)' /\ Idle(w)
    <3>1. IdleSet' = IdleSet \ {w} /\ w \in IdleSet
      BY <2>3 DEF IdleSet
    <3> QED
      BY <1>1, <1>2, <2>3, <3>1, WorkerCount
  <2> QED
    BY <2>1, <2>2, <2>3
<1> QED
  BY <1>3, <1>4 DEF CountersExact, ActiveSet, IdleSet

(* The mark of a worker without a task is not a coroutine. *)
LEMMA NoneIsNoCo == "none" \notin Co
BY SchedulerAssumption

(* The entries of the queue are tasks. *)
LEMMA QueueEntries ==
  ASSUME queue \in Seq(Task), NEW i \in DOMAIN queue
  PROVE  queue[i] \in Task /\ queue[i].co \in Co /\ queue[i].co # "none"
<1>1. queue[i] \in Task
  OBVIOUS
<1> QED
  BY <1>1, NoneIsNoCo DEF Task

(* What every action keeps, with the two counters it decides on. *)
Counted == TypeOK /\ Where /\ CountersExact

(* A type that holds whenever the rest of it does and the counters are exact. *)
LEMMA CountedType ==
  ASSUME CountersExact', Where',
         queue' \in Seq(Task), waiting' \in SUBSET Co,
         state' \in [Co -> {"INIT", "EXEC", "HOLD", "READY", "TERM"}],
         ops' \in 0..MaxOps, pc' \in [Worker -> Pc], task' \in [Worker -> Co \cup {"none"}],
         skipped' \in SUBSET Worker, over' \in SUBSET Worker,
         pipe' \in {"empty", "ready", "full"}, ext' \in BOOLEAN,
         asked' \in BOOLEAN, nudges' \in Nat
  PROVE  Counted'
<1>1. active' \in Nat /\ idle' \in Nat
  <2>1. IsFiniteSet(ActiveSet') /\ IsFiniteSet(IdleSet')
    BY FS_Subset, SchedulerAssumption DEF ActiveSet, IdleSet
  <2> QED
    BY <2>1, FS_CardinalityType DEF CountersExact, ActiveSet, IdleSet
<1> QED
  BY <1>1 DEF Counted, TypeOK

(* run() taking a task. *)
LEMMA CountedPick ==
  ASSUME Counted, NEW w \in Worker, Pick(w)
  PROVE  Counted'
<1> USE DEF Counted, TypeOK, Where, Empty, Running, Leaving, Holding
<1>1. PICK i \in DOMAIN queue :
        /\ queue' = Remove(queue, i)
        /\ task' = [task EXCEPT ![w] = queue[i].co]
        /\ skipped' \in {skipped \cup {w}, skipped \ {w}}
  BY DEF Pick
<1>2. /\ active' = active + 1 /\ To(w, "loop", "tickle")
      /\ UNCHANGED <<state, waiting, ops, over, idle, pipe, ext, stop>>
  BY DEF Pick
<1>3. queue[i] \in Task /\ queue[i].co \in Co /\ queue[i].co # "none"
  BY NoneIsNoCo, QueueEntries
<1>4. queue' \in Seq(Task)
  BY <1>1, RemoveType
<1>5. Where'
  BY <1>1, <1>2, <1>3 DEF To
<1>6. CountersExact'
  <2>1. \A v \in Worker \ {w} : (Active(v)' <=> Active(v)) /\ (Idle(v)' <=> Idle(v))
    BY <1>1, <1>2 DEF Active, Idle, To
  <2>2. Active(w)' /\ ~Active(w) /\ ~Idle(w)' /\ ~Idle(w)
    BY <1>1, <1>2, <1>3 DEF Active, Idle, To
  <2> QED
    BY <1>2, <2>1, <2>2, NewCounts
<1>7. task' \in [Worker -> Co \cup {"none"}] /\ pc' \in [Worker -> Pc]
  BY <1>1, <1>2, <1>3 DEF To, Pc
<1> QED
  BY <1>1, <1>2, <1>4, <1>5, <1>6, <1>7, CountedType DEF stop

(* schedule() puts tasks into the queue. *)
LEMMA PushType ==
  ASSUME queue \in Seq(Task), NEW c \in Co, NEW pin \in Pins \cup {"any"}, Push(c, pin)
  PROVE  queue' \in Seq(Task)
<1>1. [co |-> c, pin |-> pin] \in Task
  BY SchedulerAssumption DEF Task
<1> QED
  BY <1>1 DEF Push

(* Types, and counters that are exact, are kept by every step. *)
LEMMA CountedStep ==
  ASSUME Counted, [Next]_vars
  PROVE  Counted'
<1> USE DEF Counted, TypeOK, Where, Empty, Running, Leaving, Holding
<1>1. ASSUME NEW w \in Worker, Pick(w) PROVE Counted'
  BY <1>1, CountedPick
<1>2. ASSUME NEW w \in Worker, PickNothing(w) PROVE Counted'
  <2> USE DEF PickNothing, To, stop, Pc
  <2>1. queue' \in Seq(Task)
    BY <1>2
  <2>2. Where'
    BY <1>2
  <2>3. CountersExact'
    <3>1. \A v \in Worker : (Active(v)' <=> Active(v)) /\ (Idle(v)' <=> Idle(v))
      BY <1>2 DEF Active, Idle
    <3>2. UNCHANGED <<active, idle>>
      BY <1>2
    <3> QED
      BY <3>1, <3>2, SameCounts
  <2>4. task' \in [Worker -> Co \cup {"none"}] /\ pc' \in [Worker -> Pc] /\ ops' \in 0 .. MaxOps
    BY <1>2, SchedulerAssumption
  <2> QED
    BY <1>2, <2>1, <2>2, <2>3, <2>4, CountedType
<1>3. ASSUME NEW w \in Worker, TickleOthers(w) PROVE Counted'
  <2> USE DEF TickleOthers, To, Tickle, stop, Pc
  <2>1. queue' \in Seq(Task)
    BY <1>3
  <2>2. Where'
    BY <1>3
  <2>3. CountersExact'
    <3>1. \A v \in Worker : (Active(v)' <=> Active(v)) /\ (Idle(v)' <=> Idle(v))
      BY <1>3 DEF Active, Idle
    <3>2. UNCHANGED <<active, idle>>
      BY <1>3
    <3> QED
      BY <3>1, <3>2, SameCounts
  <2>4. task' \in [Worker -> Co \cup {"none"}] /\ pc' \in [Worker -> Pc] /\ ops' \in 0 .. MaxOps
    BY <1>3, SchedulerAssumption
  <2> QED
    BY <1>3, <2>1, <2>2, <2>3, <2>4, CountedType
<1>4. ASSUME NEW w \in Worker, SwapIn(w) PROVE Counted'
  <2> USE DEF SwapIn, To, run, stop, Pc
  <2>1. queue' \in Seq(Task)
    BY <1>4
  <2>2. Where'
    BY <1>4
  <2>3. CountersExact'
    <3>1. \A v \in Worker : (Active(v)' <=> Active(v)) /\ (Idle(v)' <=> Idle(v))
      BY <1>4 DEF Active, Idle
    <3>2. UNCHANGED <<active, idle>>
      BY <1>4
    <3> QED
      BY <3>1, <3>2, SameCounts
  <2>4. task' \in [Worker -> Co \cup {"none"}] /\ pc' \in [Worker -> Pc] /\ ops' \in 0 .. MaxOps
    BY <1>4, SchedulerAssumption
  <2> QED
    BY <1>4, <2>1, <2>2, <2>3, <2>4, CountedType
<1>5. ASSUME NEW w \in Worker, NEW c \in Co, NEW pin \in Pins \cup {"any"}, Spawn(w, c, pin)
      PROVE  Counted'
  <2> USE DEF Spawn, To, Operation, run, stop, Pc
  <2>1. queue' \in Seq(Task)
    BY <1>5, PushType
  <2>2. Where'
    BY <1>5
  <2>3. CountersExact'
    <3>1. \A v \in Worker : (Active(v)' <=> Active(v)) /\ (Idle(v)' <=> Idle(v))
      BY <1>5 DEF Active, Idle
    <3>2. UNCHANGED <<active, idle>>
      BY <1>5
    <3> QED
      BY <3>1, <3>2, SameCounts
  <2>4. task' \in [Worker -> Co \cup {"none"}] /\ pc' \in [Worker -> Pc] /\ ops' \in 0 .. MaxOps
    BY <1>5, SchedulerAssumption
  <2> QED
    BY <1>5, <2>1, <2>2, <2>3, <2>4, CountedType
<1>6. ASSUME NEW w \in Worker, NEW v \in Pins, SwitchTo(w, v) PROVE Counted'
  <2> USE DEF SwitchTo, To, Operation, run, stop, Pc
  <2>1. queue' \in Seq(Task)
    BY <1>6, PushType
  <2>2. Where'
    BY <1>6
  <2>3. CountersExact'
    <3>1. \A u \in Worker : (Active(u)' <=> Active(u)) /\ (Idle(u)' <=> Idle(u))
      BY <1>6 DEF Active, Idle
    <3>2. UNCHANGED <<active, idle>>
      BY <1>6
    <3> QED
      BY <3>1, <3>2, SameCounts
  <2>4. task' \in [Worker -> Co \cup {"none"}] /\ pc' \in [Worker -> Pc] /\ ops' \in 0 .. MaxOps
    BY <1>6, SchedulerAssumption
  <2> QED
    BY <1>6, <2>1, <2>2, <2>3, <2>4, CountedType
<1>7. ASSUME NEW w \in Worker, Scheduled(w) PROVE Counted'
  <2> USE DEF Scheduled, To, Tickle, run, stop, Pc
  <2>1. queue' \in Seq(Task)
    BY <1>7
  <2>2. Where'
    BY <1>7
  <2>3. CountersExact'
    <3>1. \A v \in Worker : (Active(v)' <=> Active(v)) /\ (Idle(v)' <=> Idle(v))
      BY <1>7 DEF Active, Idle
    <3>2. UNCHANGED <<active, idle>>
      BY <1>7
    <3> QED
      BY <3>1, <3>2, SameCounts
  <2>4. task' \in [Worker -> Co \cup {"none"}] /\ pc' \in [Worker -> Pc] /\ ops' \in 0 .. MaxOps
    BY <1>7, SchedulerAssumption
  <2> QED
    BY <1>7, <2>1, <2>2, <2>3, <2>4, CountedType
<1>8. ASSUME NEW w \in Worker, Await(w) PROVE Counted'
  <2> USE DEF Await, To, Operation, run, stop, Pc
  <2>1. queue' \in Seq(Task)
    BY <1>8
  <2>2. Where'
    BY <1>8
  <2>3. CountersExact'
    <3>1. \A v \in Worker : (Active(v)' <=> Active(v)) /\ (Idle(v)' <=> Idle(v))
      BY <1>8 DEF Active, Idle
    <3>2. UNCHANGED <<active, idle>>
      BY <1>8
    <3> QED
      BY <3>1, <3>2, SameCounts
  <2>4. task' \in [Worker -> Co \cup {"none"}] /\ pc' \in [Worker -> Pc] /\ ops' \in 0 .. MaxOps
    BY <1>8, SchedulerAssumption
  <2> QED
    BY <1>8, <2>1, <2>2, <2>3, <2>4, CountedType
<1>9. ASSUME NEW w \in Worker, YieldToHold(w) \/ YieldToReady(w) \/ Terminate(w) PROVE Counted'
  <2> USE DEF YieldToHold, YieldToReady, Terminate, To, Leaves, Operation, run, stop, Pc
  <2>1. queue' \in Seq(Task)
    BY <1>9
  <2>2. Where'
    BY <1>9
  <2>3. CountersExact'
    <3>1. \A v \in Worker : (Active(v)' <=> Active(v)) /\ (Idle(v)' <=> Idle(v))
      BY <1>9 DEF Active, Idle
    <3>2. UNCHANGED <<active, idle>>
      BY <1>9
    <3> QED
      BY <3>1, <3>2, SameCounts
  <2>4. task' \in [Worker -> Co \cup {"none"}] /\ pc' \in [Worker -> Pc] /\ ops' \in 0 .. MaxOps
    BY <1>9, SchedulerAssumption
  <2> QED
    BY <1>9, <2>1, <2>2, <2>3, <2>4, CountedType
<1>10. ASSUME NEW w \in Worker, SwapOut(w) PROVE Counted'
  <2> USE DEF SwapOut, To, stop, Pc
  <2>1. queue' \in Seq(Task)
    BY <1>10
  <2>2. Where'
    BY <1>10
  <2>3. CountersExact'
    <3>1. \A v \in Worker : (Active(v)' <=> Active(v)) /\ (Idle(v)' <=> Idle(v))
      BY <1>10 DEF Active, Idle
    <3>2. UNCHANGED <<active, idle>>
      BY <1>10
    <3> QED
      BY <3>1, <3>2, SameCounts
  <2>4. task' \in [Worker -> Co \cup {"none"}] /\ pc' \in [Worker -> Pc] /\ ops' \in 0 .. MaxOps
    BY <1>10, SchedulerAssumption
  <2> QED
    BY <1>10, <2>1, <2>2, <2>3, <2>4, CountedType
<1>11. ASSUME NEW w \in Worker, Deactivate(w) PROVE Counted'
  <2> USE DEF Deactivate, To, stop, Pc
  <2>1. queue' \in Seq(Task)
    BY <1>11
  <2>2. Where'
    BY <1>11
  <2>3. CountersExact'
    <3>1. \A v \in Worker \ {w} : (Active(v)' <=> Active(v)) /\ (Idle(v)' <=> Idle(v))
      BY <1>11 DEF Active, Idle
    <3>2. active' = active - 1 /\ ~Active(w)' /\ Active(w) /\ idle' = idle /\ ~Idle(w)' /\ ~Idle(w)
      BY <1>11 DEF Active, Idle
    <3> QED
      BY <3>1, <3>2, NewCounts
  <2>4. task' \in [Worker -> Co \cup {"none"}] /\ pc' \in [Worker -> Pc] /\ ops' \in 0 .. MaxOps
    BY <1>11, SchedulerAssumption
  <2> QED
    BY <1>11, <2>1, <2>2, <2>3, <2>4, CountedType
<1>12. ASSUME NEW w \in Worker, Settle(w) PROVE Counted'
  <2> USE DEF Settle, To, Leaves, stop, Pc
  <2>1. queue' \in Seq(Task)
    BY <1>12, PushType
  <2>2. Where'
    BY <1>12
  <2>3. CountersExact'
    <3>1. \A v \in Worker : (Active(v)' <=> Active(v)) /\ (Idle(v)' <=> Idle(v))
      BY <1>12 DEF Active, Idle
    <3>2. UNCHANGED <<active, idle>>
      BY <1>12
    <3> QED
      BY <3>1, <3>2, SameCounts
  <2>4. task' \in [Worker -> Co \cup {"none"}] /\ pc' \in [Worker -> Pc] /\ ops' \in 0 .. MaxOps
    BY <1>12, SchedulerAssumption
  <2> QED
    BY <1>12, <2>1, <2>2, <2>3, <2>4, CountedType
<1>13. ASSUME NEW w \in Worker, Requeued(w) PROVE Counted'
  <2> USE DEF Requeued, To, Tickle, stop, Pc
  <2>1. queue' \in Seq(Task)
    BY <1>13
  <2>2. Where'
    BY <1>13
  <2>3. CountersExact'
    <3>1. \A v \in Worker : (Active(v)' <=> Active(v)) /\ (Idle(v)' <=> Idle(v))
      BY <1>13 DEF Active, Idle
    <3>2. UNCHANGED <<active, idle>>
      BY <1>13
    <3> QED
      BY <3>1, <3>2, SameCounts
  <2>4. task' \in [Worker -> Co \cup {"none"}] /\ pc' \in [Worker -> Pc] /\ ops' \in 0 .. MaxOps
    BY <1>13, SchedulerAssumption
  <2> QED
    BY <1>13, <2>1, <2>2, <2>3, <2>4, CountedType
<1>14. ASSUME NEW w \in Worker, Rest(w) PROVE Counted'
  <2> USE DEF Rest, To, stop, Pc
  <2>1. queue' \in Seq(Task)
    BY <1>14
  <2>2. Where'
    BY <1>14
  <2>3. CountersExact'
    <3>1. \A v \in Worker \ {w} : (Active(v)' <=> Active(v)) /\ (Idle(v)' <=> Idle(v))
      BY <1>14 DEF Active, Idle
    <3>2. /\ active' = active /\ ~Active(w)' /\ ~Active(w)
          /\ \/ idle' = idle /\ ~Idle(w)' /\ ~Idle(w)
             \/ idle' = idle + 1 /\ Idle(w)' /\ ~Idle(w)
      BY <1>14 DEF Active, Idle
    <3> QED
      BY <3>1, <3>2, NewCounts
  <2>4. task' \in [Worker -> Co \cup {"none"}] /\ pc' \in [Worker -> Pc] /\ ops' \in 0 .. MaxOps
    BY <1>14, SchedulerAssumption
  <2> QED
    BY <1>14, <2>1, <2>2, <2>3, <2>4, CountedType
<1>15. ASSUME NEW w \in Worker, Check(w) PROVE Counted'
  <2> USE DEF Check, To, stop, Pc
  <2>1. queue' \in Seq(Task)
    BY <1>15
  <2>2. Where'
    BY <1>15
  <2>3. CountersExact'
    <3>1. \A v \in Worker : (Active(v)' <=> Active(v)) /\ (Idle(v)' <=> Idle(v))
      BY <1>15 DEF Active, Idle
    <3>2. UNCHANGED <<active, idle>>
      BY <1>15
    <3> QED
      BY <3>1, <3>2, SameCounts
  <2>4. task' \in [Worker -> Co \cup {"none"}] /\ pc' \in [Worker -> Pc] /\ ops' \in 0 .. MaxOps
    BY <1>15, SchedulerAssumption
  <2> QED
    BY <1>15, <2>1, <2>2, <2>3, <2>4, CountedType
<1>16. ASSUME NEW w \in Worker, Wakes(w) \/ TimesOut(w) \/ Drain(w) PROVE Counted'
  <2> USE DEF Wakes, TimesOut, Drain, To, stop, Pc
  <2>1. queue' \in Seq(Task)
    BY <1>16
  <2>2. Where'
    BY <1>16
  <2>3. CountersExact'
    <3>1. \A v \in Worker : (Active(v)' <=> Active(v)) /\ (Idle(v)' <=> Idle(v))
      BY <1>16 DEF Active, Idle
    <3>2. UNCHANGED <<active, idle>>
      BY <1>16
    <3> QED
      BY <3>1, <3>2, SameCounts
  <2>4. task' \in [Worker -> Co \cup {"none"}] /\ pc' \in [Worker -> Pc] /\ ops' \in 0 .. MaxOps
    BY <1>16, SchedulerAssumption
  <2> QED
    BY <1>16, <2>1, <2>2, <2>3, <2>4, CountedType
<1>17. ASSUME NEW w \in Worker, Leave(w) PROVE Counted'
  <2> USE DEF Leave, To, stop, Pc
  <2>1. queue' \in Seq(Task)
    BY <1>17
  <2>2. Where'
    BY <1>17
  <2>3. CountersExact'
    <3>1. \A v \in Worker \ {w} : (Active(v)' <=> Active(v)) /\ (Idle(v)' <=> Idle(v))
      BY <1>17 DEF Active, Idle
    <3>2. /\ active' = active /\ ~Active(w)' /\ ~Active(w)
          /\ idle' = idle - 1 /\ ~Idle(w)' /\ Idle(w)
      BY <1>17 DEF Active, Idle
    <3> QED
      BY <3>1, <3>2, NewCounts
  <2>4. task' \in [Worker -> Co \cup {"none"}] /\ pc' \in [Worker -> Pc] /\ ops' \in 0 .. MaxOps
    BY <1>17, SchedulerAssumption
  <2> QED
    BY <1>17, <2>1, <2>2, <2>3, <2>4, CountedType
<1>18. ASSUME NEW c \in Co, NEW pin \in Pins \cup {"any"}, Wake(c, pin) PROVE Counted'
  <2> USE DEF Wake, run, stop
  <2>1. queue' \in Seq(Task)
    BY <1>18, PushType
  <2>2. Where'
    BY <1>18
  <2>3. CountersExact'
    <3>1. \A v \in Worker : (Active(v)' <=> Active(v)) /\ (Idle(v)' <=> Idle(v))
      BY <1>18 DEF Active, Idle
    <3>2. UNCHANGED <<active, idle>>
      BY <1>18
    <3> QED
      BY <3>1, <3>2, SameCounts
  <2>4. task' \in [Worker -> Co \cup {"none"}] /\ pc' \in [Worker -> Pc] /\ ops' \in 0 .. MaxOps
    BY <1>18, SchedulerAssumption
  <2> QED
    BY <1>18, <2>1, <2>2, <2>3, <2>4, CountedType
<1>19. ASSUME Woke \/ Stop \/ Nudge PROVE Counted'
  <2> USE DEF Woke, Stop, Nudge, Tickle, run, stop
  <2>1. queue' \in Seq(Task)
    BY <1>19
  <2>2. Where'
    BY <1>19
  <2>3. CountersExact'
    <3>1. \A v \in Worker : (Active(v)' <=> Active(v)) /\ (Idle(v)' <=> Idle(v))
      BY <1>19 DEF Active, Idle
    <3>2. UNCHANGED <<active, idle>>
      BY <1>19
    <3> QED
      BY <3>1, <3>2, SameCounts
  <2>4. task' \in [Worker -> Co \cup {"none"}] /\ pc' \in [Worker -> Pc] /\ ops' \in 0 .. MaxOps
    BY <1>19, SchedulerAssumption
  <2>5. nudges' \in Nat
    <3>1. Cardinality(Worker) \in Nat
      BY SchedulerAssumption, FS_CardinalityType
    <3> QED
      BY <1>19, <3>1
  <2> QED
    BY <1>19, <2>1, <2>2, <2>3, <2>4, <2>5, CountedType
<1>20. ASSUME UNCHANGED vars PROVE Counted'
  <2> USE DEF vars, run, stop
  <2>1. queue' \in Seq(Task)
    BY <1>20
  <2>2. Where'
    BY <1>20
  <2>3. CountersExact'
    <3>1. \A v \in Worker : (Active(v)' <=> Active(v)) /\ (Idle(v)' <=> Idle(v))
      BY <1>20 DEF Active, Idle
    <3>2. UNCHANGED <<active, idle>>
      BY <1>20
    <3> QED
      BY <3>1, <3>2, SameCounts
  <2>4. task' \in [Worker -> Co \cup {"none"}] /\ pc' \in [Worker -> Pc] /\ ops' \in 0 .. MaxOps
    BY <1>20, SchedulerAssumption
  <2> QED
    BY <1>20, <2>1, <2>2, <2>3, <2>4, CountedType
<1> QED
  BY <1>1, <1>2, <1>3, <1>4, <1>5, <1>6, <1>7, <1>8, <1>9, <1>10,
     <1>11, <1>12, <1>13, <1>14, <1>15, <1>16, <1>17, <1>18, <1>19, <1>20 DEF Next, Step, Body

(* The scheduler starts with everybody in the loop and nobody active. *)
LEMMA CountedInit == Init => Counted
<1> SUFFICES ASSUME Init PROVE Counted
  OBVIOUS
<1>1. Where
  BY DEF Init, Where, Empty, Holding, Running, Leaving
<1>2. CountersExact
  <2>1. ActiveSet = {} /\ IdleSet = {}
    BY DEF Init, ActiveSet, IdleSet, Active, Idle
  <2> QED
    BY <2>1, FS_EmptySet DEF Init, CountersExact, ActiveSet, IdleSet
<1>3. TypeOK
  <2>1. queue \in Seq(Task) /\ ops \in 0 .. MaxOps /\ active \in Nat /\ idle \in Nat /\ nudges \in Nat
    BY SchedulerAssumption DEF Init
  <2> QED
    BY <2>1 DEF Init, TypeOK, Pc
<1> QED
  BY <1>1, <1>2, <1>3 DEF Counted

(* Types, places in run() and counters are right in every state. *)
LEMMA AlwaysCounted == Spec => []Counted
BY CountedInit, CountedStep, PTL DEF Spec

(* The type invariant of Scheduler holds in every state. *)
THEOREM TypeCorrect == Spec => []TypeOK
BY AlwaysCounted, PTL DEF Counted

(* m_activeThreadCount and m_idleThreadCount, on which stopping() and      *)
(* tickle() decide, are exact in every state.                              *)
THEOREM CountersHold == Spec => []CountersExact
BY AlwaysCounted, PTL DEF Counted

------------------------------------------------------------------------------
(* Where a coroutine is *)

Queued == Cos(queue)
Once   == Distinct(queue)
Taken  == Queued \cup waiting   \* scheduled, or to be scheduled by somebody

(* A coroutine is on one worker at most. *)
Single == \A v, w \in Worker : task[v] = task[w] /\ task[v] # "none" => v = w

(* What is in the queue is there once, nobody may schedule it again, and   *)
(* it has not ended.                                                       *)
Apart == /\ Once
         /\ \A c \in Queued : c \notin waiting
         /\ \A c \in Taken : state[c] # "TERM"

(* What is scheduled while it is on a worker is on its way out of it.      *)
GoingOut == \A w \in Worker : task[w] \in Taken => pc[w] \in {"moved", "yield"} \cup Leaving

(* The state of what is on a worker, along run(). *)
StateOf(w) ==
    /\ pc[w] \in {"tickle", "got"} /\ task[w] # "none" => state[task[w]] \notin {"EXEC", "TERM"}
    /\ pc[w] \in Running => state[task[w]] = "EXEC"
    /\ pc[w] \in Leaving => /\ state[task[w]] # "EXEC"
                            /\ task[w] \in Taken => state[task[w]] = "HOLD"

Places == Counted /\ Single /\ Apart /\ GoingOut /\ \A w \in Worker : StateOf(w)

(* schedule() of a coroutine that is not in the queue. *)
LEMMA PushPlaces ==
  ASSUME queue \in Seq(Task), Once,
         NEW c \in Co, c \notin Queued, NEW pin \in Pins \cup {"any"}, Push(c, pin)
  PROVE  Queued' = Queued \cup {c} /\ Once'
<1>1. [co |-> c, pin |-> pin] \in Task
  BY SchedulerAssumption DEF Task
<1> QED
  BY <1>1, AppendTask DEF Push, Queued, Once

(* The queue names coroutines. *)
LEMMA QueuedAreCo == queue \in Seq(Task) => Queued \subseteq Co
BY QueueEntries DEF Queued, Cos

(* Nobody takes a coroutine that is on a worker already. *)
LEMMA PickPlaces ==
  ASSUME ~Overlap, Places, NEW w \in Worker, Pick(w)
  PROVE  Places'
<1> USE DEF Places, Counted, TypeOK
<1>1. PICK i \in DOMAIN queue :
        /\ TakesFrom(w, i) /\ ~InSwitch(queue[i].co)
        /\ queue' = Remove(queue, i)
        /\ task' = [task EXCEPT ![w] = queue[i].co]
  BY DEF Pick
<1> DEFINE c == queue[i].co
<1>2. To(w, "loop", "tickle") /\ UNCHANGED <<state, waiting>>
  BY DEF Pick
<1>3. c \in Co /\ c # "none" /\ c \in Queued
  BY QueueEntries DEF Queued, Cos
<1>4. Queued' = Queued \ {c} /\ Once'
  BY <1>1, RemoveTask DEF Apart, Queued, Once
<1>5. state[c] \notin {"EXEC", "TERM"}
  BY <1>1, <1>3 DEF TakesFrom, Eligible, Apart, Taken
<1> HIDE DEF c
<1>6. \A v \in Worker : task[v] # c
  <2> SUFFICES ASSUME NEW v \in Worker, task[v] = c PROVE FALSE
    OBVIOUS
  <2>1. pc[v] \in {"moved", "yield"} \cup Leaving
    BY <1>3 DEF GoingOut, Taken
  <2>2. CASE pc[v] \in {"moved", "yield"}
    BY <1>5, <2>2 DEF StateOf, Running
  <2>3. CASE pc[v] \in Leaving
    BY <1>1, <2>3 DEF InSwitch, Leaving, c
  <2> QED
    BY <2>1, <2>2, <2>3
<1>7. task' = [task EXCEPT ![w] = c]
  BY <1>1 DEF c
<1>8. Counted'
  BY CountedStep DEF Next, Step
<1>9. Single'
  BY <1>3, <1>6, <1>7 DEF Single
<1>10. Apart'
  BY <1>2, <1>4 DEF Apart, Taken
<1>11. GoingOut'
  BY <1>2, <1>3, <1>4, <1>7 DEF GoingOut, Apart, Taken, To, Leaving
<1>12. \A v \in Worker : StateOf(v)'
  BY <1>2, <1>4, <1>5, <1>7 DEF StateOf, Taken, To, Running, Leaving
<1> QED
  BY <1>8, <1>9, <1>10, <1>11, <1>12

(* Every step leaves a coroutine in one place. *)
LEMMA PlacesStep ==
  ASSUME ~Overlap, Places, [Next]_vars
  PROVE  Places'
<1> USE DEF Places, Counted, TypeOK, Where, Empty, Running, Leaving, Holding
<1>0. Counted'
  BY CountedStep
<1>1. ASSUME NEW w \in Worker, Pick(w) PROVE Places'
  BY <1>1, PickPlaces
<1>2. ASSUME NEW w \in Worker, PickNothing(w) PROVE Places'
  <2> USE DEF PickNothing, To, stop
  <2>1. Queued' = Queued /\ (Once' <=> Once)
    BY <1>2 DEF Queued, Once
  <2>2. Single'
    BY <1>2 DEF Single
  <2>3. Apart'
    BY <1>2, <2>1 DEF Apart, Taken, StateOf, GoingOut
  <2>4. GoingOut'
    BY <1>2, <2>1 DEF GoingOut, Taken, Single
  <2>5. \A u \in Worker : StateOf(u)'
    BY <1>2, <2>1 DEF StateOf, Taken, GoingOut, Single
  <2> QED
    BY <1>0, <2>2, <2>3, <2>4, <2>5
<1>3. ASSUME NEW w \in Worker, TickleOthers(w) PROVE Places'
  <2> USE DEF TickleOthers, To, Tickle, stop
  <2>1. Queued' = Queued /\ (Once' <=> Once)
    BY <1>3 DEF Queued, Once
  <2>2. Single'
    BY <1>3 DEF Single
  <2>3. Apart'
    BY <1>3, <2>1 DEF Apart, Taken, StateOf, GoingOut
  <2>4. GoingOut'
    BY <1>3, <2>1 DEF GoingOut, Taken, Single
  <2>5. \A u \in Worker : StateOf(u)'
    BY <1>3, <2>1 DEF StateOf, Taken, GoingOut, Single
  <2> QED
    BY <1>0, <2>2, <2>3, <2>4, <2>5
<1>4. ASSUME NEW w \in Worker, SwapIn(w) PROVE Places'
  <2> USE DEF SwapIn, To, run, stop
  <2>1. Queued' = Queued /\ (Once' <=> Once)
    BY <1>4 DEF Queued, Once
  <2>2. Single'
    BY <1>4 DEF Single
  <2>3. Apart'
    BY <1>4, <2>1 DEF Apart, Taken, StateOf, GoingOut
  <2>4. GoingOut'
    BY <1>4, <2>1 DEF GoingOut, Taken, Single
  <2>5. \A u \in Worker : StateOf(u)'
    BY <1>4, <2>1 DEF StateOf, Taken, GoingOut, Single
  <2> QED
    BY <1>0, <2>2, <2>3, <2>4, <2>5
<1>5. ASSUME NEW w \in Worker, NEW c \in Co, NEW pin \in Pins \cup {"any"}, Spawn(w, c, pin)
      PROVE  Places'
  <2> USE DEF Spawn, To, Operation, run, stop
  <2>1. Queued' = Queued \cup {c} /\ Once'
    BY <1>5, PushPlaces DEF Apart
  <2>2. Single'
    BY <1>5 DEF Single
  <2>3. Apart'
    BY <1>5, <2>1 DEF Apart, Taken, StateOf, GoingOut
  <2>4. GoingOut'
    BY <1>5, <2>1 DEF GoingOut, Taken, Single
  <2>5. \A u \in Worker : StateOf(u)'
    BY <1>5, <2>1 DEF StateOf, Taken, GoingOut, Single
  <2> QED
    BY <1>0, <2>2, <2>3, <2>4, <2>5
<1>6. ASSUME NEW w \in Worker, NEW v \in Pins, SwitchTo(w, v) PROVE Places'
  <2> USE DEF SwitchTo, To, Operation, run, stop
  <2>1. Queued' = Queued \cup {task[w]} /\ Once'
    BY <1>6, PushPlaces DEF Apart, GoingOut, Taken
  <2>2. Single'
    BY <1>6 DEF Single
  <2>3. Apart'
    BY <1>6, <2>1 DEF Apart, Taken, StateOf, GoingOut
  <2>4. GoingOut'
    BY <1>6, <2>1 DEF GoingOut, Taken, Single
  <2>5. \A u \in Worker : StateOf(u)'
    BY <1>6, <2>1 DEF StateOf, Taken, GoingOut, Single
  <2> QED
    BY <1>0, <2>2, <2>3, <2>4, <2>5
<1>7. ASSUME NEW w \in Worker, Scheduled(w) PROVE Places'
  <2> USE DEF Scheduled, To, Tickle, run, stop
  <2>1. Queued' = Queued /\ (Once' <=> Once)
    BY <1>7 DEF Queued, Once
  <2>2. Single'
    BY <1>7 DEF Single
  <2>3. Apart'
    BY <1>7, <2>1 DEF Apart, Taken, StateOf, GoingOut
  <2>4. GoingOut'
    BY <1>7, <2>1 DEF GoingOut, Taken, Single
  <2>5. \A u \in Worker : StateOf(u)'
    BY <1>7, <2>1 DEF StateOf, Taken, GoingOut, Single
  <2> QED
    BY <1>0, <2>2, <2>3, <2>4, <2>5
<1>8. ASSUME NEW w \in Worker, Await(w) PROVE Places'
  <2> USE DEF Await, To, Operation, run, stop
  <2>1. Queued' = Queued /\ (Once' <=> Once)
    BY <1>8 DEF Queued, Once
  <2>2. Single'
    BY <1>8 DEF Single
  <2>3. Apart'
    BY <1>8, <2>1 DEF Apart, Taken, StateOf, GoingOut
  <2>4. GoingOut'
    BY <1>8, <2>1 DEF GoingOut, Taken, Single
  <2>5. \A u \in Worker : StateOf(u)'
    BY <1>8, <2>1 DEF StateOf, Taken, GoingOut, Single
  <2> QED
    BY <1>0, <2>2, <2>3, <2>4, <2>5
<1>9. ASSUME NEW w \in Worker, YieldToHold(w) PROVE Places'
  <2> USE DEF YieldToHold, To, Leaves, stop
  <2>1. Queued' = Queued /\ (Once' <=> Once)
    BY <1>9 DEF Queued, Once
  <2>2. Single'
    BY <1>9 DEF Single
  <2>3. Apart'
    BY <1>9, <2>1 DEF Apart, Taken, StateOf, GoingOut
  <2>4. GoingOut'
    BY <1>9, <2>1 DEF GoingOut, Taken, Single
  <2>5. \A u \in Worker : StateOf(u)'
    BY <1>9, <2>1 DEF StateOf, Taken, GoingOut, Single
  <2> QED
    BY <1>0, <2>2, <2>3, <2>4, <2>5
<1>10. ASSUME NEW w \in Worker, YieldToReady(w) \/ Terminate(w) PROVE Places'
  <2> USE DEF YieldToReady, Terminate, To, Leaves, Operation, run, stop
  <2>1. Queued' = Queued /\ (Once' <=> Once)
    BY <1>10 DEF Queued, Once
  <2>2. Single'
    BY <1>10 DEF Single
  <2>3. Apart'
    <3>1. task[w] \notin Taken
      BY <1>10 DEF GoingOut
    <3>2. waiting' = waiting /\ \A c \in Co \ {task[w]} : state'[c] = state[c]
      BY <1>10
    <3>3. \A c \in Taken : c \in Co
      BY QueuedAreCo DEF Taken
    <3> QED
      BY <2>1, <3>1, <3>2, <3>3 DEF Apart, Taken
  <2>4. GoingOut'
    BY <1>10, <2>1 DEF GoingOut, Taken, Single
  <2>5. \A u \in Worker : StateOf(u)'
    BY <1>10, <2>1 DEF StateOf, Taken, GoingOut, Single
  <2> QED
    BY <1>0, <2>2, <2>3, <2>4, <2>5
<1>11. ASSUME NEW w \in Worker, SwapOut(w) \/ Deactivate(w) PROVE Places'
  <2> USE DEF SwapOut, Deactivate, To, stop
  <2>1. Queued' = Queued /\ (Once' <=> Once)
    BY <1>11 DEF Queued, Once
  <2>2. Single'
    BY <1>11 DEF Single
  <2>3. Apart'
    BY <1>11, <2>1 DEF Apart, Taken, StateOf, GoingOut
  <2>4. GoingOut'
    BY <1>11, <2>1 DEF GoingOut, Taken, Single
  <2>5. \A u \in Worker : StateOf(u)'
    BY <1>11, <2>1 DEF StateOf, Taken, GoingOut, Single
  <2> QED
    BY <1>0, <2>2, <2>3, <2>4, <2>5
<1>12. ASSUME NEW w \in Worker, Settle(w) PROVE Places'
  <2> USE DEF Settle, To, Leaves, stop
  <2>1. /\ Queued' = IF state[task[w]] = "READY" THEN Queued \cup {task[w]} ELSE Queued
        /\ Once'
    BY <1>12, PushPlaces DEF Apart, StateOf, Taken, Queued, Once
  <2>2. Single'
    BY <1>12 DEF Single
  <2>3. Apart'
    BY <1>12, <2>1 DEF Apart, Taken, StateOf, GoingOut
  <2>4. GoingOut'
    <3>1. Taken' \subseteq Taken \cup {task[w]}
      BY <1>12, <2>1 DEF Taken
    <3>2. task'[w] = "none" /\ "none" \notin Taken' \cup {task[w]}
      BY <1>12, <3>1, NoneIsNoCo, QueuedAreCo DEF Taken
    <3>3. \A v \in Worker \ {w} : /\ task'[v] = task[v] /\ pc'[v] = pc[v]
                                  /\ task[v] # task[w]
      BY <1>12, <3>2 DEF Single
    <3> QED
      BY <3>1, <3>2, <3>3 DEF GoingOut
  <2>5. \A u \in Worker : StateOf(u)'
    BY <1>12, <2>1 DEF StateOf, Taken, GoingOut, Single
  <2> QED
    BY <1>0, <2>2, <2>3, <2>4, <2>5
<1>13. ASSUME NEW w \in Worker, Requeued(w) PROVE Places'
  <2> USE DEF Requeued, To, Tickle, stop
  <2>1. Queued' = Queued /\ (Once' <=> Once)
    BY <1>13 DEF Queued, Once
  <2>2. Single'
    BY <1>13 DEF Single
  <2>3. Apart'
    BY <1>13, <2>1 DEF Apart, Taken, StateOf, GoingOut
  <2>4. GoingOut'
    BY <1>13, <2>1 DEF GoingOut, Taken, Single
  <2>5. \A u \in Worker : StateOf(u)'
    BY <1>13, <2>1 DEF StateOf, Taken, GoingOut, Single
  <2> QED
    BY <1>0, <2>2, <2>3, <2>4, <2>5
<1>14. ASSUME NEW w \in Worker,
              Rest(w) \/ Check(w) \/ Wakes(w) \/ TimesOut(w) \/ Drain(w) \/ Leave(w)
       PROVE  Places'
  <2> USE DEF Rest, Check, Wakes, TimesOut, Drain, Leave, To, stop
  <2>1. Queued' = Queued /\ (Once' <=> Once)
    BY <1>14 DEF Queued, Once
  <2>2. Single'
    BY <1>14 DEF Single
  <2>3. Apart'
    BY <1>14, <2>1 DEF Apart, Taken, StateOf, GoingOut
  <2>4. GoingOut'
    BY <1>14, <2>1 DEF GoingOut, Taken, Single
  <2>5. \A u \in Worker : StateOf(u)'
    BY <1>14, <2>1 DEF StateOf, Taken, GoingOut, Single
  <2> QED
    BY <1>0, <2>2, <2>3, <2>4, <2>5
<1>15. ASSUME NEW c \in Co, NEW pin \in Pins \cup {"any"}, Wake(c, pin) PROVE Places'
  <2> USE DEF Wake, run, stop
  <2>1. Queued' = Queued \cup {c} /\ Once'
    BY <1>15, PushPlaces DEF Apart
  <2>2. Single'
    BY <1>15 DEF Single
  <2>3. Apart'
    BY <1>15, <2>1 DEF Apart, Taken, StateOf, GoingOut
  <2>4. GoingOut'
    BY <1>15, <2>1 DEF GoingOut, Taken, Single
  <2>5. \A u \in Worker : StateOf(u)'
    BY <1>15, <2>1 DEF StateOf, Taken, GoingOut, Single
  <2> QED
    BY <1>0, <2>2, <2>3, <2>4, <2>5
<1>16. ASSUME Woke \/ Stop \/ Nudge PROVE Places'
  <2> USE DEF Woke, Stop, Nudge, Tickle, run, stop
  <2>1. Queued' = Queued /\ (Once' <=> Once)
    BY <1>16 DEF Queued, Once
  <2>2. Single'
    BY <1>16 DEF Single
  <2>3. Apart'
    BY <1>16, <2>1 DEF Apart, Taken, StateOf, GoingOut
  <2>4. GoingOut'
    BY <1>16, <2>1 DEF GoingOut, Taken, Single
  <2>5. \A u \in Worker : StateOf(u)'
    BY <1>16, <2>1 DEF StateOf, Taken, GoingOut, Single
  <2> QED
    BY <1>0, <2>2, <2>3, <2>4, <2>5
<1>17. ASSUME UNCHANGED vars PROVE Places'
  <2> USE DEF vars, run, stop
  <2>1. Queued' = Queued /\ (Once' <=> Once)
    BY <1>17 DEF Queued, Once
  <2>2. Single'
    BY <1>17 DEF Single
  <2>3. Apart'
    BY <1>17, <2>1 DEF Apart, Taken, StateOf, GoingOut
  <2>4. GoingOut'
    BY <1>17, <2>1 DEF GoingOut, Taken, Single
  <2>5. \A u \in Worker : StateOf(u)'
    BY <1>17, <2>1 DEF StateOf, Taken, GoingOut, Single
  <2> QED
    BY <1>0, <2>2, <2>3, <2>4, <2>5
<1> QED
  BY <1>1, <1>2, <1>3, <1>4, <1>5, <1>6, <1>7, <1>8, <1>9, <1>10,
     <1>11, <1>12, <1>13, <1>14, <1>15, <1>16, <1>17 DEF Next, Step, Body

(* Every coroutine waits to be scheduled for the first time. *)
LEMMA PlacesInit == Init => Places
<1> SUFFICES ASSUME Init PROVE Places
  OBVIOUS
<1>1. Queued = {} /\ Once
  BY DEF Init, Queued, Once, Cos, Distinct
<1>2. "none" \notin Co
  BY NoneIsNoCo
<1> QED
  BY <1>1, <1>2, CountedInit
     DEF Init, Places, Single, Apart, GoingOut, StateOf, Taken, Running, Leaving

(* A coroutine is in its place, in every state of a scheduler whose workers *)
(* do not overlap.                                                         *)
LEMMA AlwaysPlaced ==
  ASSUME ~Overlap
  PROVE  Spec => []Places
BY PlacesInit, PlacesStep, PTL DEF Spec

(* A set without two elements has at most one. *)
LEMMA AtMostOne ==
  ASSUME NEW S, \A x, y \in S : x = y
  PROVE  Cardinality(S) <= 1
<1>1. CASE S = {}
  BY <1>1, FS_EmptySet
<1>2. ASSUME NEW x \in S PROVE Cardinality(S) <= 1
  <2>1. S = {x}
    OBVIOUS
  <2> QED
    BY <2>1, FS_Singleton
<1> QED
  BY <1>1, <1>2

(* A coroutine is waiting, in the queue once, on one worker or over: no    *)
(* interleaving of workers, yields and other threads that schedule loses   *)
(* it, doubles it or revives it, as long as no worker picks a coroutine    *)
(* between its yield and the end of the switch (Scheduler::run).           *)
THEOREM OnePlaceHolds ==
  ASSUME ~Overlap
  PROVE  Spec => []OnePlace
<1>1. Places => OnePlace
  <2> SUFFICES ASSUME Places, NEW c \in Co
               PROVE  LET holders == {w \in Worker : task[w] = c}
                      IN  /\ Cardinality(holders) <= 1
                          /\ Cardinality(Entries(c)) <= 1
                          /\ c \in waiting => Entries(c) = {}
                          /\ state[c] = "TERM" => Entries(c) = {} /\ c \notin waiting
                          /\ \A w \in holders : c \in waiting \/ Entries(c) # {} =>
                                pc[w] \in {"moved", "yield", "switch", "after", "settle"}
    BY DEF OnePlace
  <2> DEFINE holders == {w \in Worker : task[w] = c}
  <2>1. Cardinality(holders) <= 1
    <3>1. \A v, w \in holders : v = w
      BY NoneIsNoCo DEF Places, Single
    <3> QED
      BY <3>1, AtMostOne
  <2>2. Cardinality(Entries(c)) <= 1
    <3>1. \A i, j \in Entries(c) : i = j
      BY DEF Places, Apart, Once, Distinct, Entries
    <3> QED
      BY <3>1, AtMostOne
  <2>3. Entries(c) # {} => c \in Queued
    BY DEF Entries, Queued, Cos
  <2>4. c \in waiting => Entries(c) = {}
    BY <2>3 DEF Places, Apart
  <2>5. state[c] = "TERM" => Entries(c) = {} /\ c \notin waiting
    BY <2>3 DEF Places, Apart, Taken
  <2>6. \A w \in holders : c \in waiting \/ Entries(c) # {} =>
           pc[w] \in {"moved", "yield", "switch", "after", "settle"}
    BY <2>3 DEF Places, GoingOut, Taken, Leaving
  <2> QED
    BY <2>1, <2>2, <2>4, <2>5, <2>6
<1> QED
  BY <1>1, AlwaysPlaced, PTL

(* The assertions of swapIn() and of the yields on m_state never fail.     *)
THEOREM StateAssertsHold ==
  ASSUME ~Overlap
  PROVE  Spec => []StateAsserts
<1>1. Places => StateAsserts
  BY DEF Places, Counted, Where, Holding, Running, StateOf, StateAsserts
<1> QED
  BY <1>1, AlwaysPlaced, PTL

(* No coroutine runs on two threads at once. *)
THEOREM OneThreadHolds ==
  ASSUME ~Overlap
  PROVE  Spec => []OneThread
<1>1. Places => OneThread
  BY DEF Places, Counted, Where, Holding, Running, Leaving, Single, OneThread
<1> QED
  BY <1>1, AlwaysPlaced, PTL
==============================================================================
