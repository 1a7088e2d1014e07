------------------------------- MODULE Scheduler -------------------------------
(***************************************************************************)
(* The coroutine scheduler: Scheduler::run() on every worker thread, with  *)
(* the idle coroutine and the wakeup pipe of IOManager, the states of      *)
(* Coroutine and its yields, schedule(), switchTo() and stop().            *)
(*                                                                         *)
(* A callback task is a coroutine that was never run: run() makes one for  *)
(* it.  What coroutines do is any sequence of at most MaxOps operations:   *)
(* yield, wait to be woken, schedule another, switch threads.  Timers and  *)
(* fd events are the external thread that wakes them.                      *)
(***************************************************************************)
EXTENDS Naturals, Sequences, FiniteSets

CONSTANTS Worker,   \* threads of the scheduler
          Co,       \* coroutines
          MaxOps,   \* bound of the model: operations of all coroutines
          Pins,     \* workers a task may be pinned to
          Overlap   \* may a worker pick a coroutine that is InSwitch?

ASSUME SchedulerAssumption ==
    /\ IsFiniteSet(Worker) /\ MaxOps \in Nat /\ Pins \subseteq Worker /\ Overlap \in BOOLEAN
    /\ Worker \cap {"any"} = {} /\ Co \cap {"none"} = {}

VARIABLES
  queue,    \* m_taskQueue
  state,    \* Coroutine::m_state
  waiting,  \* coroutines somebody may schedule once: new, or waiting to be woken
  ops,      \* operations the coroutines have left
  pc,       \* where each worker is in run()
  task,     \* the task it took, or "none"
  skipped,  \* tickle_me: it passed over a task of another thread
  over,     \* workers whose idle coroutine has terminated
  active,   \* m_activeThreadCount
  idle,     \* m_idleThreadCount
  pipe,     \* m_tickleFds: "empty", "ready" (epoll has an edge to report) or "full"
  ext,      \* the external thread is about to tickle()
  asked,    \* stop() was called: m_autoStop, and not m_isRunning
  nudges    \* its calls of tickle() to come

run  == <<pc, task, skipped, over>>
stop == <<asked, nudges>>
vars == <<queue, state, waiting, ops, run, active, idle, pipe, ext, stop>>

Task    == [co : Co, pin : Worker \cup {"any"}]
Pc == {"loop", "tickle", "got", "run", "spawned", "moved", "yield", "switch", "after",
       "settle", "requeue", "rest", "check", "wait", "drain", "leave", "exit"}

Init == /\ queue = <<>> /\ waiting = Co
        /\ state = [c \in Co |-> "INIT"] /\ ops = MaxOps
        /\ pc = [w \in Worker |-> "loop"] /\ task = [w \in Worker |-> "none"]
        /\ skipped = {} /\ over = {}
        /\ active = 0 /\ idle = 0 /\ pipe = "empty" /\ ext = FALSE
        /\ asked = FALSE /\ nudges = 0

To(w, from, to) == pc[w] = from /\ pc' = [pc EXCEPT ![w] = to]

(* IOManager::tickle(): nobody idle, nothing to do. *)
Tickle == pipe' = IF idle > 0 THEN "ready" ELSE pipe

Push(c, pin) == queue' = Append(queue, [co |-> c, pin |-> pin])

------------------------------------------------------------------------------
(* run(): taking a task *)

(* c is on its way out of worker v: its state says HOLD or READY, and it   *)
(* still runs on its stack, or run() has not looked at the state yet.      *)
InSwitch(c) == \E v \in Worker : task[v] = c /\ pc[v] \in {"switch", "after", "settle"}

(* Mutants: a pinned task is never anybody's; the state is not looked at. *)
HereUnpinned(w, t)     == t.pin = "any"
EligibleAnyState(w, t) == t.pin \in {"any", w}

Here(w, t)     == t.pin \in {"any", w}
Eligible(w, t) == Here(w, t) /\ state[t.co] # "EXEC"

TakesFrom(w, i) == /\ Eligible(w, queue[i])
                   /\ \A j \in 1 .. i - 1 : ~Eligible(w, queue[j])
Passes(w, i) == \E j \in 1 .. i - 1 : ~Here(w, queue[j])

Remove(s, i) == SubSeq(s, 1, i - 1) \o SubSeq(s, i + 1, Len(s))

(* Under m_mutex.  Without Overlap no worker comes while a coroutine it    *)
(* would take is InSwitch.                                                 *)
Pick(w) == \E i \in DOMAIN queue :
    /\ TakesFrom(w, i)
    /\ Overlap \/ ~InSwitch(queue[i].co)
    /\ queue' = Remove(queue, i)
    /\ task' = [task EXCEPT ![w] = queue[i].co]
    /\ skipped' = IF Passes(w, i) THEN skipped \cup {w} ELSE skipped \ {w}
    /\ active' = active + 1
    /\ To(w, "loop", "tickle")
    /\ UNCHANGED <<state, waiting, ops, over, idle, pipe, ext, stop>>

PickNothing(w) ==
    /\ \A i \in DOMAIN queue : ~Eligible(w, queue[i])
    /\ task' = [task EXCEPT ![w] = "none"]
    /\ skipped' = IF Passes(w, Len(queue) + 1) THEN skipped \cup {w} ELSE skipped \ {w}
    /\ To(w, "loop", "tickle")
    /\ UNCHANGED <<queue, state, waiting, ops, over, active, idle, pipe, ext, stop>>

TickleOthers(w) ==
    /\ To(w, "tickle", IF task[w] = "none" THEN "rest" ELSE "got")
    /\ IF w \in skipped THEN Tickle ELSE UNCHANGED pipe
    /\ UNCHANGED <<queue, state, waiting, ops, task, skipped, over, active, idle, ext, stop>>

------------------------------------------------------------------------------
(* run(): the coroutine, and what run() does when it comes back *)

SwapIn(w) ==
    /\ To(w, "got", "run")
    /\ state' = [state EXCEPT ![task[w]] = "EXEC"]
    /\ UNCHANGED <<queue, waiting, ops, task, skipped, over, active, idle, pipe, ext, stop>>

Operation(w) == pc[w] = "run" /\ ops > 0 /\ ops' = ops - 1

(* schedule() of another coroutine; its tickle() is outside the lock. *)
Spawn(w, c, pin) ==
    /\ Operation(w) /\ c \in waiting
    /\ waiting' = waiting \ {c}
    /\ Push(c, pin)
    /\ To(w, "run", IF queue = <<>> THEN "spawned" ELSE "run")
    /\ UNCHANGED <<state, task, skipped, over, active, idle, pipe, ext, stop>>

(* switchTo(): schedule() of the running coroutine itself, then a yield. *)
SwitchTo(w, v) ==
    /\ Operation(w) /\ v # w
    /\ Push(task[w], v)
    /\ To(w, "run", IF queue = <<>> THEN "moved" ELSE "yield")
    /\ UNCHANGED <<state, waiting, task, skipped, over, active, idle, pipe, ext, stop>>

Scheduled(w) ==
    /\ To(w, "spawned", "run") \/ To(w, "moved", "yield")
    /\ Tickle
    /\ UNCHANGED <<queue, state, waiting, ops, task, skipped, over, active, idle, ext, stop>>

(* The coroutine gives itself to whoever will wake it, and yields. *)
Await(w) ==
    /\ Operation(w)
    /\ waiting' = waiting \cup {task[w]}
    /\ To(w, "run", "yield")
    /\ UNCHANGED <<queue, state, task, skipped, over, active, idle, pipe, ext, stop>>

Leaves(w, s) == state' = [state EXCEPT ![task[w]] = s]

YieldToHold(w) ==
    /\ To(w, "yield", "switch") /\ Leaves(w, "HOLD")
    /\ UNCHANGED <<queue, waiting, ops, task, skipped, over, active, idle, pipe, ext, stop>>

YieldToReady(w) ==
    /\ Operation(w)
    /\ To(w, "run", "switch") /\ Leaves(w, "READY")
    /\ UNCHANGED <<queue, waiting, task, skipped, over, active, idle, pipe, ext, stop>>

(* MainFunc(): the coroutine's function returned or threw. *)
Terminate(w) ==
    /\ To(w, "run", "switch") /\ Leaves(w, "TERM")
    /\ UNCHANGED <<queue, waiting, ops, task, skipped, over, active, idle, pipe, ext, stop>>

(* swapcontext() has saved the coroutine and run() continues. *)
SwapOut(w) ==
    /\ To(w, "switch", "after")
    /\ UNCHANGED <<queue, state, waiting, ops, task, skipped, over, active, idle, pipe, ext, stop>>

Deactivate(w) ==
    /\ To(w, "after", "settle")
    /\ active' = active - 1
    /\ UNCHANGED <<queue, state, waiting, ops, task, skipped, over, idle, pipe, ext, stop>>

(* Mutant: whatever has not ended is scheduled again. *)
SettleAgain(w) ==
    /\ To(w, "settle", "loop")
    /\ IF state[task[w]] # "TERM" THEN Push(task[w], "any") ELSE UNCHANGED queue
    /\ task' = [task EXCEPT ![w] = "none"]
    /\ UNCHANGED <<state, waiting, ops, skipped, over, active, idle, pipe, ext, stop>>

(* READY is scheduled again, on any thread, TERM forgotten, the rest HOLD. *)
Settle(w) ==
    /\ LET s == state[task[w]]
       IN  /\ To(w, "settle", IF s = "READY" /\ queue = <<>> THEN "requeue" ELSE "loop")
           /\ IF s = "READY" THEN Push(task[w], "any") ELSE UNCHANGED queue
           /\ Leaves(w, IF s \in {"READY", "TERM"} THEN s ELSE "HOLD")
    /\ task' = [task EXCEPT ![w] = "none"]
    /\ UNCHANGED <<waiting, ops, skipped, over, active, idle, pipe, ext, stop>>

Requeued(w) ==
    /\ To(w, "requeue", "loop")
    /\ Tickle
    /\ UNCHANGED <<queue, state, waiting, ops, task, skipped, over, active, idle, ext, stop>>

------------------------------------------------------------------------------
(* run() without a task, and the idle coroutine of IOManager *)

Rest(w) ==
    /\ To(w, "rest", IF w \in over THEN "exit" ELSE "check")
    /\ idle' = IF w \in over THEN idle ELSE idle + 1
    /\ UNCHANGED <<queue, state, waiting, ops, task, skipped, over, active, pipe, ext, stop>>

(* Mutant: idle workers keep each other from stopping. *)
StoppingAlone == asked /\ queue = <<>> /\ active = 0 /\ idle = 0

(* Scheduler::stopping(), under m_mutex *)
Stopping == asked /\ queue = <<>> /\ active = 0

Check(w) ==
    /\ To(w, "check", IF Stopping THEN "leave" ELSE "wait")
    /\ over' = IF Stopping THEN over \cup {w} ELSE over
    /\ UNCHANGED <<queue, state, waiting, ops, task, skipped, active, idle, pipe, ext, stop>>

(* epoll_wait() returns with the pipe, which one waiter gets, ... *)
Wakes(w) ==
    /\ pipe = "ready" /\ pipe' = "full"
    /\ To(w, "wait", "drain")
    /\ UNCHANGED <<queue, state, waiting, ops, task, skipped, over, active, idle, ext, stop>>

(* ... or after MAX_TIMEOUT at the latest. *)
TimesOut(w) ==
    /\ To(w, "wait", "leave")
    /\ UNCHANGED <<queue, state, waiting, ops, task, skipped, over, active, idle, pipe, ext, stop>>

Drain(w) ==
    /\ To(w, "drain", "leave")
    /\ pipe' = "empty"
    /\ UNCHANGED <<queue, state, waiting, ops, task, skipped, over, active, idle, ext, stop>>

(* The idle coroutine swaps out, for this round or for good. *)
Leave(w) ==
    /\ To(w, "leave", "loop")
    /\ idle' = idle - 1
    /\ UNCHANGED <<queue, state, waiting, ops, task, skipped, over, active, pipe, ext, stop>>

------------------------------------------------------------------------------
(* Other threads *)

Wake(c, pin) ==
    /\ ~ext /\ c \in waiting
    /\ waiting' = waiting \ {c}
    /\ Push(c, pin)
    /\ ext' = (queue = <<>>)
    /\ UNCHANGED <<state, ops, run, active, idle, pipe, stop>>

Woke ==
    /\ ext /\ ext' = FALSE
    /\ Tickle
    /\ UNCHANGED <<queue, state, waiting, ops, run, active, idle, stop>>

Stop ==
    /\ ~asked /\ asked' = TRUE
    /\ nudges' = Cardinality(Worker)
    /\ UNCHANGED <<queue, state, waiting, ops, run, active, idle, pipe, ext>>

Nudge ==
    /\ nudges > 0 /\ nudges' = nudges - 1
    /\ Tickle
    /\ UNCHANGED <<queue, state, waiting, ops, run, active, idle, ext, asked>>

------------------------------------------------------------------------------

Body(w) == \/ Scheduled(w) \/ Await(w) \/ YieldToHold(w)
           \/ YieldToReady(w) \/ Terminate(w)
           \/ \E v \in Pins : SwitchTo(w, v)
           \/ \E c \in Co, pin \in Pins \cup {"any"} : Spawn(w, c, pin)

Step(w) == \/ Pick(w) \/ PickNothing(w) \/ TickleOthers(w) \/ SwapIn(w) \/ Body(w)
           \/ SwapOut(w) \/ Deactivate(w) \/ Settle(w) \/ Requeued(w)
           \/ Rest(w) \/ Check(w) \/ Wakes(w) \/ TimesOut(w) \/ Drain(w) \/ Leave(w)

Next == \/ \E w \in Worker : Step(w)
        \/ \E c \in Co, pin \in Pins \cup {"any"} : Wake(c, pin)
        \/ Woke \/ Stop \/ Nudge

Spec == Init /\ [][Next]_vars

(* Every thread runs, and epoll_wait() ends.  Nothing is assumed of those  *)
(* who wake coroutines or call stop().                                     *)
FairSpec == /\ Spec /\ WF_vars(Woke) /\ WF_vars(Nudge)
            /\ \A w \in Worker : WF_vars(Step(w))

------------------------------------------------------------------------------
(* Properties *)

(* Every variable has its type. *)
TypeOK ==
    /\ queue \in Seq(Task) /\ waiting \in SUBSET Co
    /\ state \in [Co -> {"INIT", "EXEC", "HOLD", "READY", "TERM"}]
    /\ ops \in 0..MaxOps
    /\ pc \in [Worker -> Pc] /\ task \in [Worker -> Co \cup {"none"}]
    /\ skipped \in SUBSET Worker /\ over \in SUBSET Worker
    /\ active \in Nat /\ idle \in Nat
    /\ pipe \in {"empty", "ready", "full"} /\ ext \in BOOLEAN
    /\ asked \in BOOLEAN /\ nudges \in Nat

Active(w) == task[w] # "none" /\ pc[w] # "settle"
Idle(w)   == pc[w] \in {"check", "wait", "drain", "leave"}

(* The counters stopping() and tickle() decide on are exact: a worker is   *)
(* active from taking a task until run() has it back, and idle while its   *)
(* idle coroutine runs.                                                    *)
CountersExact == /\ active = Cardinality({w \in Worker : Active(w)})
                 /\ idle = Cardinality({w \in Worker : Idle(w)})

Entries(c) == {i \in DOMAIN queue : queue[i].co = c}

(* A coroutine is in one place: waiting to be woken, in the queue once, on *)
(* a worker that has taken it, or terminated.  It may be queued or waiting *)
(* already while it still runs, on its way to a yield; then only its own   *)
(* worker holds it.                                                        *)
OnePlace == \A c \in Co :
    LET holders == {w \in Worker : task[w] = c}
    IN  /\ Cardinality(holders) <= 1
        /\ Cardinality(Entries(c)) <= 1
        /\ c \in waiting => Entries(c) = {}
        /\ state[c] = "TERM" => Entries(c) = {} /\ c \notin waiting
        /\ \A w \in holders : c \in waiting \/ Entries(c) # {} =>
              pc[w] \in {"moved", "yield", "switch", "after", "settle"}

(* The code's own assertions on m_state: swapIn() enters no coroutine that *)
(* runs or is over, and who yields is running.                             *)
StateAsserts == \A w \in Worker :
    /\ pc[w] = "got" => state[task[w]] \notin {"EXEC", "TERM"}
    /\ pc[w] \in {"run", "yield"} => state[task[w]] = "EXEC"

(* No coroutine runs on two threads. *)
OneThread == \A v, w \in Worker :
    v # w /\ pc[v] \in {"run", "spawned", "moved", "yield", "switch"}
          /\ pc[w] \in {"run", "spawned", "moved", "yield", "switch"} => task[v] # task[w]

(* Every scheduled coroutine runs, unless stop() is called. *)
TaskRuns == \A c \in Co : Entries(c) # {} ~> Entries(c) = {} \/ asked

(* A worker told to stop goes, unless a task is left that only a worker    *)
(* that has gone could take: stopping() waits for an empty queue.          *)
StopEnds == asked ~> \A w \in Worker :
    \/ pc[w] = "exit"
    \/ \E i \in DOMAIN queue : queue[i].pin # "any" /\ pc[queue[i].pin] = "exit"
==============================================================================
