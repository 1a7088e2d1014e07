-------------------------- MODULE CoroutineSemaphore --------------------------
(***************************************************************************)
(* core/io/lock.cpp: CoroutineSemaphore.  A fiber that finds no permit is  *)
(* appended to m_waiters under m_mutex, leaves the lock and only then      *)
(* yields; notify() hands its permit to the first waiter by scheduling it, *)
(* and increments m_concurrency only when nobody waits.  A scheduled fiber *)
(* runs again once it has left the CPU.                                    *)
(*                                                                         *)
(* Any running fiber may notify, as AsyncSocketStream does: the fibers     *)
(* that take a permit and those that give one are different ones.          *)
(* Init, Next and Spec begin with Sem, so that a module can extend the     *)
(* semaphore together with the component that waits on it.                 *)
(***************************************************************************)
EXTENDS Naturals, Sequences, FiniteSets

CONSTANTS Fiber,    \* coroutines
          Initial,  \* constructor argument initial_concurrency
          MaxPermits  \* bound of the model: notify() beyond it is not explored

ASSUME FiberAssumption   == IsFiniteSet(Fiber)
ASSUME InitialAssumption == Initial \in Nat /\ MaxPermits \in Nat

VARIABLES concurrency,  \* m_concurrency
          waiters,      \* m_waiters, oldest first
          scheduled,    \* fibers notify() handed to their scheduler, not resumed yet
          at            \* where each fiber is

semVars == <<concurrency, waiters, scheduled, at>>

PC == {"outside",   \* not using the semaphore
       "pushed",    \* in m_waiters, lock released, YieldToHold not reached
       "held",      \* switched out by YieldToHold
       "inside"}    \* wait()/tryWait() returned

SemInit == /\ concurrency = Initial
           /\ waiters = <<>>
           /\ scheduled = {}
           /\ at = [f \in Fiber |-> "outside"]

(* wait() when m_concurrency > 0, and tryWait() returning true. *)
TakePermit(f) == /\ at[f] = "outside"
                 /\ concurrency > 0
                 /\ concurrency' = concurrency - 1
                 /\ at' = [at EXCEPT ![f] = "inside"]
                 /\ UNCHANGED <<waiters, scheduled>>

(* wait() when there is no permit: push_back and release the lock. *)
PushWaiter(f) == /\ at[f] = "outside"
                 /\ concurrency = 0
                 /\ waiters' = Append(waiters, f)
                 /\ at' = [at EXCEPT ![f] = "pushed"]
                 /\ UNCHANGED <<concurrency, scheduled>>

(* Coroutine::YieldToHold at the end of wait(). *)
YieldToHold(f) == /\ at[f] = "pushed"
                  /\ at' = [at EXCEPT ![f] = "held"]
                  /\ UNCHANGED <<concurrency, waiters, scheduled>>

(* Mutants of notify(): it increments m_concurrency although a fiber       *)
(* waits; it does not pop the waiter it schedules; it serves the youngest  *)
(* waiter; it schedules the waiter and increments m_concurrency too.       *)
ReleaseToCount == /\ concurrency < MaxPermits
                  /\ concurrency' = concurrency + 1
                  /\ UNCHANGED <<waiters, scheduled>>

ReleaseAndKeep == \/ /\ waiters # <<>>
                     /\ scheduled' = scheduled \cup {Head(waiters)}
                     /\ UNCHANGED <<waiters, concurrency>>
                  \/ waiters = <<>> /\ ReleaseToCount

ReleaseLast == \/ /\ waiters # <<>>
                  /\ scheduled' = scheduled \cup {waiters[Len(waiters)]}
                  /\ waiters' = SubSeq(waiters, 1, Len(waiters) - 1)
                  /\ UNCHANGED concurrency
               \/ waiters = <<>> /\ ReleaseToCount

ReleaseTwice == \/ /\ waiters # <<>> /\ concurrency < MaxPermits
                   /\ scheduled' = scheduled \cup {Head(waiters)}
                   /\ waiters' = Tail(waiters)
                   /\ concurrency' = concurrency + 1
                \/ waiters = <<>> /\ ReleaseToCount

(* The permit goes to the first waiter, or to m_concurrency. *)
Release == \/ /\ waiters # <<>>
              /\ scheduled' = scheduled \cup {Head(waiters)}
              /\ waiters' = Tail(waiters)
              /\ UNCHANGED concurrency
           \/ /\ waiters = <<>>
              /\ concurrency < MaxPermits
              /\ concurrency' = concurrency + 1
              /\ UNCHANGED <<waiters, scheduled>>

Notify(f) == /\ at[f] \in {"outside", "inside"}
             /\ Release
             /\ UNCHANGED at

(* The fiber goes on and may call wait() again. *)
Leave(f) == /\ at[f] = "inside"
            /\ at' = [at EXCEPT ![f] = "outside"]
            /\ UNCHANGED <<concurrency, waiters, scheduled>>

(* The scheduler runs a scheduled fiber that has yielded: wait() returns. *)
Resume(f) == /\ f \in scheduled
             /\ at[f] = "held"
             /\ scheduled' = scheduled \ {f}
             /\ at' = [at EXCEPT ![f] = "inside"]
             /\ UNCHANGED <<concurrency, waiters>>

SemNext == \E f \in Fiber : \/ TakePermit(f)
                            \/ PushWaiter(f)
                            \/ YieldToHold(f)
                            \/ Notify(f)
                            \/ Leave(f)
                            \/ Resume(f)

(* The scheduler runs what was scheduled, and a fiber that released the    *)
(* lock reaches its yield; nothing obliges a fiber to wait or to notify.   *)
SemFairness == \A f \in Fiber : WF_semVars(YieldToHold(f)) /\ WF_semVars(Resume(f))

SemSpec     == SemInit /\ [][SemNext]_semVars
SemFairSpec == SemSpec /\ SemFairness

------------------------------------------------------------------------------

Queued == {waiters[i] : i \in DOMAIN waiters}

(* Every variable has its type. *)
SemTypeOK == /\ concurrency \in Nat
             /\ waiters \in Seq(Fiber)
             /\ scheduled \in SUBSET Fiber
             /\ at \in [Fiber -> PC]

(* No lost wake-up: while a fiber waits, no permit lies unused in          *)
(* m_concurrency (lock.cpp wait/notify decide under one m_mutex).          *)
NoIdlePermit == waiters # <<>> => concurrency = 0

(* A fiber that yielded inside wait() is known to someone who will wake    *)
(* it: it has one entry in m_waiters or is already scheduled, and never    *)
(* both, so it is neither forgotten nor resumed twice for one permit.      *)
SleeperIsKnown ==
    /\ \A f \in Fiber :
        /\ at[f] \in {"pushed", "held"} <=> (f \in Queued \/ f \in scheduled)
        /\ ~(f \in Queued /\ f \in scheduled)
    /\ \A i, j \in DOMAIN waiters : waiters[i] = waiters[j] => i = j

(* m_waiters is served in order: as long as notify() keeps being called,   *)
(* whoever waits gets past wait(), however many fibers keep coming back.   *)
NoStarvation == []<><<\E g \in Fiber : Notify(g)>>_semVars =>
    \A f \in Fiber : at[f] = "pushed" ~> at[f] = "inside"

(* The permits a resumed fiber still has to pick up count as free. *)
Abstract == INSTANCE Semaphore WITH
    permits <- concurrency + Cardinality(scheduled),
    passed  <- {f \in Fiber : at[f] = "inside"}

(* The waiter list implements a plain counter of permits. *)
ImplementsSemaphore == Abstract!Spec
==============================================================================
