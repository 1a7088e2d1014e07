------------------------------ MODULE Semaphore ------------------------------
(***************************************************************************)
(* What core/io/lock.hpp promises of a CoroutineSemaphore, without its     *)
(* waiter list: a counter of permits that a fiber takes to get past        *)
(* wait()/tryWait() and that notify() gives back.  A fiber never passes    *)
(* without a permit, and no permit is lost or made up.                     *)
(***************************************************************************)
EXTENDS Naturals

CONSTANTS Fiber,    \* the coroutines that use the semaphore
          Initial   \* initial_concurrency of the constructor

VARIABLES permits,  \* permits nobody holds
          passed    \* fibers past wait(), until they are done with the permit

vars == <<permits, passed>>

Init == permits = Initial /\ passed = {}

(* wait() returns, or tryWait() returns true. *)
Pass(f) == /\ f \notin passed
           /\ permits > 0
           /\ permits' = permits - 1
           /\ passed' = passed \cup {f}

(* notify(), by any fiber: nobody owns a permit. *)
Signal == permits' = permits + 1 /\ UNCHANGED passed

(* The fiber goes on after wait(). *)
Leave(f) == f \in passed /\ passed' = passed \ {f} /\ UNCHANGED permits

Next == Signal \/ \E f \in Fiber : Pass(f) \/ Leave(f)

Spec == Init /\ [][Next]_vars
==============================================================================
