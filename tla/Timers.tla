-------------------------------- MODULE Timers --------------------------------
(***************************************************************************)
(* Timers and the idle workers that wait for them: core/io/timer.cpp with  *)
(* the part of core/io/iomanager.cpp that calls it.                        *)
(*                                                                         *)
(* m_next is a time of the host clock, which may be set back; epoll_wait   *)
(* takes a delay, which passes in real time.  Whoever puts a timer at the  *)
(* front of m_timers wakes a worker, unless m_tickled says that somebody   *)
(* did since a worker last looked.                                         *)
(*                                                                         *)
(* Callers are the coroutines and threads that add, cancel and change      *)
(* timers.  Whatever else ends an epoll_wait is the action Event, and the  *)
(* queue of callbacks is a set: Scheduler and FdEvents have the details.   *)
(***************************************************************************)
EXTENDS Integers, FiniteSets

CONSTANTS Worker,      \* threads of the IOManager
          Caller,      \* who calls addTimer, cancel, refresh and reset
          Timer,       \* timers
          Recurring,   \* those that are made with recurring = true
          Delay,       \* the delays they are given, in ms
          Steps,       \* by how much the clock may be set back
          Hour,        \* the hour of detectClockRollover
          MAX_TIMEOUT, \* of idle()
          IntMax,      \* 2^31 - 1
          MaxStall,    \* how long a worker may be between clock and lock
          MaxNow       \* bound of the model: the clock stops here

ASSUME TimeAssumption ==
  /\ {Hour, MAX_TIMEOUT, IntMax, MaxStall, MaxNow} \subseteq Nat
  /\ Recurring \subseteq Timer /\ Delay \subseteq 0 .. IntMax /\ Steps \subseteq Nat \ {0}
  /\ MAX_TIMEOUT <= IntMax /\ Worker # {}

VARIABLES
  now,       \* the clock: TimeUtil::NowToMS()
  back,      \* history: by how much the clock was set back
  prev,      \* m_previouseTime
  m_timers,  \* the timers in the set
  timer,     \* m_next, m_ms, is there an m_cb, was it made?
  tickled,   \* m_tickled
  edge,      \* m_tickleFds has an edge that epoll has not reported
  pc,        \* where each worker is
  left,      \* what is left of its epoll_wait
  seen,      \* now_ms of its listExpiredCb, and history: when it was read
  due,       \* cbs
  cpc,       \* where each caller is
  made,      \* the timer it has made and not inserted
  queue,     \* callbacks that are scheduled
  ran,       \* history: one-shot timers whose callback has run
  cancelled, \* history: timers whose cancel() has returned true
  goal       \* history: the time at which each was asked to run

clock   == <<now, back>>
manager == <<prev, m_timers, timer, tickled, goal, cancelled>>
worker  == <<pc, left, seen, due>>
caller  == <<cpc, made>>
tasks   == <<queue, ran>>
vars == <<clock, manager, edge, worker, caller, tasks>>

(* The time that has passed. *)
Passed == now + back

Unborn == [next |-> 0, ms |-> 0, cb |-> FALSE, born |-> FALSE]

(* Without m_cb: nothing reads the rest any more. *)
Over == [Unborn EXCEPT !.born = TRUE]

Init == /\ now = 0 /\ back = 0 /\ prev = 0
        /\ m_timers = {} /\ timer = [t \in Timer |-> Unborn] /\ tickled = FALSE
        /\ edge = FALSE
        /\ pc = [w \in Worker |-> "run"] /\ left = [w \in Worker |-> 0]
        /\ seen = [w \in Worker |-> [clock |-> 0, real |-> 0]]
        /\ due = [w \in Worker |-> {}]
        /\ cpc = [c \in Caller |-> "ready"] /\ made = [c \in Caller |-> {}]
        /\ queue = {} /\ ran = {} /\ cancelled = {} /\ goal = [t \in Timer |-> 0]

------------------------------------------------------------------------------
(* Callers *)

(* The constructor of Timer: it reads the clock before addTimer locks. *)
New(c, t, ms) ==
  /\ cpc[c] = "ready" /\ ~timer[t].born
  /\ now + ms <= MaxNow
  /\ timer' = [timer EXCEPT ![t] = [next |-> now + ms, ms |-> ms, cb |-> TRUE, born |-> TRUE]]
  /\ goal' = [goal EXCEPT ![t] = Passed + ms]
  /\ cpc' = [cpc EXCEPT ![c] = "insert"] /\ made' = [made EXCEPT ![c] = {t}]
  /\ UNCHANGED <<clock, prev, m_timers, tickled, cancelled, edge, worker, tasks>>

(* at_front: timers come by m_next, and by address where that is equal. *)
AtFront(t, front, set, next) ==
  IF front THEN \A u \in set \ {t} : next[t] <= next[u]
           ELSE \E u \in set \ {t} : next[u] <= next[t]

(* addTimer under the lock: whoever finds m_tickled unset wakes a worker. *)
Add(c, t, next) == \E front \in BOOLEAN :
  /\ AtFront(t, front, m_timers, next)
  /\ m_timers' = m_timers \cup {t}
  /\ tickled' = (tickled \/ front)
  /\ cpc' = [cpc EXCEPT ![c] = IF front /\ ~tickled THEN "front" ELSE "ready"]

Insert(c) ==
  /\ cpc[c] = "insert"
  /\ \E t \in made[c] : Add(c, t, [u \in Timer |-> timer[u].next])
  /\ made' = [made EXCEPT ![c] = {}]
  /\ UNCHANGED <<clock, prev, timer, goal, cancelled, edge, worker, tasks>>

(* onTimerInsertedAtFront, that is tickle(): it looks for an idle thread,  *)
(* then writes to the pipe.                                                *)
Tickle(c) ==
  /\ cpc[c] = "front"
  /\ cpc' = [cpc EXCEPT ![c] = IF \E w \in Worker : pc[w] # "run" THEN "write" ELSE "ready"]
  /\ UNCHANGED <<clock, manager, edge, worker, made, tasks>>

Write(c) ==
  /\ cpc[c] = "write"
  /\ edge' = TRUE /\ cpc' = [cpc EXCEPT ![c] = "ready"]
  /\ UNCHANGED <<clock, manager, worker, made, tasks>>

(* A timer that a caller has. *)
Has(c, t) == cpc[c] = "ready" /\ timer[t].cb /\ \A d \in Caller : t \notin made[d]

Cancel(c, t) ==
  /\ Has(c, t)
  /\ timer' = [timer EXCEPT ![t] = Over]
  /\ goal' = [goal EXCEPT ![t] = 0]
  /\ m_timers' = m_timers \ {t}
  /\ cancelled' = IF t \in m_timers THEN cancelled \cup {t} ELSE cancelled
  /\ UNCHANGED <<clock, prev, tickled, edge, worker, caller, tasks>>

(* Mutant: the timer is not inserted again. *)
RefreshErased(c, t) ==
  /\ Has(c, t) /\ t \in m_timers
  /\ now + timer[t].ms <= MaxNow
  /\ m_timers' = m_timers \ {t}
  /\ timer' = [timer EXCEPT ![t].next = now + timer[t].ms]
  /\ goal' = [goal EXCEPT ![t] = Passed + timer[t].ms]
  /\ UNCHANGED <<clock, prev, tickled, cancelled, edge, worker, caller, tasks>>

(* refresh() inserts the timer again and wakes nobody. *)
Refresh(c, t) ==
  /\ Has(c, t) /\ t \in m_timers
  /\ now + timer[t].ms <= MaxNow
  /\ timer' = [timer EXCEPT ![t].next = now + timer[t].ms]
  /\ goal' = [goal EXCEPT ![t] = Passed + timer[t].ms]
  /\ UNCHANGED <<clock, prev, m_timers, tickled, cancelled, edge, worker, caller, tasks>>

(* reset(): counted from now, or from when the timer was last armed. *)
Reset(c, t, ms, from_now) ==
  LET start == IF from_now THEN now ELSE timer[t].next - timer[t].ms
  IN /\ Has(c, t) /\ t \in m_timers
     /\ ms # timer[t].ms \/ from_now
     /\ start + ms <= MaxNow
     /\ timer' = [timer EXCEPT ![t].ms = ms, ![t].next = start + ms]
     /\ goal' = [goal EXCEPT ![t] = IF from_now THEN Passed + ms ELSE @ - timer[t].ms + ms]
     /\ Add(c, t, [u \in Timer |-> timer'[u].next])
     /\ UNCHANGED <<clock, prev, cancelled, edge, worker, made, tasks>>

------------------------------------------------------------------------------
(* Workers *)

Goes(w, from, to) == pc[w] = from /\ pc' = [pc EXCEPT ![w] = to]

(* A worker runs the callbacks, and is idle when there is none: from then  *)
(* on m_idleThreadCount counts it.                                         *)
RunTask(w, t) ==
  /\ pc[w] = "run" /\ t \in queue
  /\ queue' = queue \ {t} /\ ran' = ran \cup ({t} \ Recurring)
  /\ UNCHANGED <<clock, manager, edge, worker, caller>>

Rest(w) ==
  /\ Goes(w, "run", "idle") /\ queue = {}
  /\ UNCHANGED <<clock, manager, edge, left, seen, due, caller, tasks>>

(* The conversion to int of a delay, which is a uint64_t. *)
ToInt(n) == LET m == n % (2 * (IntMax + 1)) IN IF m > IntMax THEN m - 2 * (IntMax + 1) ELSE m

(* idle(): next_timeout, from what getNextTimer returns. *)
Timeout == IF m_timers = {} THEN MAX_TIMEOUT
           ELSE LET first == CHOOSE t \in m_timers : \A u \in m_timers : timer[t].next <= timer[u].next
                    n == IF now >= timer[first].next THEN 0 ELSE timer[first].next - now
                IN IF ToInt(n) > MAX_TIMEOUT THEN MAX_TIMEOUT ELSE ToInt(n)

(* Mutant: m_tickled stays as it is. *)
LookTickled(w) ==
  /\ Goes(w, "idle", "wait")
  /\ left' = [left EXCEPT ![w] = Timeout]
  /\ UNCHANGED <<clock, manager, edge, seen, due, caller, tasks>>

(* stopping() and epoll_wait. *)
Look(w) ==
  /\ Goes(w, "idle", "wait")
  /\ tickled' = FALSE /\ left' = [left EXCEPT ![w] = Timeout]
  /\ UNCHANGED <<clock, prev, m_timers, timer, goal, cancelled, edge, seen, due, caller, tasks>>

(* epoll_wait returns, with the edge of the pipe if there is one, and      *)
(* listExpiredCb reads the clock before it takes the lock.                 *)
Returns(w) ==
  /\ Goes(w, "wait", "expire") /\ edge' = FALSE
  /\ left' = [left EXCEPT ![w] = 0]
  /\ seen' = [seen EXCEPT ![w] = [clock |-> now, real |-> Passed]]
  /\ UNCHANGED <<clock, manager, due, caller, tasks>>

Wake(w)  == Returns(w) /\ (edge \/ left[w] = 0)
Event(w) == Returns(w)

(* Mutant: any step back counts as a rollover. *)
RolloverAny(now_ms) == now_ms < prev

detectClockRollover(now_ms) == now_ms < prev /\ now_ms < prev - Hour

Expired(now_ms) ==
  IF detectClockRollover(now_ms) THEN m_timers ELSE {t \in m_timers : timer[t].next <= now_ms}

(* Mutant: the callbacks are copied, and the timers stay in the set. *)
ExpireCopies(w) ==
  LET expired == Expired(seen[w].clock)
  IN /\ Goes(w, "expire", "schedule")
     /\ due' = [due EXCEPT ![w] = expired]
     /\ prev' = IF m_timers = {} THEN prev ELSE seen[w].clock
     /\ seen' = [seen EXCEPT ![w] = [clock |-> 0, real |-> 0]]
     /\ UNCHANGED <<clock, m_timers, timer, goal, tickled, cancelled, edge, left, caller, tasks>>

(* One-shot timers lose their callback, recurring ones are inserted again. *)
Expire(w) ==
  LET now_ms == seen[w].clock
      expired == Expired(now_ms)
  IN /\ Goes(w, "expire", "schedule")
     /\ due' = [due EXCEPT ![w] = expired]
     /\ m_timers' = {t \in m_timers : t \in expired => t \in Recurring}
     /\ timer' = [t \in Timer |->
           IF t \notin expired THEN timer[t]
           ELSE IF t \in Recurring THEN [timer[t] EXCEPT !.next = now_ms + timer[t].ms]
           ELSE Over]
     /\ goal' = [t \in Timer |->
           IF t \notin expired THEN goal[t]
           ELSE IF t \in Recurring THEN seen[w].real + timer[t].ms ELSE 0]
     /\ prev' = IF m_timers = {} THEN prev ELSE now_ms
     /\ seen' = [seen EXCEPT ![w] = [clock |-> 0, real |-> 0]]
     /\ UNCHANGED <<clock, tickled, cancelled, edge, left, caller, tasks>>

(* schedule() of what has expired: it wakes a worker if the queue was      *)
(* empty, for this one is still idle.                                      *)
Schedule(w) ==
  /\ Goes(w, "schedule", "run")
  /\ queue' = queue \cup due[w]
  /\ due' = [due EXCEPT ![w] = {}]
  /\ edge' = (edge \/ (due[w] # {} /\ queue = {}))
  /\ UNCHANGED <<clock, manager, left, seen, caller, ran>>

------------------------------------------------------------------------------
(* Time: a delay passes in real time.  Bounds of the model: after MaxNow   *)
(* only delays do, and the clock is set back once.                         *)

Tick ==
  /\ \A w \in Worker : pc[w] = "expire" => Passed < seen[w].real + MaxStall
  /\ now' = IF now < MaxNow THEN now + 1 ELSE now
  /\ left' = [w \in Worker |-> IF left[w] > 0 THEN left[w] - 1 ELSE left[w]]
  /\ UNCHANGED <<back, manager, edge, pc, seen, due, caller, tasks>>

SetBack(k) ==
  /\ back = 0 /\ back' = k
  /\ k <= now /\ now' = now - k
  /\ UNCHANGED <<manager, edge, worker, caller, tasks>>

------------------------------------------------------------------------------
Call(c) == \/ Insert(c) \/ Tickle(c) \/ Write(c)
           \/ \E t \in Timer : \/ \E ms \in Delay : New(c, t, ms)
                              \/ Cancel(c, t) \/ Refresh(c, t)
                              \/ \E ms \in Delay, from_now \in BOOLEAN : Reset(c, t, ms, from_now)

Loop(w) == \/ Rest(w) \/ Look(w) \/ Wake(w) \/ Expire(w) \/ Schedule(w)
           \/ \E t \in Timer : RunTask(w, t)

Next == \/ \E c \in Caller : Call(c)
        \/ \E w \in Worker : Loop(w) \/ Event(w)
        \/ Tick
        \/ \E k \in Steps : SetBack(k)

Spec == Init /\ [][Next]_vars

(* Threads run, and time passes. *)
FairSpec == /\ Spec /\ WF_vars(Tick)
            /\ \A w \in Worker : WF_vars(Loop(w))
            /\ \A c \in Caller : WF_vars(Insert(c) \/ Tickle(c) \/ Write(c))

------------------------------------------------------------------------------
(* Every variable has its type. *)
TypeOK ==
  /\ {now, back, prev} \subseteq Nat
  /\ m_timers \subseteq Timer /\ queue \subseteq Timer /\ ran \subseteq Timer /\ cancelled \subseteq Timer
  /\ timer \in [Timer -> [next : Nat, ms : Nat, cb : BOOLEAN, born : BOOLEAN]]
  /\ tickled \in BOOLEAN /\ edge \in BOOLEAN
  /\ pc \in [Worker -> {"run", "idle", "wait", "expire", "schedule"}]
  /\ left \in [Worker -> Int] /\ seen \in [Worker -> [clock : Nat, real : Nat]]
  /\ due \in [Worker -> SUBSET Timer]
  /\ cpc \in [Caller -> {"ready", "insert", "front", "write"}] /\ made \in [Caller -> SUBSET Timer]
  /\ goal \in [Timer -> Int]

(* No timer is overslept: while one is set, a worker is awake, or about to *)
(* be woken, or wakes by itself in time. (A clock that is set back leaves  *)
(* refresh() an earlier time at the front, and nobody is told.)            *)
TimerIsWatched == back = 0 => \A t \in m_timers :
  \/ \E w \in Worker : pc[w] # "wait"
  \/ edge \/ \E c \in Caller : cpc[c] \in {"front", "write"}
  \/ \E w \in Worker : 0 <= left[w] /\ (left[w] = 0 \/ now + left[w] <= timer[t].next)

(* The callback of a one-shot timer runs once or never: the timer is set,  *)
(* or with one worker, or scheduled, or has run, or cancel() has said that *)
(* it will not; and after that it is not set again, recurring or not.      *)
OneFate == \A t \in Timer :
  /\ timer[t].born /\ t \notin Recurring =>
       Cardinality({c \in Caller : t \in made[c]}) + Cardinality({w \in Worker : t \in due[w]})
       + Cardinality({s \in {<<1, m_timers>>, <<2, queue>>, <<3, ran>>, <<4, cancelled>>} : t \in s[2]}) = 1
  /\ t \in cancelled => t \notin m_timers

(* No timer runs early, whatever times other workers have read: what has   *)
(* expired was asked for this time or an earlier one. Only a clock set     *)
(* back by an hour expires every timer at once.                            *)
NotEarly == [][\A w \in Worker, t \in Timer :
                 t \in due'[w] \ due[w] => goal[t] <= Passed + back \/ back + MaxStall > Hour]_vars

(* A one-shot timer runs or is cancelled, although others are put before   *)
(* it, workers are busy and the clock is set back.                         *)
TimerFires == \A t \in Timer \ Recurring :
  t \in m_timers ~> t \in ran \cup cancelled
=============================================================================
