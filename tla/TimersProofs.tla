----------------------------- MODULE TimersProofs -----------------------------
(***************************************************************************)
(* Proofs about Timers for any workers, callers, timers and delays.        *)
(***************************************************************************)
EXTENDS Timers, FiniteSetTheorems, TLAPS

------------------------------------------------------------------------------
(* Types *)

Record == [next : Nat, ms : Nat, cb : BOOLEAN, born : BOOLEAN]

(* A timer that is set was given one of the delays, which has not been     *)
(* taken back from m_next.                                                 *)
Armed(r) == r.cb => r.ms \in Delay /\ r.ms <= r.next

ClockType == now \in Nat /\ back \in Nat
ManagerType ==
  /\ prev \in Nat /\ tickled \in BOOLEAN /\ goal \in [Timer -> Int] /\ cancelled \subseteq Timer
  /\ m_timers \subseteq Timer /\ IsFiniteSet(m_timers)
  /\ timer \in [Timer -> Record] /\ \A t \in Timer : Armed(timer[t])
WorkerType ==
  /\ pc \in [Worker -> {"run", "idle", "wait", "expire", "schedule"}]
  /\ left \in [Worker -> Int] /\ seen \in [Worker -> [clock : Nat, real : Nat]]
  /\ due \in [Worker -> SUBSET Timer]
CallerType ==
  /\ cpc \in [Caller -> {"ready", "insert", "front", "write"}] /\ made \in [Caller -> SUBSET Timer]
TaskType == queue \subseteq Timer /\ ran \subseteq Timer

TypeInv == ClockType /\ ManagerType /\ edge \in BOOLEAN /\ WorkerType /\ CallerType /\ TaskType

LEMMA ConstantsAre ==
  /\ Hour \in Nat /\ MAX_TIMEOUT \in Nat /\ IntMax \in Nat /\ MaxStall \in Nat /\ MaxNow \in Nat
  /\ \A ms \in Delay : ms \in Nat /\ ms <= IntMax
  /\ \A k \in Steps : k \in Nat /\ k > 0
BY TimeAssumption

(* A delay that fits is converted as it is. *)
LEMMA ToIntIs == ASSUME NEW n \in 0 .. IntMax PROVE ToInt(n) = n
<1>1. ASSUME NEW m \in Nat, NEW k \in Nat, m < k PROVE m % k = m
  BY <1>1
<1>2. 2 * (IntMax + 1) \in Nat /\ n \in Nat /\ n < 2 * (IntMax + 1)
  BY ConstantsAre
<1>3. n % (2 * (IntMax + 1)) = n
  BY <1>1, <1>2
<1> QED BY <1>3, ConstantsAre DEF ToInt

LEMMA ToIntTyped == ASSUME NEW n \in Nat PROVE ToInt(n) \in Int
<1>1. ASSUME NEW k \in Nat, k > 0 PROVE n % k \in Int
  BY <1>1
<1>2. 2 * (IntMax + 1) \in Nat /\ 2 * (IntMax + 1) > 0
  BY ConstantsAre
<1>3. n % (2 * (IntMax + 1)) \in Int
  BY <1>1, <1>2
<1> QED BY <1>2, <1>3, ConstantsAre DEF ToInt

(* A finite set of numbered things has one with the least number. *)
LEMMA Smallest ==
  ASSUME NEW S, IsFiniteSet(S), S # {}, NEW f \in [S -> Nat]
  PROVE  \E m \in S : \A n \in S : f[m] <= f[n]
<1> DEFINE below(m) == {n \in S : f[n] <= f[m]}
           Belows   == {below(m) : m \in S}
           R        == StrictSubsetOrdering(S)
<1>1. IsWellFoundedOn(R, FiniteSubsetsOf(S))
  BY FS_StrictSubsetOrderingWellFounded
<1>2. Belows \subseteq FiniteSubsetsOf(S) /\ Belows # {}
  <2>1. FiniteSubsetsOf(S) = SUBSET S
    BY FS_FiniteSubsetsOfFinite
  <2>2. \A m \in S : below(m) \in SUBSET S
    OBVIOUS
  <2>3. Belows \subseteq SUBSET S
    BY <2>2
  <2>4. Belows # {}
    <3>1. PICK m \in S : TRUE
      OBVIOUS
    <3>2. below(m) \in Belows
      OBVIOUS
    <3> QED BY <3>2
  <2> QED BY <2>1, <2>3, <2>4
<1>3. PICK x \in Belows : \A y \in Belows : ~(<<y, x>> \in R)
  <2> HIDE DEF Belows, R
  <2> QED BY <1>1, <1>2, WFMin
<1>4. PICK m \in S : x = below(m)
  BY <1>3
<1>5. ASSUME NEW n \in S, ~(f[m] <= f[n]) PROVE FALSE
  <2>1. f[m] \in Nat /\ f[n] \in Nat /\ f[n] < f[m]
    BY <1>5
  <2>2. ASSUME NEW k \in below(n) PROVE k \in below(m)
    <3>1. k \in S /\ f[k] \in Nat /\ f[k] <= f[n]
      BY <2>2
    <3> QED BY <2>1, <3>1
  <2>3. m \in below(m) /\ m \notin below(n)
    BY <2>1
  <2>4. below(n) \in Belows /\ <<below(n), x>> \in R
    BY <1>4, <2>2, <2>3 DEF StrictSubsetOrdering
  <2> QED BY <1>3, <2>4
<1> QED BY <1>5

(* The timer at the front of m_timers. *)
First == CHOOSE t \in m_timers : \A u \in m_timers : timer[t].next <= timer[u].next

LEMMA FirstIs ==
  ASSUME TypeInv, m_timers # {}
  PROVE  First \in m_timers /\ \A u \in m_timers : timer[First].next <= timer[u].next
<1> DEFINE f == [t \in m_timers |-> timer[t].next]
<1>1. f \in [m_timers -> Nat]
  BY DEF TypeInv, ManagerType, Record
<1>2. \E t \in m_timers : \A u \in m_timers : f[t] <= f[u]
  <2> HIDE DEF f
  <2> QED BY <1>1, Smallest DEF TypeInv, ManagerType
<1>3. \E t \in m_timers : \A u \in m_timers : timer[t].next <= timer[u].next
  BY <1>2
<1> QED BY <1>3 DEF First

(* The timeout of epoll_wait. *)
Remaining == IF now >= timer[First].next THEN 0 ELSE timer[First].next - now

LEMMA TimeoutIs ==
  Timeout = IF m_timers = {} THEN MAX_TIMEOUT
            ELSE IF ToInt(Remaining) > MAX_TIMEOUT THEN MAX_TIMEOUT ELSE ToInt(Remaining)
BY DEF Timeout, Remaining, First

LEMMA RemainingIs ==
  ASSUME TypeInv, m_timers # {}
  PROVE  Remaining \in Nat
<1>1. timer[First].next \in Nat /\ now \in Nat
  BY FirstIs DEF TypeInv, ManagerType, ClockType, Record
<1> QED BY <1>1 DEF Remaining

LEMMA TimeoutTyped == ASSUME TypeInv PROVE Timeout \in Int
BY TimeoutIs, RemainingIs, ToIntTyped, ConstantsAre

LEMMA TypeInit == Init => TypeInv
<1> SUFFICES ASSUME Init PROVE TypeInv
  OBVIOUS
<1>1. Unborn \in Record /\ ~Unborn.cb
  BY DEF Unborn, Record
<1>2. ClockType /\ edge \in BOOLEAN /\ TaskType /\ CallerType
  BY DEF Init, ClockType, TaskType, CallerType
<1>3. ManagerType
  <2>1. timer = [t \in Timer |-> Unborn] /\ goal = [t \in Timer |-> 0]
    BY DEF Init
  <2>2. timer \in [Timer -> Record] /\ goal \in [Timer -> Int]
    BY <1>1, <2>1
  <2>3. \A t \in Timer : Armed(timer[t])
    BY <1>1, <2>1 DEF Armed
  <2>4. prev = 0 /\ m_timers = {} /\ tickled = FALSE /\ cancelled = {}
    BY DEF Init
  <2> QED BY <2>2, <2>3, <2>4, FS_EmptySet DEF ManagerType
<1>4. WorkerType
  BY DEF Init, WorkerType
<1> QED BY <1>2, <1>3, <1>4 DEF TypeInv

(* One timer gets other values. *)
LEMMA ManagerSets ==
  ASSUME TypeInv, NEW t \in Timer, NEW r \in Record, Armed(r), NEW g \in Int,
         timer' = [timer EXCEPT ![t] = r], goal' = [goal EXCEPT ![t] = g], prev' = prev,
         tickled' \in BOOLEAN, cancelled' \subseteq Timer, m_timers' \subseteq Timer, IsFiniteSet(m_timers')
  PROVE  ManagerType'
<1>1. timer' \in [Timer -> Record] /\ goal' \in [Timer -> Int]
  BY DEF TypeInv, ManagerType
<1>2. \A u \in Timer : Armed(timer'[u])
  BY DEF TypeInv, ManagerType
<1>3. prev' \in Nat
  BY DEF TypeInv, ManagerType
<1> QED BY <1>1, <1>2, <1>3 DEF ManagerType

LEMMA OverIs == Over \in Record /\ ~Over.cb /\ Over.born
BY DEF Over, Unborn, Record

(* addTimer puts the timer into the set. *)
LEMMA AddIs ==
  ASSUME TypeInv, NEW c \in Caller, NEW t \in Timer, NEW next, Add(c, t, next)
  PROVE  /\ m_timers' = m_timers \cup {t} /\ IsFiniteSet(m_timers') /\ m_timers' \subseteq Timer
         /\ tickled' \in BOOLEAN /\ cpc' = [cpc EXCEPT ![c] = cpc'[c]] /\ cpc'[c] \in {"front", "ready"}
         /\ \/ /\ tickled' = TRUE /\ (tickled \/ cpc'[c] = "front")
            \/ /\ tickled' = tickled /\ \E u \in m_timers \ {t} : next[u] <= next[t]
<1>1. PICK front \in BOOLEAN : /\ AtFront(t, front, m_timers, next)
                              /\ m_timers' = m_timers \cup {t}
                              /\ tickled' = (tickled \/ front)
                              /\ cpc' = [cpc EXCEPT ![c] = IF front /\ ~tickled THEN "front" ELSE "ready"]
  BY DEF Add
<1>2. IsFiniteSet(m_timers') /\ m_timers' \subseteq Timer
  BY <1>1, FS_AddElement DEF TypeInv, ManagerType
<1>3. cpc'[c] = (IF front /\ ~tickled THEN "front" ELSE "ready") /\ tickled \in BOOLEAN
  BY <1>1 DEF TypeInv, CallerType, ManagerType
<1>4. cpc' = [cpc EXCEPT ![c] = cpc'[c]] /\ cpc'[c] \in {"front", "ready"}
  BY <1>1, <1>3
<1>5. CASE front
  BY <1>1, <1>2, <1>3, <1>4, <1>5
<1>6. CASE ~front
  BY <1>1, <1>2, <1>3, <1>4, <1>6 DEF AtFront
<1> QED BY <1>5, <1>6

(* The values of a timer that a caller changes. *)
LEMMA NewIs ==
  ASSUME TypeInv, NEW ms \in Delay
  PROVE  LET r == [next |-> now + ms, ms |-> ms, cb |-> TRUE, born |-> TRUE]
         IN r \in Record /\ Armed(r) /\ r.next = now + ms /\ r.ms = ms /\ r.cb /\ r.born
BY ConstantsAre DEF TypeInv, ClockType, Record, Armed

LEMMA NextSets ==
  ASSUME NEW r \in Record, NEW n \in Nat
  PROVE  /\ [r EXCEPT !.next = n] \in Record /\ [r EXCEPT !.next = n].next = n
         /\ [r EXCEPT !.next = n].ms = r.ms
         /\ [r EXCEPT !.next = n].cb = r.cb /\ [r EXCEPT !.next = n].born = r.born
<1> DEFINE a == [r EXCEPT !.next = n]
<1>1. a \in Record /\ a.next = n /\ a.ms = r.ms
  BY DEF Record
<1>2. a.cb = r.cb
  BY DEF Record
<1>3. a.born = r.born
  BY DEF Record
<1> QED BY <1>1, <1>2, <1>3

LEMMA RefreshIs ==
  ASSUME NEW c \in Caller, NEW t \in Timer, Refresh(c, t), TypeInv
  PROVE  LET r == [timer[t] EXCEPT !.next = now + timer[t].ms]
         IN /\ timer' = [timer EXCEPT ![t] = r] /\ timer'[t] = r
            /\ r \in Record /\ Armed(r) /\ r.cb /\ r.born = timer[t].born
            /\ r.next = now + timer[t].ms /\ r.ms = timer[t].ms /\ r.ms \in Delay
<1> DEFINE old == timer[t]
           r   == [old EXCEPT !.next = now + old.ms]
<1>1. old \in Record /\ Armed(old) /\ old.cb /\ now \in Nat
  BY DEF TypeInv, ManagerType, ClockType, Refresh, Has
<1>2. timer' = [timer EXCEPT ![t] = r]
  BY DEF Refresh
<1>3. timer'[t] = r
  BY <1>2 DEF TypeInv, ManagerType
<1> HIDE DEF old
<1> DEFINE next == now + old.ms
<1>5. old.ms \in Delay /\ old.ms \in Nat /\ next \in Nat
  BY <1>1 DEF Record, Armed
<1>4. r.next = next /\ r.ms = old.ms /\ r.cb = old.cb /\ r.born = old.born /\ r \in Record
  <2> HIDE DEF next
  <2>1. r = [old EXCEPT !.next = next]
    BY DEF next
  <2> DEFINE a == [old EXCEPT !.next = next]
  <2>2. a \in Record /\ a.next = next /\ a.ms = old.ms /\ a.cb = old.cb /\ a.born = old.born
    BY <1>1, <1>5, NextSets
  <2> HIDE DEF r, a
  <2> QED BY <2>1, <2>2 DEF a
<1>6. Armed(r)
  BY <1>1, <1>4, <1>5 DEF Armed
<1> HIDE DEF r
<1>7. r.cb
  BY <1>1, <1>4
<1> QED BY <1>2, <1>3, <1>4, <1>5, <1>6, <1>7 DEF r, old

(* A timer with another delay, counted from start. *)
Redelayed(r, ms, start) == [r EXCEPT !.ms = ms, !.next = start + ms]

LEMMA ResetIs ==
  ASSUME NEW c \in Caller, NEW t \in Timer, NEW ms \in Delay, NEW from_now \in BOOLEAN,
         Reset(c, t, ms, from_now), TypeInv,
         NEW start, start = IF from_now THEN now ELSE timer[t].next - timer[t].ms
  PROVE  LET r == Redelayed(timer[t], ms, start)
         IN /\ timer' = [timer EXCEPT ![t] = r] /\ timer'[t] = r
            /\ r \in Record /\ Armed(r) /\ r.cb /\ r.born = timer[t].born
            /\ r.next = start + ms /\ r.ms = ms
<1> DEFINE old   == timer[t]
           r     == Redelayed(old, ms, start)
<1>1. old \in Record /\ Armed(old) /\ old.cb /\ now \in Nat
  BY DEF TypeInv, ManagerType, ClockType, Reset, Has
<1>2. timer' = [timer EXCEPT ![t] = r]
  BY DEF Reset, Redelayed
<1>3. timer'[t] = r
  BY <1>2 DEF TypeInv, ManagerType
<1> HIDE DEF old
<1>4. start \in Nat /\ ms \in Nat
  BY <1>1, ConstantsAre DEF Record, Armed, old
<1> DEFINE next == start + ms
<1>5. r.next = next /\ r.ms = ms /\ r.cb = old.cb /\ r.born = old.born /\ r \in Record
  <2>1. next \in Nat
    BY <1>4
  <2> HIDE DEF next
  <2>2. r = [old EXCEPT !.ms = ms, !.next = next]
    BY DEF next, Redelayed
  <2> DEFINE b == [old EXCEPT !.ms = ms, !.next = next]
  <2>3. ms \in Nat /\ old \in Record
    BY <1>1, <1>4
  <2>4. b \in Record /\ b.next = next /\ b.ms = ms /\ b.cb = old.cb /\ b.born = old.born
    <3>1. b \in Record /\ b.next = next /\ b.ms = ms
      BY <2>1, <2>3 DEF Record
    <3>2. b.cb = old.cb
      BY <2>3 DEF Record
    <3>3. b.born = old.born
      BY <2>3 DEF Record
    <3> QED BY <3>1, <3>2, <3>3
  <2> HIDE DEF r, b
  <2> QED BY <2>2, <2>4 DEF b
<1>6. Armed(r)
  BY <1>4, <1>5 DEF Armed
<1> HIDE DEF r
<1>7. r.cb
  BY <1>1, <1>5
<1> QED BY <1>2, <1>3, <1>5, <1>6, <1>7 DEF r, old

LEMMA ExpiredIs ==
  ASSUME TypeInv, NEW now_ms \in Nat
  PROVE  /\ Expired(now_ms) \subseteq m_timers
         /\ \A t \in Expired(now_ms) : timer[t].next <= now_ms \/ (now_ms < prev - Hour /\ now_ms < prev)
BY DEF Expired, detectClockRollover

LEMMA ExpireIs ==
  ASSUME TypeInv, NEW w \in Worker, Expire(w)
  PROVE  LET now_ms == seen[w].clock
             expired == Expired(now_ms)
         IN /\ now_ms \in Nat /\ expired \subseteq m_timers
            /\ due' = [due EXCEPT ![w] = expired] /\ due'[w] = expired
            /\ m_timers' = {t \in m_timers : t \in expired => t \in Recurring}
            /\ \A t \in Timer : /\ timer'[t] \in Record /\ Armed(timer'[t])
                                /\ t \notin expired => timer'[t] = timer[t] /\ goal'[t] = goal[t]
                                /\ t \in expired \ Recurring => timer'[t] = Over /\ goal'[t] = 0
                                /\ t \in expired \cap Recurring =>
                                      /\ timer'[t].next = now_ms + timer[t].ms /\ timer'[t].ms = timer[t].ms
                                      /\ timer'[t].cb = timer[t].cb /\ timer'[t].born = timer[t].born
                                      /\ goal'[t] = seen[w].real + timer[t].ms
<1> DEFINE now_ms == seen[w].clock
           expired == Expired(now_ms)
<1>1. now_ms \in Nat
  BY DEF TypeInv, WorkerType
<1>2. expired \subseteq m_timers
  BY <1>1, ExpiredIs
<1>3. due' = [due EXCEPT ![w] = expired] /\ m_timers' = {t \in m_timers : t \in expired => t \in Recurring}
  BY DEF Expire
<1>4. due'[w] = expired
  BY <1>3 DEF TypeInv, WorkerType
<1>5. timer' = [t \in Timer |-> IF t \notin expired THEN timer[t]
                                ELSE IF t \in Recurring THEN [timer[t] EXCEPT !.next = now_ms + timer[t].ms]
                                ELSE Over]
  BY DEF Expire
<1>6. goal' = [t \in Timer |-> IF t \notin expired THEN goal[t]
                               ELSE IF t \in Recurring THEN seen[w].real + timer[t].ms ELSE 0]
  BY DEF Expire
<1> HIDE DEF expired, now_ms
<1>7. ASSUME NEW t \in Timer
      PROVE  /\ timer'[t] \in Record /\ Armed(timer'[t])
             /\ t \notin expired => timer'[t] = timer[t] /\ goal'[t] = goal[t]
             /\ t \in expired \ Recurring => timer'[t] = Over /\ goal'[t] = 0
             /\ t \in expired \cap Recurring =>
                   /\ timer'[t].next = now_ms + timer[t].ms /\ timer'[t].ms = timer[t].ms
                   /\ timer'[t].cb = timer[t].cb /\ timer'[t].born = timer[t].born
                   /\ goal'[t] = seen[w].real + timer[t].ms
  <2> DEFINE old == timer[t]
             n   == now_ms + old.ms
             r   == [old EXCEPT !.next = n]
  <2>1. old \in Record /\ Armed(old)
    BY DEF TypeInv, ManagerType
  <2>2. n \in Nat
    BY <1>1, <2>1 DEF Record
  <2>3. CASE t \notin expired
    BY <1>5, <1>6, <2>1, <2>3
  <2>4. CASE t \in expired \ Recurring
    BY <1>5, <1>6, <2>4, OverIs DEF Armed
  <2>5. CASE t \in expired \cap Recurring
    <3>1. timer'[t] = r /\ goal'[t] = seen[w].real + old.ms
      BY <1>5, <1>6, <2>5
    <3> HIDE DEF old, n
    <3>2. r \in Record /\ r.next = n /\ r.ms = old.ms /\ r.cb = old.cb /\ r.born = old.born
      BY <2>1, <2>2, NextSets
    <3> HIDE DEF r
    <3>3. old.cb => old.ms \in Delay /\ old.ms <= n
      BY <1>1, <2>1, ConstantsAre DEF Armed, n, Record
    <3>4. Armed(r)
      BY <3>2, <3>3 DEF Armed
    <3>5. t \in Recurring /\ t \in expired
      BY <2>5
    <3> QED BY <3>1, <3>2, <3>4, <3>5 DEF n, old
  <2> QED BY <2>3, <2>4, <2>5
<1> QED BY <1>1, <1>2, <1>3, <1>4, <1>7 DEF expired, now_ms

(* What a step leaves alone keeps its type. *)
LEMMA TypesKept ==
  ASSUME TypeInv
  PROVE  /\ UNCHANGED clock => ClockType'
         /\ UNCHANGED manager => ManagerType'
         /\ UNCHANGED worker => WorkerType'
         /\ UNCHANGED caller => CallerType'
         /\ UNCHANGED tasks => TaskType'
         /\ UNCHANGED edge => edge' \in BOOLEAN
<1>1. ASSUME UNCHANGED manager PROVE ManagerType'
  BY <1>1 DEF TypeInv, ManagerType, manager
<1>2. ASSUME UNCHANGED worker PROVE WorkerType'
  BY <1>2 DEF TypeInv, WorkerType, worker
<1>3. ASSUME UNCHANGED clock PROVE ClockType'
  BY <1>3 DEF TypeInv, ClockType, clock
<1>4. ASSUME UNCHANGED caller PROVE CallerType'
  BY <1>4 DEF TypeInv, CallerType, caller
<1>5. ASSUME UNCHANGED tasks PROVE TaskType'
  BY <1>5 DEF TypeInv, TaskType, tasks
<1> QED BY <1>1, <1>2, <1>3, <1>4, <1>5 DEF TypeInv

LEMMA TypeCallers ==
  ASSUME TypeInv, NEW c \in Caller,
         Insert(c) \/ Tickle(c) \/ Write(c) \/ \E t \in Timer : Cancel(c, t) \/ Refresh(c, t)
  PROVE  TypeInv'
<1>1. CASE Insert(c)
  <2>1. PICK t \in made[c] : Add(c, t, [u \in Timer |-> timer[u].next])
    BY <1>1 DEF Insert
  <2>2. t \in Timer
    BY DEF TypeInv, CallerType
  <2>3. /\ IsFiniteSet(m_timers') /\ m_timers' \subseteq Timer /\ tickled' \in BOOLEAN
        /\ cpc' = [cpc EXCEPT ![c] = cpc'[c]] /\ cpc'[c] \in {"front", "ready"}
    BY <2>1, <2>2, AddIs
  <2>4. made' = [made EXCEPT ![c] = {}] /\ UNCHANGED <<clock, prev, timer, goal, cancelled, edge, worker, tasks>>
    BY <1>1 DEF Insert
  <2>5. CallerType'
    BY <2>3, <2>4 DEF TypeInv, CallerType
  <2>6. ManagerType'
    BY <2>3, <2>4 DEF TypeInv, ManagerType
  <2> QED BY <2>4, <2>5, <2>6, TypesKept DEF TypeInv
<1>2. CASE Tickle(c)
  <2>1. CallerType'
    <3> DEFINE to == IF \E w \in Worker : pc[w] # "run" THEN "write" ELSE "ready"
    <3>1. cpc' = [cpc EXCEPT ![c] = to] /\ made' = made /\ to \in {"ready", "write"}
      BY <1>2 DEF Tickle
    <3> HIDE DEF to
    <3> QED BY <3>1 DEF TypeInv, CallerType
  <2> QED BY <1>2, <2>1, TypesKept DEF TypeInv, Tickle
<1>3. CASE Write(c)
  <2>1. CallerType' /\ edge' \in BOOLEAN
    BY <1>3 DEF TypeInv, CallerType, Write
  <2> QED BY <1>3, <2>1, TypesKept DEF TypeInv, Write
<1>4. ASSUME NEW t \in Timer, Cancel(c, t) PROVE TypeInv'
  <2>1. /\ timer' = [timer EXCEPT ![t] = Over] /\ goal' = [goal EXCEPT ![t] = 0] /\ prev' = prev
        /\ m_timers' = m_timers \ {t} /\ tickled' = tickled /\ cancelled' \subseteq cancelled \cup {t}
    BY <1>4 DEF Cancel
  <2>2. IsFiniteSet(m_timers')
    BY <2>1, FS_Subset DEF TypeInv, ManagerType
  <2>3. tickled' \in BOOLEAN /\ cancelled' \subseteq Timer /\ m_timers' \subseteq Timer
    BY <2>1 DEF TypeInv, ManagerType
  <2>4. Over \in Record /\ Armed(Over) /\ 0 \in Int
    BY OverIs DEF Armed
  <2>5. ManagerType'
    BY <2>1, <2>2, <2>3, <2>4, ManagerSets
  <2> QED BY <1>4, <2>5, TypesKept DEF TypeInv, Cancel
<1>5. ASSUME NEW t \in Timer, Refresh(c, t) PROVE TypeInv'
  <2> DEFINE r == [timer[t] EXCEPT !.next = now + timer[t].ms]
             g == Passed + timer[t].ms
  <2>1. timer' = [timer EXCEPT ![t] = r] /\ r \in Record /\ Armed(r)
    BY <1>5, RefreshIs
  <2>2. goal' = [goal EXCEPT ![t] = g] /\ UNCHANGED <<prev, m_timers, tickled, cancelled>>
    BY <1>5 DEF Refresh
  <2>3. g \in Int
    BY DEF TypeInv, ManagerType, ClockType, Passed, Record
  <2>4. /\ m_timers' \subseteq Timer /\ IsFiniteSet(m_timers') /\ tickled' \in BOOLEAN
        /\ cancelled' \subseteq Timer /\ prev' = prev
    BY <2>2 DEF TypeInv, ManagerType
  <2> HIDE DEF r, g
  <2>5. ManagerType'
    BY <2>1, <2>2, <2>3, <2>4, ManagerSets
  <2> QED BY <1>5, <2>5, TypesKept DEF TypeInv, Refresh
<1> QED BY <1>1, <1>2, <1>3, <1>4, <1>5

LEMMA TypeNew ==
  ASSUME TypeInv, NEW c \in Caller, NEW t \in Timer, NEW ms \in Delay, New(c, t, ms) PROVE TypeInv'
<1> DEFINE r == [next |-> now + ms, ms |-> ms, cb |-> TRUE, born |-> TRUE]
           g == Passed + ms
<1>1. r \in Record /\ Armed(r)
  BY NewIs
<1>2. timer' = [timer EXCEPT ![t] = r] /\ goal' = [goal EXCEPT ![t] = g] /\ UNCHANGED <<prev, m_timers, tickled, cancelled>>
  BY DEF New
<1>3. g \in Int
  BY ConstantsAre DEF TypeInv, ClockType, Passed
<1>4. /\ m_timers' \subseteq Timer /\ IsFiniteSet(m_timers') /\ tickled' \in BOOLEAN
      /\ cancelled' \subseteq Timer /\ prev' = prev
  BY <1>2 DEF TypeInv, ManagerType
<1> HIDE DEF r, g
<1>5. ManagerType'
  BY <1>1, <1>2, <1>3, <1>4, ManagerSets
<1>6. CallerType'
  BY DEF TypeInv, CallerType, New
<1> QED BY <1>5, <1>6, TypesKept DEF TypeInv, New

LEMMA TypeReset ==
  ASSUME TypeInv, NEW c \in Caller, NEW t \in Timer, NEW ms \in Delay, NEW from_now \in BOOLEAN,
         Reset(c, t, ms, from_now)
  PROVE  TypeInv'
<1> DEFINE start == IF from_now THEN now ELSE timer[t].next - timer[t].ms
           r     == Redelayed(timer[t], ms, start)
           g     == IF from_now THEN Passed + ms ELSE goal[t] - timer[t].ms + ms
<1>0. start = IF from_now THEN now ELSE timer[t].next - timer[t].ms
  OBVIOUS
<1> HIDE DEF start
<1>1. timer' = [timer EXCEPT ![t] = r] /\ r \in Record /\ Armed(r)
  BY <1>0, ResetIs
<1>2. /\ goal' = [goal EXCEPT ![t] = g] /\ Add(c, t, [u \in Timer |-> timer'[u].next])
      /\ UNCHANGED <<clock, prev, cancelled, edge, worker, made, tasks>>
  BY DEF Reset
<1>3. g \in Int
  <2>1. now \in Int /\ back \in Int /\ ms \in Int /\ timer[t].ms \in Int /\ goal[t] \in Int
    BY ConstantsAre DEF TypeInv, ManagerType, ClockType, Record
  <2> QED BY <2>1 DEF Passed
<1> HIDE DEF r, g
<1>4. /\ IsFiniteSet(m_timers') /\ m_timers' \subseteq Timer /\ tickled' \in BOOLEAN
      /\ cpc' = [cpc EXCEPT ![c] = cpc'[c]] /\ cpc'[c] \in {"front", "ready"}
  BY <1>2, AddIs
<1>5. prev' = prev /\ cancelled' \subseteq Timer
  BY <1>2 DEF TypeInv, ManagerType
<1>6. ManagerType'
  BY <1>1, <1>2, <1>3, <1>4, <1>5, ManagerSets
<1>7. CallerType'
  BY <1>2, <1>4 DEF TypeInv, CallerType
<1> QED BY <1>2, <1>6, <1>7, TypesKept DEF TypeInv

LEMMA TypeWorkers == ASSUME TypeInv, NEW w \in Worker, Loop(w) \/ Event(w) PROVE TypeInv'
<1>1. ASSUME NEW t \in Timer, RunTask(w, t) PROVE TypeInv'
  <2>1. TaskType'
    BY <1>1 DEF TypeInv, TaskType, RunTask
  <2> QED BY <1>1, <2>1, TypesKept DEF TypeInv, RunTask
<1>2. CASE Rest(w)
  <2>1. WorkerType'
    BY <1>2 DEF TypeInv, WorkerType, Rest, Goes
  <2> QED BY <1>2, <2>1, TypesKept DEF TypeInv, Rest
<1>3. CASE Look(w)
  <2>1. WorkerType'
    BY <1>3, TimeoutTyped DEF TypeInv, WorkerType, Look, Goes
  <2>2. ManagerType'
    BY <1>3 DEF TypeInv, ManagerType, Look
  <2> QED BY <1>3, <2>1, <2>2, TypesKept DEF TypeInv, Look
<1>4. CASE Returns(w)
  <2>1. WorkerType'
    <3> DEFINE s == [clock |-> now, real |-> Passed]
    <3>1. s \in [clock : Nat, real : Nat]
      BY DEF TypeInv, ClockType, Passed
    <3>2. pc' = [pc EXCEPT ![w] = "expire"] /\ left' = [left EXCEPT ![w] = 0] /\ seen' = [seen EXCEPT ![w] = s]
          /\ due' = due
      BY <1>4 DEF Returns, Goes
    <3> HIDE DEF s
    <3> QED BY <3>1, <3>2 DEF TypeInv, WorkerType
  <2>2. edge' \in BOOLEAN
    BY <1>4 DEF Returns
  <2> QED BY <1>4, <2>1, <2>2, TypesKept DEF TypeInv, Returns
<1>5. CASE Expire(w)
  <2> DEFINE now_ms == seen[w].clock
             expired == Expired(now_ms)
             nil == [clock |-> 0, real |-> 0]
  <2>1. /\ now_ms \in Nat /\ expired \subseteq m_timers /\ due' = [due EXCEPT ![w] = expired]
        /\ m_timers' = {t \in m_timers : t \in expired => t \in Recurring}
        /\ \A t \in Timer : timer'[t] \in Record /\ Armed(timer'[t])
    BY <1>5, ExpireIs
  <2>2. /\ pc' = [pc EXCEPT ![w] = "schedule"] /\ left' = left /\ seen' = [seen EXCEPT ![w] = nil]
        /\ prev' \in {prev, now_ms} /\ tickled' = tickled /\ cancelled' = cancelled
        /\ UNCHANGED <<clock, edge, caller, tasks>>
    BY <1>5 DEF Expire, Goes
  <2>3. timer' \in [Timer -> Record]
    <3>1. timer' = [t \in Timer |-> timer'[t]]
      BY <1>5 DEF Expire
    <3> QED BY <2>1, <3>1
  <2>4. goal' \in [Timer -> Int]
    <3> DEFINE g(t) == IF t \notin expired THEN goal[t]
                       ELSE IF t \in Recurring THEN seen[w].real + timer[t].ms ELSE 0
    <3>1. goal' = [t \in Timer |-> g(t)]
      BY <1>5 DEF Expire
    <3>2. ASSUME NEW t \in Timer PROVE g(t) \in Int
      <4>1. goal[t] \in Int /\ seen[w].real \in Int /\ timer[t].ms \in Int
        BY DEF TypeInv, ManagerType, WorkerType, Record
      <4> QED BY <4>1
    <3> QED BY <3>1, <3>2
  <2> HIDE DEF expired, now_ms
  <2>5. ManagerType'
    <3>1. IsFiniteSet(m_timers') /\ m_timers' \subseteq Timer
      BY <2>1, FS_Subset DEF TypeInv, ManagerType
    <3>2. prev' \in Nat /\ tickled' \in BOOLEAN /\ cancelled' \subseteq Timer
      BY <2>1, <2>2 DEF TypeInv, ManagerType
    <3> QED BY <2>1, <2>3, <2>4, <3>1, <3>2 DEF ManagerType
  <2>6. WorkerType'
    <3>1. nil \in [clock : Nat, real : Nat]
      OBVIOUS
    <3>2. expired \in SUBSET Timer
      BY <2>1 DEF TypeInv, ManagerType
    <3> HIDE DEF nil
    <3> QED BY <2>1, <2>2, <3>1, <3>2 DEF TypeInv, WorkerType
  <2> QED BY <2>2, <2>5, <2>6, TypesKept DEF TypeInv
<1>6. CASE Schedule(w)
  <2>1. WorkerType'
    BY <1>6 DEF TypeInv, WorkerType, Schedule, Goes
  <2>2. edge' \in BOOLEAN /\ TaskType'
    BY <1>6 DEF TypeInv, WorkerType, TaskType, Schedule
  <2> QED BY <1>6, <2>1, <2>2, TypesKept DEF TypeInv, Schedule
<1> QED BY <1>1, <1>2, <1>3, <1>4, <1>5, <1>6 DEF Loop, Event, Wake

LEMMA TypeTime == ASSUME TypeInv, Tick \/ \E k \in Steps : SetBack(k) PROVE TypeInv'
<1>1. CASE Tick
  <2>1. ClockType'
    BY <1>1 DEF TypeInv, ClockType, Tick
  <2>2. WorkerType'
    <3>1. \A w \in Worker : left[w] \in Int
      BY DEF TypeInv, WorkerType
    <3>2. left' = [w \in Worker |-> IF left[w] > 0 THEN left[w] - 1 ELSE left[w]] /\ UNCHANGED <<pc, seen, due>>
      BY <1>1 DEF Tick
    <3>3. left' \in [Worker -> Int]
      BY <3>1, <3>2
    <3> QED BY <3>2, <3>3 DEF TypeInv, WorkerType
  <2> QED BY <1>1, <2>1, <2>2, TypesKept DEF TypeInv, Tick
<1>2. ASSUME NEW k \in Steps, SetBack(k) PROVE TypeInv'
  <2>1. ClockType'
    BY <1>2, ConstantsAre DEF TypeInv, ClockType, SetBack
  <2> QED BY <1>2, <2>1, TypesKept DEF TypeInv, SetBack
<1> QED BY <1>1, <1>2

LEMMA TypeStep == ASSUME TypeInv, [Next]_vars PROVE TypeInv'
<1>1. CASE UNCHANGED vars
  BY <1>1, TypesKept DEF TypeInv, vars
<1>2. ASSUME NEW c \in Caller, Call(c) PROVE TypeInv'
  BY <1>2, TypeCallers, TypeNew, TypeReset DEF Call
<1> QED BY <1>1, <1>2, TypeWorkers, TypeTime DEF Next

LEMMA TypeAlways == Spec => []TypeInv
BY TypeInit, TypeStep, PTL DEF Spec

(* Every variable has its type. *)
THEOREM TimersTypeCorrect == Spec => []TypeOK
<1>1. TypeInv => TypeOK
  BY DEF TypeInv, TypeOK, ClockType, ManagerType, WorkerType, CallerType, TaskType, Record
<1> QED BY <1>1, TypeAlways, PTL

------------------------------------------------------------------------------
(* No timer runs early *)

(* What a worker has read of the clock: at most MaxStall ago, and off by   *)
(* no more than the clock was set back.  The same is true of the time at   *)
(* which a timer is to run.                                                *)
ReadBy(w) == /\ seen[w].clock <= seen[w].real /\ seen[w].real <= seen[w].clock + back
             /\ seen[w].real <= Passed
             /\ pc[w] = "expire" => Passed <= seen[w].real + MaxStall
Meant(t) == timer[t].cb => goal[t] <= timer[t].next + back

TimeRead == prev <= Passed /\ (\A w \in Worker : ReadBy(w)) /\ \A t \in Timer : Meant(t)

LEMMA Numbers ==
  ASSUME TypeInv
  PROVE  /\ now \in Nat /\ back \in Nat /\ prev \in Nat /\ Passed \in Nat /\ Passed = now + back
         /\ \A t \in Timer : timer[t].next \in Nat /\ timer[t].ms \in Nat /\ goal[t] \in Int
         /\ \A w \in Worker : seen[w].clock \in Nat /\ seen[w].real \in Nat /\ left[w] \in Int
BY DEF TypeInv, ClockType, ManagerType, WorkerType, Record, Passed

LEMMA TimeReadInit == Init => TimeRead
<1> SUFFICES ASSUME Init PROVE TimeRead
  OBVIOUS
<1>1. ASSUME NEW t \in Timer PROVE Meant(t)
  <2>1. timer[t] = Unborn /\ ~Unborn.cb
    BY DEF Init, Unborn
  <2> QED BY <2>1 DEF Meant
<1>2. ASSUME NEW w \in Worker PROVE ReadBy(w)
  <2>1. seen[w] = [clock |-> 0, real |-> 0] /\ pc[w] = "run" /\ now = 0 /\ back = 0
    BY DEF Init
  <2> QED BY <2>1 DEF ReadBy, Passed
<1>3. prev <= Passed
  BY DEF Init, Passed
<1> QED BY <1>1, <1>2, <1>3 DEF TimeRead

(* A step that does not touch the clock. *)
LEMMA TimeReadKept ==
  ASSUME TypeInv, TimeRead, UNCHANGED clock
  PROVE  /\ Passed' = Passed /\ back' = back /\ now' = now
         /\ UNCHANGED <<pc, seen>> => \A w \in Worker : ReadBy(w)'
         /\ \A t \in Timer : timer'[t] = timer[t] /\ goal'[t] = goal[t] => Meant(t)'
BY DEF TimeRead, ReadBy, Meant, Passed, clock

LEMMA TimeReadCallers ==
  ASSUME TypeInv, TimeRead, NEW c \in Caller, Call(c) PROVE TimeRead'
<1>1. UNCHANGED <<clock, prev, pc, seen>>
  <2>1. UNCHANGED <<clock, prev, worker>>
    BY DEF Call, Insert, Tickle, Write, New, Cancel, Refresh, Reset, manager
  <2> QED BY <2>1 DEF worker
<1>2. prev' <= Passed' /\ \A w \in Worker : ReadBy(w)'
  BY <1>1, TimeReadKept DEF TimeRead
<1>3. ASSUME NEW t \in Timer, NEW r, NEW g, timer' = [timer EXCEPT ![t] = r], goal' = [goal EXCEPT ![t] = g],
             r.cb => g <= r.next + back
      PROVE  TimeRead'
  <2>1. Meant(t)'
    BY <1>1, <1>3, TimeReadKept DEF Meant, TypeInv, ManagerType
  <2>2. ASSUME NEW u \in Timer, u # t PROVE Meant(u)'
    BY <1>1, <1>3, <2>2, TimeReadKept DEF TypeInv, ManagerType
  <2> QED BY <1>2, <2>1, <2>2 DEF TimeRead
<1>4. CASE Insert(c) \/ Tickle(c) \/ Write(c)
  <2>1. timer' = timer /\ goal' = goal
    BY <1>4 DEF Insert, Tickle, Write, manager
  <2> QED BY <1>1, <1>2, <2>1, TimeReadKept DEF TimeRead
<1>5. ASSUME NEW t \in Timer, NEW ms \in Delay, New(c, t, ms) PROVE TimeRead'
  <2> DEFINE r == [next |-> now + ms, ms |-> ms, cb |-> TRUE, born |-> TRUE]
             g == Passed + ms
  <2>1. timer' = [timer EXCEPT ![t] = r] /\ goal' = [goal EXCEPT ![t] = g]
    BY <1>5 DEF New
  <2>2. r.next = now + ms
    OBVIOUS
  <2>3. g <= r.next + back
    BY <2>2, Numbers, ConstantsAre
  <2> HIDE DEF r, g
  <2> QED BY <1>3, <2>1, <2>3
<1>6. ASSUME NEW t \in Timer, Cancel(c, t) PROVE TimeRead'
  <2>1. timer' = [timer EXCEPT ![t] = Over] /\ goal' = [goal EXCEPT ![t] = 0] /\ ~Over.cb
    BY <1>6, OverIs DEF Cancel
  <2> QED BY <1>3, <2>1
<1>7. ASSUME NEW t \in Timer, Refresh(c, t) PROVE TimeRead'
  <2> DEFINE r == [timer[t] EXCEPT !.next = now + timer[t].ms]
             g == Passed + timer[t].ms
  <2>1. timer' = [timer EXCEPT ![t] = r] /\ r.next = now + timer[t].ms
    BY <1>7, RefreshIs
  <2>2. goal' = [goal EXCEPT ![t] = g]
    BY <1>7 DEF Refresh
  <2> HIDE DEF r
  <2>3. g <= r.next + back
    BY <2>1, Numbers
  <2> HIDE DEF g
  <2> QED BY <1>3, <2>1, <2>2, <2>3
<1>8. ASSUME NEW t \in Timer, NEW ms \in Delay, NEW from_now \in BOOLEAN, Reset(c, t, ms, from_now) PROVE TimeRead'
  <2> DEFINE start == IF from_now THEN now ELSE timer[t].next - timer[t].ms
             r     == Redelayed(timer[t], ms, start)
             g     == IF from_now THEN Passed + ms ELSE goal[t] - timer[t].ms + ms
  <2>0. start = IF from_now THEN now ELSE timer[t].next - timer[t].ms
    OBVIOUS
  <2>1. goal' = [goal EXCEPT ![t] = g]
    BY <1>8 DEF Reset
  <2>2. timer[t].cb /\ Meant(t)
    BY <1>8 DEF Reset, Has, TimeRead
  <2>3. g <= start + ms + back
    BY <2>2, Numbers, ConstantsAre DEF Meant
  <2> HIDE DEF start
  <2>4. timer' = [timer EXCEPT ![t] = r] /\ r.next = start + ms
    BY <1>8, <2>0, ResetIs
  <2> HIDE DEF r, g
  <2> QED BY <1>3, <2>1, <2>3, <2>4
<1> QED BY <1>4, <1>5, <1>6, <1>7, <1>8 DEF Call

LEMMA TimeReadWorkers ==
  ASSUME TypeInv, TimeRead, NEW w \in Worker, Loop(w) \/ Event(w) PROVE TimeRead'
<1>1. CASE Returns(w)
  <2> DEFINE s == [clock |-> now, real |-> Passed]
  <2>1. UNCHANGED <<clock, manager>> /\ seen' = [seen EXCEPT ![w] = s] /\ pc' = [pc EXCEPT ![w] = "expire"]
    BY <1>1 DEF Returns, Goes
  <2>2. s.clock = now /\ s.real = Passed
    OBVIOUS
  <2> HIDE DEF s
  <2>3. Passed' = Passed /\ back' = back /\ now' = now /\ prev' = prev /\ \A t \in Timer : Meant(t)'
    BY <2>1, TimeReadKept DEF manager
  <2>4. ReadBy(w)'
    <3>1. seen'[w] = s
      BY <2>1 DEF TypeInv, WorkerType
    <3> QED BY <2>2, <2>3, <3>1, Numbers, ConstantsAre DEF ReadBy
  <2>5. ASSUME NEW v \in Worker, v # w PROVE ReadBy(v)'
    <3>1. seen'[v] = seen[v] /\ pc'[v] = pc[v] /\ ReadBy(v)
      BY <2>1, <2>5 DEF TypeInv, WorkerType, TimeRead
    <3> QED BY <2>3, <3>1 DEF ReadBy
  <2> QED BY <2>3, <2>4, <2>5 DEF TimeRead
<1>2. CASE Expire(w)
  <2> DEFINE nil == [clock |-> 0, real |-> 0]
             expired == Expired(seen[w].clock)
  <2>1. UNCHANGED clock /\ seen' = [seen EXCEPT ![w] = nil] /\ pc' = [pc EXCEPT ![w] = "schedule"]
        /\ prev' \in {prev, seen[w].clock}
    BY <1>2 DEF Expire, Goes
  <2>2. nil.clock = 0 /\ nil.real = 0
    OBVIOUS
  <2> HIDE DEF nil
  <2>3. Passed' = Passed /\ back' = back /\ now' = now
    BY <2>1, TimeReadKept
  <2>4. ReadBy(w)'
    <3>1. seen'[w] = nil /\ pc'[w] = "schedule"
      BY <2>1 DEF TypeInv, WorkerType
    <3> QED BY <2>2, <2>3, <3>1, Numbers DEF ReadBy
  <2>5. ASSUME NEW v \in Worker, v # w PROVE ReadBy(v)'
    <3>1. seen'[v] = seen[v] /\ pc'[v] = pc[v] /\ ReadBy(v)
      BY <2>1, <2>5 DEF TypeInv, WorkerType, TimeRead
    <3> QED BY <2>3, <3>1 DEF ReadBy
  <2>6. ReadBy(w) /\ prev <= Passed
    BY DEF TimeRead
  <2>7. prev' <= Passed'
    BY <2>1, <2>3, <2>6, Numbers DEF ReadBy
  <2>8. ASSUME NEW t \in Timer PROVE Meant(t)'
    <3>1. /\ t \notin expired => timer'[t] = timer[t] /\ goal'[t] = goal[t]
          /\ t \in expired \ Recurring => timer'[t] = Over
          /\ t \in expired \cap Recurring => /\ timer'[t].next = seen[w].clock + timer[t].ms
                                             /\ goal'[t] = seen[w].real + timer[t].ms
      BY <1>2, ExpireIs
    <3> HIDE DEF expired
    <3>2. CASE t \notin expired
      BY <2>1, <3>1, <3>2, TimeReadKept
    <3>3. CASE t \in expired \ Recurring
      BY <3>1, <3>3, OverIs DEF Meant
    <3>4. CASE t \in expired \cap Recurring
      <4>1. seen[w].real <= seen[w].clock + back
        BY <2>6 DEF ReadBy
      <4>2. seen[w].real + timer[t].ms <= seen[w].clock + timer[t].ms + back
        BY <4>1, Numbers
      <4> QED BY <2>3, <3>1, <3>4, <4>2 DEF Meant
    <3> QED BY <3>2, <3>3, <3>4
  <2> QED BY <2>4, <2>5, <2>7, <2>8 DEF TimeRead
<1>3. ASSUME UNCHANGED <<clock, prev, timer, goal, seen>>,
             NEW from \in {"run", "idle", "schedule"}, NEW to \in {"idle", "wait", "run"},
             pc' = [pc EXCEPT ![w] = to]
      PROVE  TimeRead'
  <2>1. Passed' = Passed /\ back' = back /\ prev' = prev /\ \A t \in Timer : Meant(t)'
    BY <1>3, TimeReadKept
  <2>2. ASSUME NEW v \in Worker PROVE ReadBy(v)'
    <3>1. seen'[v] = seen[v] /\ (pc'[v] = "expire" => pc[v] = "expire") /\ ReadBy(v)
      BY <1>3 DEF TypeInv, WorkerType, TimeRead
    <3> QED BY <2>1, <3>1 DEF ReadBy
  <2> QED BY <2>1, <2>2 DEF TimeRead
<1>4. CASE Rest(w) \/ Look(w) \/ Schedule(w)
  BY <1>3, <1>4 DEF Rest, Look, Schedule, Goes, manager
<1>5. ASSUME NEW t \in Timer, RunTask(w, t) PROVE TimeRead'
  <2>1. UNCHANGED <<clock, prev, timer, goal, seen, pc>>
    BY <1>5 DEF RunTask, manager, worker
  <2> QED BY <2>1, TimeReadKept DEF TimeRead
<1> QED BY <1>1, <1>2, <1>4, <1>5 DEF Loop, Event, Wake

LEMMA TimeReadTime == ASSUME TypeInv, TimeRead, Tick \/ \E k \in Steps : SetBack(k) PROVE TimeRead'
<1>1. CASE Tick
  <2>1. /\ now' \in {now, now + 1} /\ UNCHANGED <<back, prev, timer, goal, pc, seen>>
        /\ \A w \in Worker : pc[w] = "expire" => Passed < seen[w].real + MaxStall
    BY <1>1 DEF Tick, manager
  <2>2. Passed' \in {Passed, Passed + 1} /\ Passed \in Nat
    BY <2>1, Numbers DEF Passed
  <2>3. ASSUME NEW w \in Worker PROVE ReadBy(w)'
    <3>1. ReadBy(w) /\ seen[w].real \in Nat /\ (pc[w] = "expire" => Passed < seen[w].real + MaxStall)
      BY <2>1, Numbers DEF TimeRead
    <3> QED BY <2>1, <2>2, <3>1, ConstantsAre DEF ReadBy
  <2>4. prev' <= Passed' /\ \A t \in Timer : Meant(t)'
    BY <2>1, <2>2, Numbers DEF TimeRead, Meant
  <2> QED BY <2>3, <2>4 DEF TimeRead
<1>2. ASSUME NEW k \in Steps, SetBack(k) PROVE TimeRead'
  <2>1. back = 0 /\ back' = k /\ now' = now - k /\ k \in Nat /\ UNCHANGED <<prev, timer, goal, pc, seen>>
    BY <1>2, ConstantsAre DEF SetBack, manager, worker
  <2>2. Passed' = Passed
    BY <2>1, Numbers DEF Passed
  <2>3. ASSUME NEW w \in Worker PROVE ReadBy(w)'
    <3>1. ReadBy(w) /\ seen[w].clock \in Nat /\ seen[w].real \in Nat
      BY Numbers DEF TimeRead
    <3> QED BY <2>1, <2>2, <3>1 DEF ReadBy
  <2>4. ASSUME NEW t \in Timer PROVE Meant(t)'
    <3>1. Meant(t) /\ goal[t] \in Int /\ timer[t].next \in Int
      BY Numbers DEF TimeRead
    <3> QED BY <2>1, <3>1 DEF Meant
  <2> QED BY <2>1, <2>2, <2>3, <2>4 DEF TimeRead
<1> QED BY <1>1, <1>2

LEMMA TimeReadStep == ASSUME TypeInv, TimeRead, [Next]_vars PROVE TimeRead'
<1>1. CASE UNCHANGED vars
  BY <1>1, TimeReadKept DEF TimeRead, vars, manager, worker
<1> QED BY <1>1, TimeReadCallers, TimeReadWorkers, TimeReadTime DEF Next

LEMMA TimeReadAlways == Spec => [](TypeInv /\ TimeRead)
BY TypeInit, TypeStep, TimeReadInit, TimeReadStep, PTL DEF Spec

------------------------------------------------------------------------------
(* One fate *)

(* A callback is with a timer of the set, or with one that a caller is     *)
(* about to insert, and cancel() leaves none.                              *)
Making(t) == \E c \in Caller : t \in made[c]
Fate(t) ==
  /\ timer[t].cb <=> t \in m_timers \/ Making(t)
  /\ timer[t].cb => timer[t].born
  /\ t \in cancelled => timer[t].born /\ ~timer[t].cb
  /\ Making(t) => t \notin m_timers
  /\ \A c, d \in Caller : t \in made[c] /\ t \in made[d] => c = d

(* What has happened to a one-shot timer excludes everything else.         *)
Taken(t) == \E w \in Worker : t \in due[w]
Once(t) ==
  /\ Taken(t) \/ t \in queue \/ t \in ran => timer[t].born /\ ~timer[t].cb
  /\ timer[t].born /\ ~timer[t].cb => Taken(t) \/ t \in queue \/ t \in ran \/ t \in cancelled
  /\ Taken(t) => t \notin queue /\ t \notin ran /\ t \notin cancelled
  /\ t \in queue => t \notin ran /\ t \notin cancelled
  /\ t \in ran => t \notin cancelled
  /\ \A v, w \in Worker : t \in due[v] /\ t \in due[w] => v = w

Hands ==
  /\ \A c \in Caller : cpc[c] # "insert" => made[c] = {}
  /\ \A c \in Caller : \A t, u \in made[c] : t = u
  /\ \A w \in Worker : pc[w] # "schedule" => due[w] = {}

Fates == Hands /\ \A t \in Timer : Fate(t) /\ (t \notin Recurring => Once(t))

LEMMA FatesInit == Init => Fates
<1> SUFFICES ASSUME Init PROVE Fates
  OBVIOUS
<1>1. ASSUME NEW t \in Timer PROVE timer[t].cb = FALSE /\ timer[t].born = FALSE
  BY DEF Init, Unborn
<1>2. /\ m_timers = {} /\ queue = {} /\ ran = {} /\ cancelled = {}
      /\ \A c \in Caller : made[c] = {} 
      /\ \A w \in Worker : due[w] = {}
  BY DEF Init
<1>3. Hands
  BY <1>2 DEF Hands
<1>4. ASSUME NEW t \in Timer PROVE Fate(t) /\ Once(t)
  BY <1>1, <1>2 DEF Fate, Once, Making, Taken
<1> QED BY <1>3, <1>4 DEF Fates

(* A step that keeps what the fates are made of. *)
Alike(t) ==
  /\ timer'[t].cb <=> timer[t].cb
  /\ timer'[t].born <=> timer[t].born
  /\ t \in m_timers' <=> t \in m_timers
  /\ t \in queue' <=> t \in queue
  /\ t \in ran' <=> t \in ran
  /\ t \in cancelled' <=> t \in cancelled
  /\ \A c \in Caller : t \in made'[c] <=> t \in made[c]
  /\ \A w \in Worker : t \in due'[w] <=> t \in due[w]

LEMMA FateKept ==
  ASSUME Fates, NEW t \in Timer, Alike(t)
  PROVE  Fate(t)' /\ (t \notin Recurring => Once(t)')
<1>1. (Making(t)' <=> Making(t)) /\ (Taken(t)' <=> Taken(t))
  BY DEF Alike, Making, Taken
<1>2. Fate(t)'
  BY <1>1 DEF Alike, Fates, Fate
<1>3. ASSUME t \notin Recurring PROVE Once(t)'
  BY <1>1, <1>3 DEF Alike, Fates, Once
<1> QED BY <1>2, <1>3

LEMMA HandsKept ==
  ASSUME Fates
  PROVE  /\ UNCHANGED caller /\ UNCHANGED <<pc, due>> => Hands'
         /\ UNCHANGED caller => \A c \in Caller : /\ cpc'[c] # "insert" => made'[c] = {}
                                                 /\ \A t, u \in made'[c] : t = u
         /\ UNCHANGED <<pc, due>> => \A w \in Worker : pc'[w] # "schedule" => due'[w] = {}
BY DEF Fates, Hands, caller

LEMMA FatesInsert == ASSUME TypeInv, Fates, NEW c \in Caller, Insert(c) PROVE Fates'
<1>1. PICK t \in made[c] : Add(c, t, [u \in Timer |-> timer[u].next])
  BY DEF Insert
<1>2. t \in Timer /\ made[c] = {t} /\ Making(t)
  BY DEF TypeInv, CallerType, Fates, Hands, Making
<1>3. /\ m_timers' = m_timers \cup {t} /\ cpc' = [cpc EXCEPT ![c] = cpc'[c]] /\ cpc'[c] \in {"front", "ready"}
  BY <1>1, <1>2, AddIs
<1>4. /\ made' = [made EXCEPT ![c] = {}] 
      /\ UNCHANGED <<timer, cancelled, pc, due, queue, ran>>
  BY DEF Insert, worker, tasks
<1>5. /\ made'[c] = {} /\ \A d \in Caller : d # c => made'[d] = made[d] /\ cpc'[d] = cpc[d]
  BY <1>3, <1>4 DEF TypeInv, CallerType
<1>6. Hands'
  BY <1>3, <1>4, <1>5 DEF Fates, Hands
<1>7. ~Making(t)'
  <2>1. ASSUME NEW d \in Caller, t \in made'[d] PROVE FALSE
    BY <1>2, <1>5, <2>1 DEF Fates, Fate
  <2> QED BY <2>1 DEF Making
<1>8. Fate(t)'
  BY <1>2, <1>3, <1>4, <1>7 DEF Fates, Fate, Making
<1>9. Taken(t)' <=> Taken(t)
  BY <1>4 DEF Taken
<1>10. ASSUME t \notin Recurring PROVE Once(t)'
  BY <1>2, <1>4, <1>9, <1>10 DEF Fates, Once
<1>11. ASSUME NEW u \in Timer, u # t PROVE Alike(u)
  BY <1>2, <1>3, <1>4, <1>5, <1>11 DEF Alike
<1> QED BY <1>2, <1>6, <1>8, <1>10, <1>11, FateKept DEF Fates

LEMMA FatesNew ==
  ASSUME TypeInv, Fates, NEW c \in Caller, NEW t \in Timer, NEW ms \in Delay, New(c, t, ms) PROVE Fates'
<1> DEFINE r == [next |-> now + ms, ms |-> ms, cb |-> TRUE, born |-> TRUE]
<1>1. /\ timer' = [timer EXCEPT ![t] = r] /\ ~timer[t].born /\ cpc[c] = "ready"
      /\ cpc' = [cpc EXCEPT ![c] = "insert"] /\ made' = [made EXCEPT ![c] = {t}]
      /\ UNCHANGED <<m_timers, cancelled, pc, due, queue, ran>>
  BY DEF New, worker, tasks
<1>2. r.cb /\ r.born
  OBVIOUS
<1> HIDE DEF r
<1>3. timer'[t] = r /\ \A u \in Timer : u # t => timer'[u] = timer[u]
  BY <1>1 DEF TypeInv, ManagerType
<1>4. /\ made'[c] = {t} /\ made[c] = {} /\ cpc'[c] = "insert"
      /\ \A d \in Caller : d # c => made'[d] = made[d] /\ cpc'[d] = cpc[d]
  BY <1>1 DEF TypeInv, CallerType, Fates, Hands
<1>5. Hands'
  BY <1>1, <1>4 DEF Fates, Hands
<1>6. ~timer[t].cb /\ t \notin m_timers /\ ~Making(t) /\ t \notin cancelled
  BY <1>1 DEF Fates, Fate
<1>7. Making(t)' /\ \A d \in Caller : t \in made'[d] => d = c
  BY <1>4, <1>6 DEF Making
<1>8. Fate(t)'
  BY <1>1, <1>2, <1>3, <1>6, <1>7 DEF Fate
<1>9. Taken(t)' <=> Taken(t)
  BY <1>1 DEF Taken
<1>10. ASSUME t \notin Recurring PROVE Once(t)'
  BY <1>1, <1>2, <1>3, <1>9, <1>10 DEF Fates, Once
<1>11. ASSUME NEW u \in Timer, u # t PROVE Alike(u)
  BY <1>1, <1>3, <1>4, <1>11 DEF Alike
<1> QED BY <1>5, <1>8, <1>10, <1>11, FateKept DEF Fates

LEMMA FatesCancel ==
  ASSUME TypeInv, Fates, NEW c \in Caller, NEW t \in Timer, Cancel(c, t) PROVE Fates'
<1>1. /\ timer' = [timer EXCEPT ![t] = Over] /\ timer[t].cb /\ ~Making(t)
      /\ m_timers' = m_timers \ {t}
      /\ UNCHANGED <<pc, due, queue, ran>> /\ UNCHANGED caller /\ made' = made
  BY DEF Cancel, worker, tasks, Has, Making, caller
<1>2. t \in m_timers /\ timer[t].born
  BY <1>1 DEF Fates, Fate
<1>3. cancelled' = cancelled \cup {t}
  BY <1>2 DEF Cancel
<1>4. timer'[t] = Over /\ \A u \in Timer : u # t => timer'[u] = timer[u]
  BY <1>1 DEF TypeInv, ManagerType
<1>5. Hands'
  BY <1>1, HandsKept
<1>6. ~Making(t)' /\ (Taken(t)' <=> Taken(t))
  BY <1>1 DEF Making, Taken
<1>7. Fate(t)'
  BY <1>1, <1>4, <1>6, OverIs DEF Fate, Making
<1>8. ASSUME t \notin Recurring PROVE Once(t)'
  <2>1. ~Taken(t) /\ t \notin queue /\ t \notin ran
    BY <1>1, <1>8 DEF Fates, Once
  <2> QED BY <1>1, <1>3, <1>4, <1>6, <2>1, OverIs DEF Once, Taken
<1>9. ASSUME NEW u \in Timer, u # t PROVE Alike(u)
  BY <1>1, <1>3, <1>4, <1>9 DEF Alike
<1> QED BY <1>5, <1>7, <1>8, <1>9, FateKept DEF Fates

(* refresh() and reset() change the times of a timer of the set. *)
LEMMA FatesRearmed ==
  ASSUME TypeInv, Fates, NEW c \in Caller, NEW t \in Timer,
         \/ Refresh(c, t)
         \/ \E ms \in Delay, from_now \in BOOLEAN : Reset(c, t, ms, from_now)
  PROVE  Fates'
<1> DEFINE Rearmed ==
             /\ \E r : /\ timer' = [timer EXCEPT ![t] = r]
                       /\ r.cb <=> timer[t].cb
                       /\ r.born <=> timer[t].born
             /\ m_timers' = m_timers /\ UNCHANGED <<pc, due, queue, ran, made, cancelled>>
             /\ cpc[c] = "ready" /\ cpc' = [cpc EXCEPT ![c] = cpc'[c]] /\ cpc'[c] \in {"front", "ready"}
<1>1. Rearmed
  <2>1. CASE Refresh(c, t)
    <3> DEFINE r == [timer[t] EXCEPT !.next = now + timer[t].ms]
    <3>1. timer' = [timer EXCEPT ![t] = r] /\ r.cb /\ r.born = timer[t].born
      BY <2>1, RefreshIs
    <3> HIDE DEF r
    <3>2. timer[t].cb /\ m_timers' = m_timers /\ UNCHANGED <<pc, due, queue, ran, made, cancelled>>
      BY <2>1 DEF Refresh, Has, worker, tasks, caller
    <3>3. cpc[c] = "ready" /\ cpc' = cpc
      BY <2>1 DEF Refresh, Has, caller
    <3>4. cpc' = [cpc EXCEPT ![c] = cpc'[c]] /\ cpc'[c] \in {"front", "ready"}
      BY <3>3 DEF TypeInv, CallerType
    <3> QED BY <3>1, <3>2, <3>3, <3>4
  <2>2. ASSUME NEW ms \in Delay, NEW from_now \in BOOLEAN, Reset(c, t, ms, from_now)
        PROVE  Rearmed
    <3> DEFINE start == IF from_now THEN now ELSE timer[t].next - timer[t].ms
               r     == Redelayed(timer[t], ms, start)
    <3>1. start = IF from_now THEN now ELSE timer[t].next - timer[t].ms
      OBVIOUS
    <3> HIDE DEF start
    <3>2. timer' = [timer EXCEPT ![t] = r] /\ r.cb /\ r.born = timer[t].born
      BY <2>2, <3>1, ResetIs
    <3> HIDE DEF r
    <3>3. timer[t].cb /\ t \in m_timers /\ UNCHANGED <<pc, due, queue, ran, made, cancelled>> /\ cpc[c] = "ready"
      BY <2>2 DEF Reset, Has, worker, tasks
    <3>4. Add(c, t, [u \in Timer |-> timer'[u].next])
      BY <2>2 DEF Reset
    <3>5. m_timers' = m_timers \cup {t} /\ cpc' = [cpc EXCEPT ![c] = cpc'[c]] /\ cpc'[c] \in {"front", "ready"}
      BY <3>4, AddIs
    <3> QED BY <3>2, <3>3, <3>5
  <2> QED BY <2>1, <2>2
<1>2. PICK r : timer' = [timer EXCEPT ![t] = r] /\ (r.cb <=> timer[t].cb) /\ (r.born <=> timer[t].born)
  BY <1>1
<1>3. timer'[t] = r /\ \A u \in Timer : u # t => timer'[u] = timer[u]
  BY <1>2 DEF TypeInv, ManagerType
<1>4. ASSUME NEW u \in Timer PROVE Alike(u)
  <2>1. (timer'[u].cb <=> timer[u].cb) /\ (timer'[u].born <=> timer[u].born)
    BY <1>2, <1>3
  <2> QED BY <1>1, <2>1 DEF Alike
<1>5. Hands'
  BY <1>1 DEF Fates, Hands, TypeInv, CallerType
<1> QED BY <1>4, <1>5, FateKept DEF Fates

LEMMA FatesCallers == ASSUME TypeInv, Fates, NEW c \in Caller, Call(c) PROVE Fates'
<1>1. CASE Tickle(c) \/ Write(c)
  <2>1. /\ UNCHANGED <<timer, m_timers, pc, due, queue, ran, made, cancelled>>
        /\ cpc[c] \in {"front", "write"} /\ cpc' = [cpc EXCEPT ![c] = cpc'[c]] /\ cpc'[c] \in {"write", "ready"}
    BY <1>1 DEF Tickle, Write, manager, worker, tasks, TypeInv, CallerType
  <2>2. Hands'
    BY <2>1 DEF Fates, Hands, TypeInv, CallerType
  <2>3. ASSUME NEW t \in Timer PROVE Alike(t)
    BY <2>1 DEF Alike
  <2> QED BY <2>2, <2>3, FateKept DEF Fates
<1> QED BY <1>1, FatesInsert, FatesNew, FatesCancel, FatesRearmed DEF Call

(* One-shot timers that have expired are only in cbs. *)
LEMMA FatesExpire == ASSUME TypeInv, Fates, NEW w \in Worker, Expire(w) PROVE Fates'
<1> DEFINE expired == Expired(seen[w].clock)
<1>1. /\ expired \subseteq m_timers /\ due' = [due EXCEPT ![w] = expired] /\ due'[w] = expired
      /\ m_timers' = {t \in m_timers : t \in expired => t \in Recurring}
      /\ \A t \in Timer : /\ t \notin expired => timer'[t] = timer[t]
                          /\ t \in expired \ Recurring => timer'[t] = Over
                          /\ t \in expired \cap Recurring => /\ timer'[t].cb = timer[t].cb
                                                             /\ timer'[t].born = timer[t].born
  BY ExpireIs
<1>2. /\ UNCHANGED caller /\ UNCHANGED <<made, queue, ran, cancelled>>
      /\ pc[w] = "expire" /\ pc' = [pc EXCEPT ![w] = "schedule"]
  BY DEF Expire, caller, tasks, Goes
<1> HIDE DEF expired
<1>3. due[w] = {} /\ \A v \in Worker : v # w => due'[v] = due[v] /\ pc'[v] = pc[v]
  BY <1>1, <1>2 DEF TypeInv, WorkerType, Fates, Hands
<1>4. pc'[w] = "schedule"
  BY <1>2 DEF TypeInv, WorkerType
<1>5. Hands'
  BY <1>2, <1>3, <1>4, HandsKept DEF Fates, Hands
<1>6. ASSUME NEW t \in Timer, t \notin expired PROVE Alike(t)
  <2>1. \A v \in Worker : t \in due'[v] <=> t \in due[v]
    BY <1>1, <1>3, <1>6
  <2> QED BY <1>1, <1>2, <1>6, <2>1 DEF Alike
<1>7. ASSUME NEW t \in Timer, t \in expired PROVE ~Making(t) /\ ~Making(t)' /\ timer[t].cb /\ t \in m_timers
  BY <1>1, <1>2, <1>7 DEF Fates, Fate, Making
<1>8. ASSUME NEW t \in Timer, t \in expired, t \in Recurring PROVE Fate(t)'
  <2>1. timer'[t].cb /\ timer'[t].born /\ t \in m_timers' /\ t \notin cancelled'
    BY <1>1, <1>2, <1>7, <1>8 DEF Fates, Fate
  <2> QED BY <1>7, <1>8, <2>1 DEF Fate, Making
<1>9. ASSUME NEW t \in Timer, t \in expired, t \notin Recurring PROVE Fate(t)' /\ Once(t)'
  <2>1. ~timer'[t].cb /\ timer'[t].born /\ t \notin m_timers'
    BY <1>1, <1>9, OverIs
  <2>2. t \notin cancelled' /\ t \notin queue' /\ t \notin ran' /\ ~Taken(t)
    BY <1>2, <1>7, <1>9 DEF Fates, Fate, Once
  <2>3. \A v \in Worker : t \in due'[v] => v = w
    BY <1>3, <2>2 DEF Taken
  <2>4. Taken(t)'
    BY <1>1, <1>9 DEF Taken
  <2>5. Fate(t)'
    BY <1>7, <1>9, <2>1 DEF Fate, Making
  <2>6. Once(t)'
    BY <2>1, <2>2, <2>3, <2>4 DEF Once
  <2> QED BY <2>5, <2>6
<1> QED BY <1>5, <1>6, <1>8, <1>9, FateKept DEF Fates

LEMMA FatesSchedule == ASSUME TypeInv, Fates, NEW w \in Worker, Schedule(w) PROVE Fates'
<1>1. /\ due' = [due EXCEPT ![w] = {}] /\ queue' = queue \cup due[w]
      /\ pc[w] = "schedule" /\ pc' = [pc EXCEPT ![w] = "run"]
      /\ UNCHANGED caller /\ UNCHANGED <<made, m_timers, timer, cancelled, ran>>
  BY DEF Schedule, Goes, manager, caller
<1>2. /\ due'[w] = {} /\ pc'[w] = "run"
      /\ \A v \in Worker : v # w => due'[v] = due[v] /\ pc'[v] = pc[v]
  BY <1>1 DEF TypeInv, WorkerType
<1>3. Hands'
  BY <1>1, <1>2, HandsKept DEF Fates, Hands
<1>4. ASSUME NEW t \in Timer, t \notin due[w] PROVE Alike(t)
  <2>1. \A v \in Worker : t \in due'[v] <=> t \in due[v]
    BY <1>2, <1>4
  <2> QED BY <1>1, <1>4, <2>1 DEF Alike
<1>5. ASSUME NEW t \in Timer, t \in due[w] PROVE Fate(t)' /\ (t \notin Recurring => Once(t)')
  <2>1. Making(t)' <=> Making(t)
    BY <1>1 DEF Making
  <2>2. Fate(t)'
    BY <1>1, <2>1 DEF Fates, Fate
  <2>3. ASSUME t \notin Recurring PROVE Once(t)'
    <3>1. /\ timer[t].born /\ ~timer[t].cb /\ t \notin queue /\ t \notin ran /\ t \notin cancelled
          /\ \A v \in Worker : t \in due[v] => v = w
      BY <1>5, <2>3 DEF Fates, Once, Taken
    <3>2. ~Taken(t)'
      BY <1>2, <3>1 DEF Taken
    <3>3. t \in queue'
      BY <1>1, <1>5
    <3> QED BY <1>1, <3>1, <3>2, <3>3 DEF Once, Taken
  <2> QED BY <2>2, <2>3
<1> QED BY <1>3, <1>4, <1>5, FateKept DEF Fates

LEMMA FatesWorkers == ASSUME TypeInv, Fates, NEW w \in Worker, Loop(w) \/ Event(w) PROVE Fates'
<1>1. CASE Rest(w) \/ Look(w) \/ Returns(w)
  <2>1. /\ UNCHANGED <<timer, m_timers, due, queue, ran, made, cancelled>> /\ UNCHANGED caller
        /\ pc[w] # "schedule" /\ \A v \in Worker : v # w => pc'[v] = pc[v]
    BY <1>1 DEF Rest, Look, Returns, Goes, manager, caller, tasks, TypeInv, WorkerType
  <2>2. Hands'
    BY <2>1, HandsKept DEF Fates, Hands
  <2>3. ASSUME NEW t \in Timer PROVE Alike(t)
    BY <2>1 DEF Alike
  <2> QED BY <2>2, <2>3, FateKept DEF Fates
<1>2. ASSUME NEW t \in Timer, RunTask(w, t) PROVE Fates'
  <2>1. /\ UNCHANGED <<timer, m_timers, due, pc, made, cancelled>> /\ UNCHANGED caller
        /\ t \in queue /\ queue' = queue \ {t} /\ ran' = ran \cup ({t} \ Recurring)
    BY <1>2 DEF RunTask, manager, worker, caller
  <2>2. Hands'
    BY <2>1, HandsKept
  <2>3. ASSUME NEW u \in Timer, u # t PROVE Alike(u)
    BY <2>1, <2>3 DEF Alike
  <2>4. (Making(t)' <=> Making(t)) /\ (Taken(t)' <=> Taken(t))
    BY <2>1 DEF Making, Taken
  <2>5. Fate(t)'
    BY <2>1, <2>4 DEF Fates, Fate
  <2>6. ASSUME t \notin Recurring PROVE Once(t)'
    BY <2>1, <2>4, <2>6 DEF Fates, Once
  <2> QED BY <2>2, <2>3, <2>5, <2>6, FateKept DEF Fates
<1> QED BY <1>1, <1>2, FatesExpire, FatesSchedule DEF Loop, Event, Wake

LEMMA FatesStep == ASSUME TypeInv, Fates, [Next]_vars PROVE Fates'
<1>1. CASE UNCHANGED vars \/ Tick \/ \E k \in Steps : SetBack(k)
  <2>1. UNCHANGED <<timer, m_timers, due, pc, queue, ran, made, cancelled>> /\ UNCHANGED caller
    BY <1>1 DEF vars, Tick, SetBack, manager, worker, caller, tasks
  <2>2. ASSUME NEW t \in Timer PROVE Alike(t)
    BY <2>1 DEF Alike
  <2> QED BY <2>1, <2>2, HandsKept, FateKept DEF Fates
<1> QED BY <1>1, FatesCallers, FatesWorkers DEF Next

LEMMA FatesAlways == Spec => [](TypeInv /\ Fates)
BY TypeInit, TypeStep, FatesInit, FatesStep, PTL DEF Spec

(* A set with one or no element. *)
LEMMA AtMostOne ==
  ASSUME NEW S, \A x, y \in S : x = y
  PROVE  Cardinality(S) = IF S = {} THEN 0 ELSE 1
<1>1. ASSUME NEW x \in S PROVE S = {x}
  OBVIOUS
<1> QED BY <1>1, FS_Singleton, FS_EmptySet

Made(t)  == {c \in Caller : t \in made[c]}
DueBy(t) == {w \in Worker : t \in due[w]}
Places   == {<<1, m_timers>>, <<2, queue>>, <<3, ran>>, <<4, cancelled>>}
In(t)    == {s \in Places : t \in s[2]}

LEMMA OneFateCounts ==
  OneFate = \A t \in Timer :
    /\ timer[t].born /\ t \notin Recurring => Cardinality(Made(t)) + Cardinality(DueBy(t)) + Cardinality(In(t)) = 1
    /\ t \in cancelled => t \notin m_timers
BY DEF OneFate, Made, DueBy, Places, In

(* Where a one-shot timer is not, and where it is. *)
LEMMA Counts ==
  ASSUME TypeInv, Fates, NEW t \in Timer, t \notin Recurring
  PROVE  /\ Cardinality(Made(t)) = IF Making(t) THEN 1 ELSE 0
         /\ Cardinality(DueBy(t)) = IF Taken(t) THEN 1 ELSE 0
         /\ ~(t \in m_timers /\ t \in queue) /\ ~(t \in m_timers /\ t \in ran) /\ ~(t \in m_timers /\ t \in cancelled)
            => Cardinality(In(t)) = IF t \in m_timers \/ t \in queue \/ t \in ran \/ t \in cancelled THEN 1 ELSE 0
<1>1. (Made(t) = {} <=> ~Making(t)) /\ (DueBy(t) = {} <=> ~Taken(t))
  BY DEF Made, DueBy, Making, Taken
<1>2. \A c, d \in Made(t) : c = d
  BY DEF Made, Fates, Fate
<1>3. \A v, w \in DueBy(t) : v = w
  BY DEF DueBy, Fates, Once
<1>4. ASSUME ~(t \in m_timers /\ t \in queue), ~(t \in m_timers /\ t \in ran), ~(t \in m_timers /\ t \in cancelled)
      PROVE  Cardinality(In(t)) = IF t \in m_timers \/ t \in queue \/ t \in ran \/ t \in cancelled THEN 1 ELSE 0
  <2>1. \A p \in In(t) : \/ p = <<1, m_timers>> /\ t \in m_timers
                         \/ p = <<2, queue>> /\ t \in queue
                         \/ p = <<3, ran>> /\ t \in ran
                         \/ p = <<4, cancelled>> /\ t \in cancelled
    BY DEF In, Places
  <2>2. /\ t \in queue => t \notin ran /\ t \notin cancelled
        /\ t \in ran => t \notin cancelled
    BY DEF Fates, Once
  <2>3. \A p, q \in In(t) : p = q
    BY <1>4, <2>1, <2>2
  <2>4. /\ t \in m_timers => <<1, m_timers>> \in In(t)
        /\ t \in queue => <<2, queue>> \in In(t)
        /\ t \in ran => <<3, ran>> \in In(t)
        /\ t \in cancelled => <<4, cancelled>> \in In(t)
    BY DEF In, Places
  <2>5. In(t) = {} <=> ~(t \in m_timers \/ t \in queue \/ t \in ran \/ t \in cancelled)
    BY <2>1, <2>4
  <2> QED BY <2>3, <2>5, AtMostOne
<1> QED BY <1>1, <1>2, <1>3, <1>4, AtMostOne

(* The callback of a one-shot timer is in exactly one place: the timer is  *)
(* set, or with one worker, or scheduled, or has run, or was cancelled; a  *)
(* timer that was cancelled is not set.                                    *)
THEOREM OneFateHolds == Spec => []OneFate
<1>1. ASSUME TypeInv, Fates PROVE OneFate
  <2>1. ASSUME NEW t \in Timer, t \in cancelled PROVE t \notin m_timers
    BY <1>1, <2>1 DEF Fates, Fate
  <2>2. ASSUME NEW t \in Timer, timer[t].born, t \notin Recurring
        PROVE  Cardinality(Made(t)) + Cardinality(DueBy(t)) + Cardinality(In(t)) = 1
    <3> DEFINE rest == t \in queue \/ t \in ran \/ t \in cancelled
    <3>1. Fate(t) /\ Once(t)
      BY <1>1, <2>2 DEF Fates
    <3>2. /\ ~(t \in m_timers /\ t \in queue) /\ ~(t \in m_timers /\ t \in ran)
          /\ ~(t \in m_timers /\ t \in cancelled)
      BY <3>1 DEF Fate, Once
    <3>3. CASE timer[t].cb
      <4>1. ~Taken(t) /\ ~rest /\ (Making(t) <=> t \notin m_timers)
        BY <3>1, <3>3 DEF Fate, Once
      <4>2. CASE Making(t)
        <5>1. Cardinality(Made(t)) = 1 /\ Cardinality(DueBy(t)) = 0 /\ Cardinality(In(t)) = 0
          BY <1>1, <2>2, <3>2, <4>1, <4>2, Counts
        <5> QED BY <5>1
      <4>3. CASE ~Making(t)
        <5>1. Cardinality(Made(t)) = 0 /\ Cardinality(DueBy(t)) = 0 /\ Cardinality(In(t)) = 1
          BY <1>1, <2>2, <3>2, <4>1, <4>3, Counts
        <5> QED BY <5>1
      <4> QED BY <4>2, <4>3
    <3>4. CASE ~timer[t].cb
      <4>1. ~Making(t) /\ t \notin m_timers /\ (Taken(t) <=> ~rest)
        BY <2>2, <3>1, <3>4 DEF Fate, Once
      <4>2. CASE Taken(t)
        <5>1. Cardinality(Made(t)) = 0 /\ Cardinality(DueBy(t)) = 1 /\ Cardinality(In(t)) = 0
          BY <1>1, <2>2, <3>2, <4>1, <4>2, Counts
        <5> QED BY <5>1
      <4>3. CASE ~Taken(t)
        <5>1. Cardinality(Made(t)) = 0 /\ Cardinality(DueBy(t)) = 0 /\ Cardinality(In(t)) = 1
          BY <1>1, <2>2, <3>2, <4>1, <4>3, Counts
        <5> QED BY <5>1
      <4> QED BY <4>2, <4>3
    <3> QED BY <3>3, <3>4
  <2> QED BY <2>1, <2>2, OneFateCounts
<1> QED BY <1>1, FatesAlways, PTL
------------------------------------------------------------------------------
(* No timer runs early *)

(* No timer runs early, whatever times other workers have read: what has   *)
(* expired was asked for this time or an earlier one, unless a clock set   *)
(* back by an hour expires every timer.                                    *)
THEOREM NotEarlyHolds == Spec => NotEarly
<1> DEFINE InTime == \A w \in Worker, t \in Timer :
             t \in due'[w] \ due[w] => goal[t] <= Passed + back \/ back + MaxStall > Hour
<1>1. ASSUME TypeInv, TimeRead, Fates, Next PROVE InTime
  <2>1. ASSUME NEW w \in Worker, NEW t \in Timer, t \in due'[w] \ due[w]
        PROVE  Expire(w) /\ due'[w] = Expired(seen[w].clock)
    <3>1. ASSUME NEW v \in Worker, Expire(v), v # w PROVE FALSE
      <4>1. due'[w] = due[w]
        BY <1>1, <3>1 DEF Expire, TypeInv, WorkerType
      <4> QED BY <2>1, <4>1
    <3>2. ASSUME NEW v \in Worker, Schedule(v) PROVE FALSE
      BY <1>1, <2>1, <3>2 DEF Schedule, TypeInv, WorkerType
    <3>3. ASSUME NEW c \in Caller, Call(c) PROVE FALSE
      <4>1. due' = due
        <5>1. UNCHANGED worker
          BY <3>3 DEF Call, Insert, Tickle, Write, New, Cancel, Refresh, Reset
        <5> QED BY <5>1 DEF worker
      <4> QED BY <2>1, <4>1
    <3>4. ASSUME Tick \/ \E k \in Steps : SetBack(k) PROVE FALSE
      BY <2>1, <3>4 DEF Tick, SetBack, worker
    <3>5. ASSUME NEW v \in Worker, Rest(v) \/ Look(v) \/ Returns(v) \/ \E u \in Timer : RunTask(v, u) PROVE FALSE
      BY <2>1, <3>5 DEF Rest, Look, Returns, RunTask, worker
    <3>6. Expire(w)
      BY <1>1, <3>1, <3>2, <3>3, <3>4, <3>5 DEF Next, Loop, Event, Wake
    <3> QED BY <1>1, <3>6, ExpireIs
  <2>2. ASSUME NEW w \in Worker, NEW t \in Timer, t \in due'[w] \ due[w]
        PROVE  goal[t] <= Passed + back \/ back + MaxStall > Hour
    <3> DEFINE now_ms == seen[w].clock
    <3>1. now_ms \in Nat /\ pc[w] = "expire" /\ t \in Expired(now_ms)
      BY <1>1, <2>1, <2>2, Numbers DEF Expire, Goes
    <3>2. /\ t \in m_timers
          /\ timer[t].next <= now_ms \/ now_ms < prev - Hour
      BY <1>1, <3>1, ExpiredIs
    <3>3. goal[t] <= timer[t].next + back
      BY <1>1, <3>2 DEF Fates, Fate, TimeRead, Meant
    <3>4. /\ prev <= Passed /\ now_ms <= seen[w].real /\ seen[w].real <= now_ms + back
          /\ seen[w].real <= Passed /\ Passed <= seen[w].real + MaxStall
      BY <1>1, <3>1 DEF TimeRead, ReadBy
    <3>5. CASE timer[t].next <= now_ms
      BY <1>1, <3>3, <3>4, <3>5, Numbers
    <3>6. CASE now_ms < prev - Hour
      BY <1>1, <3>4, <3>6, Numbers, ConstantsAre
    <3> QED BY <3>2, <3>5, <3>6
  <2> QED BY <2>2
<1>2. TypeInv /\ TimeRead /\ Fates /\ [Next]_vars => [InTime]_vars
  BY <1>1
<1> HIDE DEF InTime
<1>3. NotEarly <=> [][InTime]_vars
  BY DEF NotEarly, InTime
<1> QED BY <1>2, <1>3, TimeReadAlways, FatesAlways, PTL DEF Spec
------------------------------------------------------------------------------
(* No timer is overslept *)

Awake == \/ \E w \in Worker : pc[w] # "wait"
         \/ edge \/ \E c \in Caller : cpc[c] \in {"front", "write"}

(* A worker that wakes by itself before any timer is due. *)
Covers(w) == /\ 0 <= left[w]
             /\ \A t \in m_timers : left[w] = 0 \/ now + left[w] <= timer[t].next

(* As long as the clock was not set back, no timer is further away than    *)
(* its delay.                                                              *)
Near(t) == timer[t].cb => timer[t].next <= now + timer[t].ms

(* m_tickled is believed: while it is set, somebody is awake.              *)
Watched ==
  /\ tickled => Awake
  /\ back = 0 => Awake \/ \E w \in Worker : Covers(w)
  /\ back = 0 => \A t \in Timer : Near(t)

LEMMA WatchedInit == Init => Watched
<1> SUFFICES ASSUME Init PROVE Watched
  OBVIOUS
<1>1. \A w \in Worker : pc[w] = "run"
  BY DEF Init
<1>2. Awake
  BY <1>1, TimeAssumption DEF Awake
<1>3. ASSUME NEW t \in Timer PROVE ~timer[t].cb
  BY DEF Init, Unborn
<1> QED BY <1>2, <1>3 DEF Watched, Near

(* Whoever was awake still is. *)
LEMMA AwakeKept ==
  ASSUME TypeInv, Awake, UNCHANGED <<pc, edge>>, NEW c \in Caller, NEW to,
         cpc' = [cpc EXCEPT ![c] = to], cpc[c] \in {"ready", "insert"}
  PROVE  Awake'
BY DEF Awake, TypeInv, CallerType

(* addTimer: whoever puts a timer at the front sees to it that somebody is *)
(* awake.                                                                  *)
LEMMA AddWatched ==
  ASSUME TypeInv, Fates, Watched, NEW c \in Caller, NEW t \in Timer, NEW next, Add(c, t, next),
         cpc[c] \in {"ready", "insert"}, UNCHANGED <<clock, pc, edge, left>>, timer' \in [Timer -> Record],
         \A u \in Timer : next[u] = timer'[u].next /\ (u # t => timer'[u] = timer[u]),
         back = 0 => Near(t)'
  PROVE  Watched'
<1>1. /\ m_timers' = m_timers \cup {t}
      /\ cpc' = [cpc EXCEPT ![c] = cpc'[c]]
      /\ \/ /\ tickled' = TRUE /\ (tickled \/ cpc'[c] = "front")
         \/ /\ tickled' = tickled /\ \E u \in m_timers \ {t} : next[u] <= next[t]
  BY AddIs
<1>2. Awake => Awake'
  BY <1>1, AwakeKept
<1>3. now' = now /\ back' = back /\ left' = left
  BY DEF clock
<1>4. back = 0 => \A u \in Timer : Near(u)'
  BY <1>3 DEF Watched, Near
<1>5. CASE tickled \/ cpc'[c] = "front"
  <2>1. Awake'
    BY <1>2, <1>5 DEF Watched, Awake
  <2> QED BY <1>3, <1>4, <2>1 DEF Watched
<1>6. ASSUME tickled' = tickled, NEW u \in m_timers \ {t}, next[u] <= next[t] PROVE Watched'
  <2>1. ASSUME NEW w \in Worker, Covers(w) PROVE Covers(w)'
    <3>1. ASSUME NEW v \in m_timers', left[w] # 0 PROVE now + left[w] <= timer'[v].next
      <4>1. u \in Timer /\ timer'[u] = timer[u] /\ now + left[w] <= timer[u].next
        BY <1>6, <2>1, <3>1 DEF Covers, TypeInv, ManagerType
      <4>2. CASE v = t
        <5>1. timer'[u].next <= timer'[t].next
          BY <1>6, <4>1
        <5>2. timer'[u].next \in Int /\ timer'[t].next \in Int /\ now \in Int /\ left[w] \in Int
          BY <4>1, Numbers DEF Record
        <5> QED BY <4>1, <4>2, <5>1, <5>2
      <4>3. CASE v # t
        BY <1>1, <2>1, <3>1, <4>3 DEF Covers, TypeInv, ManagerType
      <4> QED BY <4>2, <4>3
    <3> QED BY <1>3, <2>1, <3>1 DEF Covers
  <2> QED BY <1>2, <1>3, <1>4, <1>6, <2>1 DEF Watched
<1> QED BY <1>1, <1>5, <1>6

LEMMA WatchedNew ==
  ASSUME TypeInv, Fates, Watched, NEW c \in Caller, NEW t \in Timer, NEW ms \in Delay, New(c, t, ms)
  PROVE  Watched'
<1> DEFINE r == [next |-> now + ms, ms |-> ms, cb |-> TRUE, born |-> TRUE]
<1>1. /\ timer' = [timer EXCEPT ![t] = r] /\ ~timer[t].born /\ cpc[c] = "ready"
      /\ cpc' = [cpc EXCEPT ![c] = "insert"]
      /\ UNCHANGED <<clock, m_timers, tickled, pc, left, edge>>
  BY DEF New, worker
<1>2. r.next = now + ms /\ r.ms = ms
  OBVIOUS
<1> HIDE DEF r
<1>3. timer'[t] = r /\ (\A u \in Timer : u # t => timer'[u] = timer[u]) /\ t \notin m_timers
      /\ now' = now /\ back' = back
  BY <1>1 DEF TypeInv, ManagerType, Fates, Fate, clock
<1>4. Awake => Awake'
  BY <1>1, AwakeKept
<1>5. ASSUME NEW w \in Worker, Covers(w) PROVE Covers(w)'
  BY <1>1, <1>3, <1>5 DEF Covers, TypeInv, ManagerType
<1>6. Near(t)'
  BY <1>2, <1>3, Numbers, ConstantsAre DEF Near
<1>7. back = 0 => \A u \in Timer : Near(u)'
  BY <1>3, <1>6 DEF Watched, Near
<1> QED BY <1>1, <1>3, <1>4, <1>5, <1>7 DEF Watched

LEMMA WatchedInsert == ASSUME TypeInv, Fates, Watched, NEW c \in Caller, Insert(c) PROVE Watched'
<1> DEFINE next == [u \in Timer |-> timer[u].next]
<1>1. PICK t \in made[c] : Add(c, t, next)
  BY DEF Insert
<1>2. t \in Timer
  BY DEF TypeInv, CallerType
<1>3. cpc[c] = "insert" /\ UNCHANGED <<clock, timer, pc, edge, left>>
  BY DEF Insert, worker
<1>4. \A u \in Timer : next[u] = timer'[u].next
  BY <1>3
<1>5. timer' \in [Timer -> Record] /\ \A u \in Timer : timer'[u] = timer[u]
  BY <1>3 DEF TypeInv, ManagerType
<1>6. back = 0 => Near(t)'
  BY <1>2, <1>3 DEF Watched, Near, clock
<1> HIDE DEF next
<1> QED BY <1>1, <1>2, <1>3, <1>4, <1>5, <1>6, AddWatched

LEMMA WatchedCancel ==
  ASSUME TypeInv, Watched, NEW c \in Caller, NEW t \in Timer, Cancel(c, t) PROVE Watched'
<1>1. timer' = [timer EXCEPT ![t] = Over] /\ m_timers' = m_timers \ {t}
      /\ UNCHANGED <<clock, tickled, pc, left, edge, cpc>>
  BY DEF Cancel, worker, caller
<1>2. timer'[t] = Over /\ (\A u \in Timer : u # t => timer'[u] = timer[u])
      /\ now' = now /\ back' = back
  BY <1>1 DEF TypeInv, ManagerType, clock
<1>3. Awake' <=> Awake
  BY <1>1 DEF Awake
<1>4. ASSUME NEW w \in Worker, Covers(w) PROVE Covers(w)'
  BY <1>1, <1>2, <1>4 DEF Covers, TypeInv, ManagerType
<1>5. Near(t)'
  BY <1>2, OverIs DEF Near
<1>6. back = 0 => \A u \in Timer : Near(u)'
  BY <1>2, <1>5 DEF Watched, Near
<1> QED BY <1>1, <1>2, <1>3, <1>4, <1>6 DEF Watched

(* A refreshed timer moves back. *)
LEMMA WatchedRefresh ==
  ASSUME TypeInv, Watched, NEW c \in Caller, NEW t \in Timer, Refresh(c, t) PROVE Watched'
<1> DEFINE r == [timer[t] EXCEPT !.next = now + timer[t].ms]
<1>1. timer' = [timer EXCEPT ![t] = r] /\ r.next = now + timer[t].ms /\ r.ms = timer[t].ms
  BY RefreshIs
<1> HIDE DEF r
<1>2. UNCHANGED <<clock, m_timers, tickled, pc, left, edge, cpc>> /\ timer[t].cb
  BY DEF Refresh, Has, worker, caller
<1>3. timer'[t] = r /\ (\A u \in Timer : u # t => timer'[u] = timer[u])
      /\ now' = now /\ back' = back
  BY <1>1, <1>2 DEF TypeInv, ManagerType, clock
<1>4. Awake' <=> Awake
  BY <1>2 DEF Awake
<1>5. ASSUME back = 0, NEW w \in Worker, Covers(w) PROVE Covers(w)'
  <2>1. timer[t].next <= timer'[t].next
    BY <1>1, <1>2, <1>3, <1>5 DEF Watched, Near
  <2>2. ASSUME NEW u \in m_timers, left[w] # 0 PROVE now + left[w] <= timer'[u].next
    <3>1. u \in Timer /\ now + left[w] <= timer[u].next
      BY <1>5, <2>2 DEF Covers, TypeInv, ManagerType
    <3>2. CASE u = t
      BY <1>1, <1>3, <2>1, <3>1, <3>2, Numbers
    <3>3. CASE u # t
      BY <1>3, <3>1, <3>3
    <3> QED BY <3>2, <3>3
  <2> QED BY <1>2, <1>3, <1>5, <2>2 DEF Covers
<1>6. Near(t)'
  BY <1>1, <1>3, Numbers DEF Near
<1>7. back = 0 => \A u \in Timer : Near(u)'
  BY <1>3, <1>6 DEF Watched, Near
<1> QED BY <1>2, <1>3, <1>4, <1>5, <1>7 DEF Watched

LEMMA WatchedReset ==
  ASSUME TypeInv, Fates, Watched, NEW c \in Caller, NEW t \in Timer, NEW ms \in Delay, NEW from_now \in BOOLEAN,
         Reset(c, t, ms, from_now)
  PROVE  Watched'
<1> DEFINE start == IF from_now THEN now ELSE timer[t].next - timer[t].ms
           r     == Redelayed(timer[t], ms, start)
           next  == [u \in Timer |-> timer'[u].next]
<1>1. start = IF from_now THEN now ELSE timer[t].next - timer[t].ms
  OBVIOUS
<1>2. timer[t].cb /\ cpc[c] = "ready" /\ UNCHANGED <<clock, pc, edge, left>> /\ Add(c, t, next)
  BY DEF Reset, Has, worker
<1>3. back = 0 => start <= now
  BY <1>2, Numbers DEF Watched, Near
<1> HIDE DEF start
<1>4. timer' = [timer EXCEPT ![t] = r] /\ r \in Record /\ r.next = start + ms /\ r.ms = ms
  BY <1>1, ResetIs
<1> HIDE DEF r
<1>5. timer' \in [Timer -> Record] /\ timer'[t] = r /\ \A u \in Timer : u # t => timer'[u] = timer[u]
  BY <1>4 DEF TypeInv, ManagerType
<1>6. \A u \in Timer : next[u] = timer'[u].next
  OBVIOUS
<1> HIDE DEF next
<1>7. back = 0 => Near(t)'
  <2>1. r.next \in Nat /\ ms \in Nat /\ now' = now
    BY <1>2, <1>4, ConstantsAre DEF Record, clock
  <2>2. start \in Int
    BY <1>1, Numbers
  <2> QED BY <1>3, <1>4, <1>5, <2>1, <2>2, Numbers DEF Near
<1> QED BY <1>2, <1>5, <1>6, <1>7, AddWatched

LEMMA WatchedCallers ==
  ASSUME TypeInv, Fates, Watched, NEW c \in Caller, Call(c) PROVE Watched'
<1>1. CASE Tickle(c)
  <2>1. UNCHANGED <<clock, timer, pc>> /\ cpc' = [cpc EXCEPT ![c] = IF \E w \in Worker : pc[w] # "run" THEN "write" ELSE "ready"]
    BY <1>1 DEF Tickle, manager, worker
  <2>2. Awake'
    <3>1. CASE \E w \in Worker : pc[w] # "run"
      <4>1. cpc'[c] = "write"
        BY <2>1, <3>1 DEF TypeInv, CallerType
      <4> QED BY <4>1 DEF Awake
    <3>2. CASE \A w \in Worker : pc[w] = "run"
      BY <2>1, <3>2, TimeAssumption DEF Awake
    <3> QED BY <3>1, <3>2
  <2> QED BY <2>1, <2>2 DEF Watched, Near, clock
<1>2. CASE Write(c)
  <2>1. UNCHANGED <<clock, timer>> /\ edge' = TRUE
    BY <1>2 DEF Write, manager
  <2> QED BY <2>1 DEF Watched, Near, Awake, clock
<1> QED BY <1>1, <1>2, WatchedInsert, WatchedNew, WatchedCancel, WatchedRefresh, WatchedReset DEF Call

(* A worker that has looked at m_timers wakes before the first is due. *)
LEMMA WatchedLook == ASSUME TypeInv, Fates, Watched, NEW w \in Worker, Look(w) PROVE Watched'
<1>1. /\ tickled' = FALSE /\ left' = [left EXCEPT ![w] = Timeout]
      /\ UNCHANGED <<clock, m_timers, timer>>
  BY DEF Look
<1>2. left'[w] = Timeout /\ now' = now /\ back' = back
  BY <1>1 DEF TypeInv, WorkerType, clock
<1>3. CASE m_timers = {}
  <2>1. left'[w] = MAX_TIMEOUT
    BY <1>2, <1>3, TimeoutIs
  <2>2. Covers(w)'
    BY <1>1, <1>3, <2>1, ConstantsAre DEF Covers
  <2> QED BY <1>1, <1>2, <2>2 DEF Watched, Near
<1>4. CASE m_timers # {} /\ back = 0
  <2>1. First \in m_timers /\ First \in Timer /\ \A u \in m_timers : timer[First].next <= timer[u].next
    BY <1>4, FirstIs DEF TypeInv, ManagerType
  <2>2. timer[First].cb /\ Near(First) /\ timer[First].ms \in Delay
    BY <1>4, <2>1 DEF Fates, Fate, Watched, TypeInv, ManagerType, Armed
  <2>3. timer[First].next \in Nat /\ timer[First].ms \in Nat /\ timer[First].ms <= IntMax /\ now \in Nat
    BY <2>1, <2>2, Numbers, ConstantsAre
  <2>4. Remaining \in 0 .. IntMax
    BY <2>2, <2>3, ConstantsAre DEF Near, Remaining
  <2>5. left'[w] = IF Remaining > MAX_TIMEOUT THEN MAX_TIMEOUT ELSE Remaining
    BY <1>2, <1>4, <2>4, TimeoutIs, ToIntIs
  <2>6. 0 <= left'[w] /\ left'[w] <= Remaining /\ left'[w] \in Int
    BY <2>4, <2>5, ConstantsAre
  <2>7. left'[w] = 0 \/ now + left'[w] <= timer[First].next
    BY <2>3, <2>6 DEF Remaining
  <2>8. ASSUME NEW u \in m_timers, left'[w] # 0 PROVE now + left'[w] <= timer[u].next
    <3>1. timer[First].next <= timer[u].next /\ timer[u].next \in Nat
      BY <2>1, Numbers DEF TypeInv, ManagerType
    <3> QED BY <2>3, <2>6, <2>7, <2>8, <3>1
  <2>9. Covers(w)'
    BY <1>1, <1>2, <2>6, <2>8 DEF Covers
  <2> QED BY <1>1, <1>2, <2>9 DEF Watched, Near
<1>5. CASE back # 0
  BY <1>1, <1>2, <1>5 DEF Watched
<1> QED BY <1>3, <1>4, <1>5

LEMMA WatchedExpire == ASSUME TypeInv, TimeRead, Watched, NEW w \in Worker, Expire(w) PROVE Watched'
<1> DEFINE expired == Expired(seen[w].clock)
<1>1. \A t \in Timer : /\ t \notin expired => timer'[t] = timer[t]
                       /\ t \in expired \ Recurring => timer'[t] = Over
                       /\ t \in expired \cap Recurring => /\ timer'[t].next = seen[w].clock + timer[t].ms
                                                          /\ timer'[t].ms = timer[t].ms
  BY ExpireIs
<1>2. now' = now /\ back' = back /\ tickled' = tickled /\ pc' = [pc EXCEPT ![w] = "schedule"]
  BY DEF Expire, clock, Goes
<1> HIDE DEF expired
<1>3. Awake'
  <2>1. pc'[w] = "schedule"
    BY <1>2 DEF TypeInv, WorkerType
  <2> QED BY <2>1 DEF Awake
<1>4. ASSUME back = 0, NEW t \in Timer PROVE Near(t)'
  <2>1. seen[w].clock <= now
    BY <1>4, Numbers DEF TimeRead, ReadBy
  <2>2. CASE t \notin expired
    BY <1>1, <1>2, <1>4, <2>2 DEF Watched, Near
  <2>3. CASE t \in expired \ Recurring
    BY <1>1, <2>3, OverIs DEF Near
  <2>4. CASE t \in expired \cap Recurring
    BY <1>1, <1>2, <2>1, <2>4, Numbers DEF Near
  <2> QED BY <2>2, <2>3, <2>4
<1> QED BY <1>2, <1>3, <1>4 DEF Watched

LEMMA WatchedWorkers ==
  ASSUME TypeInv, TimeRead, Fates, Watched, NEW w \in Worker, Loop(w) \/ Event(w) PROVE Watched'
<1>1. ASSUME Rest(w) \/ Returns(w) \/ Schedule(w) \/ \E t \in Timer : RunTask(w, t) PROVE Watched'
  <2>1. UNCHANGED <<clock, timer, tickled>>
    BY <1>1 DEF Rest, Returns, Schedule, RunTask, manager
  <2>2. pc'[w] # "wait"
    <3>1. CASE Rest(w) \/ Returns(w) \/ Schedule(w)
      BY <3>1 DEF Rest, Returns, Schedule, Goes, TypeInv, WorkerType
    <3>2. CASE \E t \in Timer : RunTask(w, t)
      BY <3>2 DEF RunTask, worker
    <3> QED BY <1>1, <3>1, <3>2
  <2>3. Awake'
    BY <2>2 DEF Awake
  <2> QED BY <2>1, <2>3 DEF Watched, Near, clock
<1> QED BY <1>1, WatchedLook, WatchedExpire DEF Loop, Event, Wake

LEMMA WatchedTime == ASSUME TypeInv, Watched, Tick \/ \E k \in Steps : SetBack(k) PROVE Watched'
<1>1. CASE Tick
  <2>1. /\ now' \in {now, now + 1} /\ UNCHANGED <<back, timer, m_timers, tickled, pc, edge, cpc>>
        /\ left' = [w \in Worker |-> IF left[w] > 0 THEN left[w] - 1 ELSE left[w]]
    BY <1>1 DEF Tick, manager, caller
  <2>2. Awake' <=> Awake
    BY <2>1 DEF Awake
  <2>3. ASSUME NEW w \in Worker, Covers(w) PROVE Covers(w)'
    <3>1. left[w] \in Int /\ now \in Int /\ 0 <= left[w]
      BY <2>3, Numbers DEF Covers
    <3>2. left'[w] = IF left[w] > 0 THEN left[w] - 1 ELSE left[w]
      BY <2>1
    <3>3. ASSUME NEW t \in m_timers, left'[w] # 0 PROVE now' + left'[w] <= timer[t].next
      <4>1. timer[t].next \in Int /\ now + left[w] <= timer[t].next
        BY <2>3, <3>1, <3>2, <3>3, Numbers DEF Covers, TypeInv, ManagerType
      <4> QED BY <2>1, <3>1, <3>2, <3>3, <4>1
    <3> QED BY <2>1, <3>1, <3>2, <3>3 DEF Covers
  <2>4. ASSUME NEW t \in Timer, Near(t) PROVE Near(t)'
    BY <2>1, <2>4, Numbers DEF Near
  <2> QED BY <2>1, <2>2, <2>3, <2>4 DEF Watched
<1>2. ASSUME NEW k \in Steps, SetBack(k) PROVE Watched'
  <2>1. back' # 0 /\ UNCHANGED <<tickled, pc, edge, cpc>>
    BY <1>2, ConstantsAre DEF SetBack, manager, worker, caller
  <2> QED BY <2>1 DEF Watched, Awake
<1> QED BY <1>1, <1>2

LEMMA WatchedStep == ASSUME TypeInv, TimeRead, Fates, Watched, [Next]_vars PROVE Watched'
<1>1. CASE UNCHANGED vars
  BY <1>1 DEF vars, Watched, Near, Awake, Covers, clock, manager, worker, caller
<1> QED BY <1>1, WatchedCallers, WatchedWorkers, WatchedTime DEF Next

(* No timer is overslept: while one is set and the clock was not set back, *)
(* a worker is awake, or about to be woken, or wakes by itself in time.    *)
THEOREM TimerIsWatchedHolds == Spec => []TimerIsWatched
<1>1. TypeInv /\ Watched => TimerIsWatched
  <2> SUFFICES ASSUME TypeInv, Watched, back = 0, NEW t \in m_timers, ~Awake
               PROVE  \E w \in Worker : 0 <= left[w] /\ (left[w] = 0 \/ now + left[w] <= timer[t].next)
    BY DEF TimerIsWatched, Awake
  <2>1. PICK w \in Worker : Covers(w)
    BY DEF Watched
  <2> QED BY <2>1 DEF Covers
<1>2. Spec => []Watched
  BY TimeReadAlways, FatesAlways, WatchedInit, WatchedStep, PTL DEF Spec
<1> QED BY <1>1, <1>2, TypeAlways, PTL
====
