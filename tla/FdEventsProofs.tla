--------------------------- MODULE FdEventsProofs ---------------------------
(***************************************************************************)
(* Proofs about FdEvents for any number of workers, readers and writers.   *)
(***************************************************************************)
EXTENDS FdEvents, TLAPS

USE DEF Event

(* The roles of coroutines, and the event each of them waits for. *)
LEMMA Roles ==
  /\ Owner \in Co /\ Owner \notin Caller /\ Caller \subseteq Co /\ Nobody \notin Co
  /\ \A c \in Co : Of(c) \in Event /\ (c # Owner => c \in Caller)
  /\ Of(Owner) = "WRITE" /\ Timed \subseteq Co
BY RolesAssumption DEF Co, Caller, Of

------------------------------------------------------------------------------
(* Types *)

Places == {"out", "try", "add", "held", "woken", "closed", "dialed", "open", "shut", "close"}

LEMMA TypeInit == Init => TypeOK
<1> SUFFICES ASSUME Init PROVE TypeOK
  OBVIOUS
<1> USE Roles DEF Init
<1>1. pc \in [Co -> Places] /\ waiter \in [Event -> Co \cup {Nobody}]
  BY DEF Places
<1>2. /\ timer \in [Co -> BOOLEAN] /\ due \in [Co -> BOOLEAN]
      /\ cancelled \in [Co -> BOOLEAN] /\ half \in [Co -> BOOLEAN]
  OBVIOUS
<1>3. report \in [Worker -> [events : SUBSET Event, hup : BOOLEAN]]
  BY DEF NoReport
<1> QED BY <1>1, <1>2, <1>3 DEF TypeOK, Places

(* The types of what epoll_ctl and triggerEvent change. *)
LEMMA WatchType ==
  ASSUME NEW events \in SUBSET Event, Watch(events)
  PROVE  interest' \in SUBSET Event /\ listed' \in BOOLEAN
BY DEF Watch, Reportable

LEMMA TriggerType ==
  ASSUME TypeOK, NEW events, Trigger(events)
  PROVE  pc' \in [Co -> Places] /\ waiter' \in [Event -> Co \cup {Nobody}] /\ aborted' \in BOOLEAN
BY DEF TypeOK, Trigger, Places

LEMMA CancelType ==
  ASSUME TypeOK, NEW e \in Event, CancelEvent(e)
  PROVE  /\ pc' \in [Co -> Places] /\ waiter' \in [Event -> Co \cup {Nobody}]
         /\ interest' \in SUBSET Event /\ listed' \in BOOLEAN /\ aborted' \in BOOLEAN
<1>1. CASE e \in Events /\ interest # {}
  <2>1. Watch(Events \ {e}) /\ Trigger({e})
    BY <1>1 DEF CancelEvent
  <2> QED BY <2>1, WatchType, TriggerType DEF Events
<1>2. CASE ~(e \in Events /\ interest # {})
  BY <1>2 DEF CancelEvent, TypeOK, Places, epoll
<1> QED BY <1>1, <1>2

LEMMA TypeStep == TypeOK /\ [Next]_vars => TypeOK'
<1> SUFFICES ASSUME TypeOK, [Next]_vars PROVE TypeOK'
  OBVIOUS
<1> USE Roles DEF TypeOK, calls, kernel, epoll, Goes
<1>1. ASSUME Environment PROVE TypeOK'
  <2>1. ASSUME NEW events \in SUBSET Event, NEW to \in {"up", "down"}, Happens(events, to)
        PROVE  TypeOK'
    BY <2>1 DEF Happens
  <2> QED BY <1>1, <2>1 DEF Environment, Established, Refused, Arrives, Drains, HangsUp
<1>2. ASSUME NEW w \in Worker, Fetch(w) PROVE TypeOK'
  BY <1>2 DEF Fetch, NoReport, Hup
<1>3. ASSUME NEW w \in Worker, Handle(w) PROVE TypeOK'
  <2>1. report' \in [Worker -> [events : SUBSET Event, hup : BOOLEAN]]
    BY <1>3 DEF Handle, NoReport
  <2> DEFINE real == report[w].events \cup (IF report[w].hup THEN Events ELSE {})
  <2>2. CASE Events \cap real = {} \/ interest = {}
    BY <1>3, <2>1, <2>2 DEF Handle
  <2>3. CASE ~(Events \cap real = {} \/ interest = {})
    <3>1. Watch(Events \ real) /\ Trigger(real) /\ UNCHANGED <<calls, kernel, raced>>
      BY <1>3, <2>3 DEF Handle
    <3> QED BY <2>1, <3>1, WatchType, TriggerType DEF Events, Places
  <2> QED BY <2>2, <2>3
<1>4. ASSUME NEW c \in Co, Add(c) PROVE TypeOK'
  <2>1. UNCHANGED <<due, cancelled, half, kernel, report, aborted>> /\ AddEvent(c)
    BY <1>4 DEF Add
  <2>2. CASE Of(c) \in Events
    BY <2>1, <2>2 DEF AddEvent
  <2>3. CASE Of(c) \notin Events /\ open /\ (Events = {} <=> interest = {})
    <3>1. /\ pc' = [pc EXCEPT ![c] = "held"] /\ waiter' = [waiter EXCEPT ![Of(c)] = c]
          /\ Watch(Events \cup {Of(c)}) /\ raced' = (raced \/ pc[Owner] = "close") /\ UNCHANGED timer
      BY <2>1, <2>3 DEF AddEvent
    <3> QED BY <2>1, <3>1, WatchType DEF Events
  <2>4. CASE Of(c) \notin Events /\ ~(open /\ (Events = {} <=> interest = {}))
    <3>1. /\ pc' = [pc EXCEPT ![c] = IF c = Owner THEN "dialed" ELSE "out"]
          /\ timer' = [timer EXCEPT ![c] = FALSE] /\ UNCHANGED <<waiter, epoll, raced>>
      BY <2>1, <2>4 DEF AddEvent
    <3> QED BY <2>1, <3>1
  <2> QED BY <2>2, <2>3, <2>4
<1>5. ASSUME NEW c \in Co, Resume(c) PROVE TypeOK'
  BY <1>5 DEF Resume
<1>6. ASSUME NEW c \in Co, Try(c) PROVE TypeOK'
  <2>1. UNCHANGED <<due, cancelled, half, waiter, open, link, epoll, report, aborted, raced>>
    BY <1>6 DEF Try
  <2>2. ready' \in SUBSET Event
    BY <1>6 DEF Try
  <2>3. pc' \in [Co -> Places] /\ timer' \in [Co -> BOOLEAN]
    <3>1. CASE open /\ Of(c) \notin ready
      <4>1. pc' = [pc EXCEPT ![c] = "add"] /\ timer' = [timer EXCEPT ![c] = c \in Timed]
        BY <1>6, <3>1 DEF Try, Arm
      <4>2. timer' \in [Co -> BOOLEAN]
        BY <4>1
      <4> QED BY <4>1, <4>2 DEF Places
    <3>2. CASE ~(open /\ Of(c) \notin ready)
      BY <1>6, <3>2 DEF Try, Places
    <3> QED BY <3>1, <3>2
  <2> QED BY <2>1, <2>2, <2>3 DEF Places
<1>7. ASSUME NEW c \in Caller, Call(c) PROVE TypeOK'
  BY <1>7 DEF Call
<1>8. ASSUME NEW c \in Co, Expire(c) PROVE TypeOK'
  BY <1>8 DEF Expire
<1>9. ASSUME NEW c \in Co, Callback(c) PROVE TypeOK'
  <2>1. CASE CallbackSets(c)
    <3>1. due' \in [Co -> BOOLEAN] /\ UNCHANGED <<pc, timer, waiter, kernel, epoll, report, aborted, raced>>
      BY <2>1 DEF CallbackSets
    <3>2. cancelled' \in [Co -> BOOLEAN] /\ half' \in [Co -> BOOLEAN]
      <4>1. CASE UNCHANGED <<cancelled, half>>
        BY <4>1
      <4>2. CASE half' = [half EXCEPT ![c] = TRUE] /\ cancelled' = [cancelled EXCEPT ![c] = TRUE]
        BY <4>2
      <4> HIDE DEF TypeOK, kernel, epoll
      <4> QED BY <2>1, <4>1, <4>2 DEF CallbackSets
    <3> QED BY <3>1, <3>2
  <2>2. CASE CallbackCancels(c)
    <3>1. CancelEvent(Of(c)) /\ UNCHANGED <<timer, due, cancelled, kernel, report>>
          /\ half' = [half EXCEPT ![c] = FALSE] /\ raced' \in BOOLEAN
      BY <2>2 DEF CallbackCancels
    <3> QED BY <3>1, CancelType DEF Places
  <2> QED BY <1>9, <2>1, <2>2 DEF Callback
<1>10. ASSUME Connect PROVE TypeOK'
  BY <1>10 DEF Connect, Arm
<1>11. ASSUME Connected \/ NotConnected \/ Shut PROVE TypeOK'
  <2>1. UNCHANGED <<calls, waiter, kernel, epoll, report, aborted, raced>>
    BY <1>11 DEF Connected, NotConnected, Shut
  <2>2. pc' = [pc EXCEPT ![Owner] = "open"] \/ pc' = [pc EXCEPT ![Owner] = "shut"]
    BY <1>11 DEF Connected, NotConnected, Shut
  <2>3. pc' \in [Co -> Places]
    BY <2>2 DEF Places
  <2> QED BY <2>1, <2>3 DEF Places
<1>12. ASSUME Closing PROVE TypeOK'
  <2>1. CASE CloseCancels
    <3>1. UNCHANGED <<calls, kernel, report, aborted, raced>> /\ pc' \in [Co -> Places]
      BY <2>1 DEF CloseCancels, Places
    <3>2. waiter' \in [Event -> Co \cup {Nobody}] /\ interest' \in SUBSET Event /\ listed' \in BOOLEAN
      BY <2>1, WatchType DEF CloseCancels
    <3> QED BY <3>1, <3>2 DEF Places
  <2>2. CASE Close
    BY <2>2 DEF Close
  <2> QED BY <1>12, <2>1, <2>2 DEF Closing
<1>13. ASSUME UNCHANGED vars PROVE TypeOK'
  BY <1>13 DEF vars
<1> QED
  BY <1>1, <1>2, <1>3, <1>4, <1>5, <1>6, <1>7, <1>8, <1>9, <1>10, <1>11, <1>12, <1>13
  DEF Next, Idle, Proceed

THEOREM TypeCorrect == Spec => []TypeOK
BY TypeInit, TypeStep, PTL DEF Spec

------------------------------------------------------------------------------
(* Contexts *)

(* A coroutine in a context has yielded, in a wait for that event; the      *)
(* owner and the callers are each where their code can be.                  *)
Contexts ==
  /\ \A e \in Event : waiter[e] # Nobody => pc[waiter[e]] = "held" /\ Of(waiter[e]) = e
  /\ open <=> pc[Owner] # "closed"
  /\ \A c \in Caller : pc[c] \in {"out", "try", "add", "held", "woken"}
  /\ pc[Owner] \notin {"out", "try"}

(* Before a race, whoever has yielded is in a context, epoll watches what   *)
(* the contexts hold, and none is left between cancelAll and close_f.       *)
Registered ==
  /\ \A c \in Co : pc[c] = "held" => waiter[Of(c)] = c
  /\ interest = Events
  /\ pc[Owner] = "close" => Events = {}

ContextInv == TypeOK /\ Contexts /\ (~raced => Registered)

LEMMA ContextInit == Init => ContextInv
BY TypeInit, Roles DEF Init, ContextInv, Contexts, Registered, Events

(* Whoever is in the contexts of some events is taken out and scheduled.    *)
LEMMA TriggerContexts ==
  ASSUME ContextInv, NEW events \in SUBSET Event, Trigger(events), Watch(Events \ events),
         UNCHANGED open, raced \in BOOLEAN, ~raced' => ~raced
  PROVE  Contexts' /\ (~raced' => Registered')
<1> USE Roles DEF ContextInv, TypeOK
<1>1. \A c \in Co : pc'[c] = IF \E e \in events : waiter[e] = c THEN "woken" ELSE pc[c]
  BY DEF Trigger
<1>2. \A e \in Event : waiter'[e] = IF e \in events THEN Nobody ELSE waiter[e]
  BY DEF Trigger
<1>3. \A c \in Co : pc'[c] # pc[c] => pc[c] = "held" /\ pc'[c] = "woken"
  BY <1>1 DEF Contexts
<1>4. \A e \in Event : waiter'[e] # Nobody => pc'[waiter'[e]] = "held" /\ Of(waiter'[e]) = e
  BY <1>1, <1>2 DEF Contexts
<1>5. Contexts'
  BY <1>3, <1>4 DEF Contexts
<1>6. Events' = Events \ events
  BY <1>2 DEF Events
<1>7. ASSUME ~raced' PROVE Registered'
  <2>1. \A c \in Co : pc'[c] = "held" => waiter'[Of(c)] = c
    BY <1>1, <1>2, <1>7 DEF Registered
  <2>2. pc'[Owner] = "close" => pc[Owner] = "close"
    BY <1>1
  <2> QED BY <1>6, <1>7, <2>1, <2>2 DEF Registered, Watch
<1> QED BY <1>5, <1>7

(* A step that neither begins nor ends a wait keeps the contexts.           *)
LEMMA MoveKeeps ==
  ASSUME ContextInv, NEW c \in Co, NEW from, NEW to, Goes(c, from, to),
         from # "held", to \notin {"held", "close"}, UNCHANGED <<waiter, interest>>, ~raced' => ~raced,
         c \in Caller => to \in {"out", "try", "add", "held", "woken"},
         c = Owner => to \notin {"out", "try"},
         open' <=> pc'[Owner] # "closed"
  PROVE  Contexts' /\ (~raced' => Registered')
<1> USE Roles DEF ContextInv, TypeOK, Goes
<1>1. \A d \in Co : d # c => pc'[d] = pc[d]
  OBVIOUS
<1>2. Contexts'
  BY <1>1 DEF Contexts
<1>3. ~raced' => Registered'
  BY <1>1 DEF Registered, Events
<1> QED BY <1>2, <1>3

LEMMA ContextKept ==
  ASSUME ContextInv, UNCHANGED <<pc, waiter, interest, open, raced>>
  PROVE  Contexts' /\ (~raced' => Registered')
BY DEF ContextInv, Contexts, Registered, Events

LEMMA CancelContexts ==
  ASSUME ContextInv, NEW e \in Event, CancelEvent(e), UNCHANGED open, ~raced' => ~raced
  PROVE  Contexts' /\ (~raced' => Registered')
<1>1. CASE e \in Events /\ interest # {}
  BY <1>1, TriggerContexts DEF CancelEvent, ContextInv, TypeOK
<1>2. CASE ~(e \in Events /\ interest # {})
  BY <1>2, ContextKept DEF CancelEvent, epoll, ContextInv, Contexts, Registered, Events
<1> QED BY <1>1, <1>2

LEMMA ContextStep == ContextInv /\ [Next]_vars => ContextInv'
<1> SUFFICES ASSUME ContextInv, [Next]_vars PROVE Contexts' /\ (~raced' => Registered')
  BY TypeStep DEF ContextInv
<1> USE Roles DEF calls, kernel, epoll
<1> DEFINE Goal == Contexts' /\ (~raced' => Registered')
<1>1. ASSUME Environment PROVE Goal
  BY <1>1, ContextKept DEF Environment, Established, Refused, Arrives, Drains, HangsUp, Happens
<1>2. ASSUME NEW w \in Worker, Fetch(w) PROVE Goal
  BY <1>2, ContextKept DEF Fetch
<1>3. ASSUME NEW w \in Worker, Handle(w) PROVE Goal
  <2> DEFINE real == report[w].events \cup (IF report[w].hup THEN Events ELSE {})
  <2>1. CASE Events \cap real = {} \/ interest = {}
    BY <1>3, <2>1, ContextKept DEF Handle
  <2>2. CASE ~(Events \cap real = {} \/ interest = {})
    <3>1. Watch(Events \ real) /\ Trigger(real) /\ UNCHANGED <<open, raced>>
      BY <1>3, <2>2 DEF Handle
    <3>2. real \in SUBSET Event
      BY DEF ContextInv, TypeOK, Events
    <3> HIDE DEF real
    <3> QED BY <3>1, <3>2, TriggerContexts DEF ContextInv, TypeOK
  <2> QED BY <2>1, <2>2
<1>4. ASSUME NEW c \in Co, Add(c) PROVE Goal
  <2>1. UNCHANGED open /\ AddEvent(c)
    BY <1>4 DEF Add
  <2>2. CASE Of(c) \in Events
    <3>1. pc' = [pc EXCEPT ![c] = "held"] /\ pc[c] = "add" /\ raced' /\ UNCHANGED <<waiter, interest>>
      BY <2>1, <2>2 DEF AddEvent, Goes
    <3> QED BY <2>1, <3>1 DEF ContextInv, TypeOK, Contexts
  <2>3. CASE Of(c) \notin Events /\ open /\ (Events = {} <=> interest = {})
    <3>1. /\ pc' = [pc EXCEPT ![c] = "held"] /\ pc[c] = "add" /\ waiter' = [waiter EXCEPT ![Of(c)] = c]
          /\ interest' = Events \cup {Of(c)} /\ raced' = (raced \/ pc[Owner] = "close")
      BY <2>1, <2>3 DEF AddEvent, Goes, Watch
    <3>2. Contexts'
      BY <2>1, <2>3, <3>1 DEF ContextInv, TypeOK, Contexts, Events
    <3>3. ASSUME ~raced' PROVE Registered'
      <4>1. Registered /\ pc[Owner] # "close"
        BY <3>1, <3>3 DEF ContextInv
      <4>2. Events' = Events \cup {Of(c)}
        BY <3>1 DEF ContextInv, TypeOK, Events
      <4>3. \A d \in Co : pc'[d] = "held" => waiter'[Of(d)] = d
        BY <2>3, <3>1, <4>1 DEF ContextInv, TypeOK, Registered, Events
      <4> QED BY <3>1, <4>1, <4>2, <4>3 DEF ContextInv, TypeOK, Registered
    <3> QED BY <3>2, <3>3
  <2>4. CASE Of(c) \notin Events /\ ~(open /\ (Events = {} <=> interest = {}))
    <3> DEFINE to == IF c = Owner THEN "dialed" ELSE "out"
    <3>1. Goes(c, "add", to) /\ UNCHANGED <<waiter, interest, raced>>
      BY <2>1, <2>4 DEF AddEvent
    <3>2. open' <=> pc'[Owner] # "closed"
      BY <2>1, <3>1 DEF ContextInv, TypeOK, Contexts, Goes
    <3> QED BY <3>1, <3>2, MoveKeeps
  <2> QED BY <2>2, <2>3, <2>4
<1>5. ASSUME NEW c \in Co, Resume(c) PROVE Goal
  <2>1. PICK to : Goes(c, "woken", to) /\ to \in (IF c = Owner THEN {"shut", "dialed"} ELSE {"out", "try"})
    BY <1>5 DEF Resume
  <2>2. UNCHANGED <<waiter, interest, open, raced>>
    BY <1>5 DEF Resume
  <2>3. open' <=> pc'[Owner] # "closed"
    BY <2>1, <2>2 DEF ContextInv, TypeOK, Contexts, Goes
  <2> QED BY <2>1, <2>2, <2>3, MoveKeeps
<1>6. ASSUME NEW c \in Caller, Try(c) PROVE Goal
  <2>1. PICK to \in {"add", "out"} : Goes(c, "try", to)
    BY <1>6 DEF Try
  <2>2. UNCHANGED <<waiter, interest, open, raced>>
    BY <1>6 DEF Try
  <2>3. open' <=> pc'[Owner] # "closed"
    BY <2>1, <2>2 DEF ContextInv, TypeOK, Contexts, Goes
  <2> QED BY <2>1, <2>2, <2>3, MoveKeeps
<1>7. ASSUME NEW c \in Caller, Call(c) PROVE Goal
  <2>1. Goes(c, "out", "try") /\ UNCHANGED <<waiter, interest, open, raced>>
    BY <1>7 DEF Call
  <2>2. open' <=> pc'[Owner] # "closed"
    BY <2>1 DEF ContextInv, TypeOK, Contexts, Goes
  <2> QED BY <2>1, <2>2, MoveKeeps
<1>8. ASSUME NEW c \in Co, Expire(c) \/ CallbackSets(c) PROVE Goal
  BY <1>8, ContextKept DEF Expire, CallbackSets
<1>9. ASSUME NEW c \in Co, CallbackCancels(c) PROVE Goal
  <2>1. CancelEvent(Of(c)) /\ UNCHANGED open /\ (~raced' => ~raced)
    BY <1>9 DEF CallbackCancels
  <2> QED BY <2>1, CancelContexts
<1>10. ASSUME Connect PROVE Goal
  <2>1. Goes(Owner, "closed", "add") /\ UNCHANGED <<waiter, interest>> /\ open' /\ (~raced' => ~raced)
    BY <1>10 DEF Connect
  <2>2. open' <=> pc'[Owner] # "closed"
    BY <2>1 DEF ContextInv, TypeOK, Goes
  <2> QED BY <2>1, <2>2, MoveKeeps
<1>11. ASSUME Connected \/ NotConnected \/ Shut PROVE Goal
  <2>1. PICK from \in {"dialed", "open"}, to \in {"open", "shut"} : Goes(Owner, from, to)
    BY <1>11 DEF Connected, NotConnected, Shut
  <2>2. UNCHANGED <<waiter, interest, open, raced>>
    BY <1>11 DEF Connected, NotConnected, Shut
  <2>3. open' <=> pc'[Owner] # "closed"
    BY <2>1, <2>2 DEF ContextInv, TypeOK, Contexts, Goes
  <2> QED BY <2>1, <2>2, <2>3, MoveKeeps
<1>12. ASSUME CloseCancels PROVE Goal
  <2> USE <1>12 DEF ContextInv, TypeOK, CloseCancels
  <2>1. UNCHANGED <<open, raced>> /\ pc[Owner] = "shut" /\ pc'[Owner] = "close"
    OBVIOUS
  <2>2. \A c \in Caller : pc'[c] = IF interest # {} /\ \E e \in Events : waiter[e] = c THEN "woken" ELSE pc[c]
    OBVIOUS
  <2>3. CASE Events # {} /\ interest # {}
    <3>1. interest' = {} /\ waiter' = [e \in Event |-> Nobody]
      BY <2>3 DEF Watch
    <3>2. Events' = {}
      BY <3>1 DEF Events
    <3>3. Contexts'
      BY <2>1, <2>2, <3>1 DEF Contexts
    <3>4. raced \/ \A c \in Co : pc'[c] # "held"
      BY <2>1, <2>2, <2>3 DEF Registered, Events
    <3> QED BY <2>1, <3>1, <3>2, <3>3, <3>4 DEF Registered
  <2>4. CASE ~(Events # {} /\ interest # {})
    <3>1. UNCHANGED <<waiter, interest>> /\ \A c \in Caller : pc'[c] = pc[c]
      BY <2>2, <2>4
    <3>2. Contexts'
      BY <2>1, <3>1 DEF Contexts
    <3>3. ~raced' => Registered'
      BY <2>1, <2>4, <3>1 DEF Registered, Events
    <3> QED BY <3>2, <3>3
  <2> QED BY <2>3, <2>4
<1>13. ASSUME Close PROVE Goal
  <2>1. /\ pc[Owner] = "close" /\ pc' = [pc EXCEPT ![Owner] = "closed"] /\ ~open' /\ interest' = {}
        /\ UNCHANGED <<waiter, raced>>
    BY <1>13 DEF Close, Goes
  <2>2. Contexts'
    BY <2>1 DEF ContextInv, TypeOK, Contexts
  <2>3. ~raced' => Registered'
    BY <2>1 DEF ContextInv, TypeOK, Registered, Events
  <2> QED BY <2>2, <2>3
<1>14. ASSUME UNCHANGED vars PROVE Goal
  BY <1>14, ContextKept DEF vars
<1> HIDE DEF Goal
<1>15. Goal
  BY <1>1, <1>2, <1>3, <1>4, <1>5, <1>6, <1>7, <1>8, <1>9, <1>10, <1>11, <1>12, <1>13, <1>14
  DEF Next, Idle, Proceed, Callback, Closing, Co, Caller
<1> QED BY <1>15 DEF Goal

(* Whoever has yielded in do_io or connect is in the context of its event,  *)
(* which epoll watches, however reports, timeouts and closings interleave.  *)
THEOREM WaiterIsKnownHolds == Spec => []WaiterIsKnown
<1>1. ContextInv => WaiterIsKnown
  BY Roles DEF ContextInv, Registered, WaiterIsKnown, Events
<1> QED BY <1>1, ContextInit, ContextStep, PTL DEF Spec

------------------------------------------------------------------------------
(* Timeouts *)

(* The timer of a call is armed before the event is added, and runs until   *)
(* it expires or the coroutine resumes. A callback that has set cancelled   *)
(* is yet to cancel the event, unless the coroutine is scheduled already.   *)
Running(c) == /\ pc[c] \in {"try", "add", "held"} /\ cancelled[c] => half[c]
              /\ c \in Timed /\ pc[c] \in {"add", "held"} => timer[c] \/ due[c] \/ cancelled[c]
Armed == \A c \in Co : Running(c)

TimeoutInv == ContextInv /\ (~raced => Armed)

LEMMA ArmedKept ==
  ASSUME TimeoutInv, ~raced, UNCHANGED <<timer, due, cancelled, half>>,
         \A c \in Co : /\ pc'[c] \in {"add", "held"} => pc[c] \in {"add", "held"}
                       /\ pc'[c] = "try" => pc[c] = "try"
  PROVE  Armed'
BY Roles DEF TimeoutInv, Armed, Running

(* A step of one coroutine: the others are where they were.                 *)
LEMMA ArmedOne ==
  ASSUME TimeoutInv, ~raced, NEW c \in Co,
         \A d \in Co : d # c => /\ pc'[d] = pc[d] /\ timer'[d] = timer[d] /\ due'[d] = due[d]
                                /\ cancelled'[d] = cancelled[d] /\ half'[d] = half[d],
         Running(c)'
  PROVE  Armed'
<1>1. ASSUME NEW d \in Co, d # c PROVE Running(d)'
  BY <1>1 DEF TimeoutInv, Armed, Running
<1> QED BY <1>1 DEF Armed

LEMMA TimeoutInit == Init => TimeoutInv
BY ContextInit, Roles DEF Init, TimeoutInv, Armed, Running

LEMMA TimeoutStep == TimeoutInv /\ [Next]_vars => TimeoutInv'
<1> SUFFICES ASSUME TimeoutInv, [Next]_vars, ~raced' PROVE Armed'
  BY ContextStep DEF TimeoutInv
<1> USE Roles DEF calls, kernel, epoll
<1>1. ContextInv /\ TypeOK
  BY DEF TimeoutInv, ContextInv
<1>2. ASSUME Environment PROVE Armed'
  BY <1>2, ArmedKept DEF Environment, Established, Refused, Arrives, Drains, HangsUp, Happens
<1>3. ASSUME NEW w \in Worker, Idle(w) PROVE Armed'
  <2>1. UNCHANGED <<timer, due, cancelled, half, raced>>
    BY <1>3 DEF Idle, Fetch, Handle
  <2>2. \A c \in Co : pc'[c] \in {"try", "add", "held"} => pc'[c] = pc[c]
    BY <1>1, <1>3 DEF Idle, Fetch, Handle, Trigger, TypeOK
  <2> QED BY <2>1, <2>2, ArmedKept
<1>4. ASSUME NEW c \in Co, Add(c) PROVE Armed'
  <2>1. pc[c] = "add" /\ \A d \in Co : d # c => pc'[d] = pc[d] /\ timer'[d] = timer[d]
    BY <1>1, <1>4 DEF Add, AddEvent, Goes, TypeOK
  <2>2. UNCHANGED <<due, cancelled, half>> /\ ~raced
    BY <1>1, <1>4 DEF Add, AddEvent, TypeOK
  <2>3. UNCHANGED timer \/ pc'[c] \in {"dialed", "out"}
    BY <1>1, <1>4 DEF Add, AddEvent, Goes, TypeOK
  <2>4. Running(c)'
    BY <2>1, <2>2, <2>3 DEF TimeoutInv, Armed, Running
  <2> QED BY <2>1, <2>2, <2>4, ArmedOne
<1>5. ASSUME NEW c \in Co, Resume(c) PROVE Armed'
  <2>1. timer' = [timer EXCEPT ![c] = FALSE] /\ UNCHANGED <<due, cancelled, half, raced>>
    BY <1>5 DEF Resume
  <2>2. /\ \A d \in Co : d # c => pc'[d] = pc[d] /\ timer'[d] = timer[d]
        /\ pc'[c] \notin {"add", "held"} /\ (cancelled[c] => pc'[c] # "try")
    BY <1>1, <1>5, <2>1 DEF Resume, Goes, TypeOK
  <2>3. Running(c)'
    BY <2>1, <2>2 DEF Running
  <2> QED BY <2>1, <2>2, <2>3, ArmedOne
<1>6. ASSUME NEW c \in Caller, Try(c) PROVE Armed'
  <2>1. UNCHANGED <<due, cancelled, half, raced>> /\ pc[c] = "try"
    BY <1>6 DEF Try, Goes
  <2>2. CASE pc' = [pc EXCEPT ![c] = "add"] /\ timer' = [timer EXCEPT ![c] = c \in Timed]
    <3>1. \A d \in Co : d # c => pc'[d] = pc[d] /\ timer'[d] = timer[d]
      BY <1>1, <2>2 DEF TypeOK
    <3>2. Running(c)'
      BY <1>1, <2>1, <2>2 DEF TimeoutInv, Armed, Running, TypeOK
    <3> QED BY <2>1, <3>1, <3>2, ArmedOne
  <2>3. CASE pc' = [pc EXCEPT ![c] = "out"] /\ UNCHANGED timer
    BY <1>1, <2>1, <2>3, ArmedKept DEF TypeOK
  <2> QED BY <1>6, <2>2, <2>3 DEF Try, Arm, Goes
<1>7. ASSUME NEW c \in Caller, Call(c) PROVE Armed'
  <2>1. pc' = [pc EXCEPT ![c] = "try"] /\ due' = [due EXCEPT ![c] = FALSE]
        /\ cancelled' = [cancelled EXCEPT ![c] = FALSE] /\ UNCHANGED <<timer, half, raced>>
    BY <1>7 DEF Call, Goes
  <2>2. \A d \in Co : d # c => pc'[d] = pc[d] /\ due'[d] = due[d] /\ cancelled'[d] = cancelled[d]
    BY <1>1, <2>1 DEF TypeOK
  <2>3. Running(c)'
    BY <1>1, <2>1 DEF Running, TypeOK
  <2> QED BY <2>1, <2>2, <2>3, ArmedOne
<1>8. ASSUME NEW c \in Co, Expire(c) PROVE Armed'
  <2>1. timer' = [timer EXCEPT ![c] = FALSE] /\ due' = [due EXCEPT ![c] = TRUE]
        /\ UNCHANGED <<pc, cancelled, half, raced>>
    BY <1>8 DEF Expire
  <2>2. due'[c] /\ \A d \in Co : d # c => timer'[d] = timer[d] /\ due'[d] = due[d]
    BY <1>1, <2>1 DEF TypeOK
  <2>3. Running(c)'
    BY <2>1, <2>2 DEF TimeoutInv, Armed, Running
  <2> QED BY <2>1, <2>2, <2>3, ArmedOne
<1>9. ASSUME NEW c \in Co, CallbackSets(c) PROVE Armed'
  <2>1. due' = [due EXCEPT ![c] = FALSE] /\ UNCHANGED <<pc, timer, raced>>
    BY <1>9 DEF CallbackSets
  <2>2. \A d \in Co : d # c => due'[d] = due[d]
    BY <1>1, <2>1 DEF TypeOK
  <2>3. CASE InCall(c) /\ ~cancelled[c]
    <3>1. half' = [half EXCEPT ![c] = TRUE] /\ cancelled' = [cancelled EXCEPT ![c] = TRUE]
      BY <1>9, <2>3 DEF CallbackSets
    <3>2. half'[c] /\ cancelled'[c]
          /\ \A d \in Co : d # c => half'[d] = half[d] /\ cancelled'[d] = cancelled[d]
      BY <1>1, <3>1 DEF TypeOK
    <3>3. Running(c)'
      BY <3>2 DEF Running
    <3> QED BY <2>1, <2>2, <3>2, <3>3, ArmedOne
  <2>4. CASE ~(InCall(c) /\ ~cancelled[c])
    <3>1. UNCHANGED <<half, cancelled>>
      BY <1>9, <2>4 DEF CallbackSets
    <3>2. Running(c)'
      BY <2>1, <2>4, <3>1 DEF TimeoutInv, Armed, Running, InCall
    <3> QED BY <2>1, <2>2, <3>1, <3>2, ArmedOne
  <2> QED BY <2>3, <2>4
<1>10. ASSUME NEW c \in Co, CallbackCancels(c) PROVE Armed'
  <2>1. half' = [half EXCEPT ![c] = FALSE] /\ CancelEvent(Of(c)) /\ UNCHANGED <<timer, due, cancelled>>
    BY <1>10 DEF CallbackCancels
  <2>2. ~raced /\ ~(cancelled[c] /\ pc[c] \in {"try", "add"})
    BY <1>10 DEF CallbackCancels
  <2>3. \A d \in Co : pc'[d] # pc[d] => pc'[d] = "woken"
    BY <1>1, <2>1 DEF CancelEvent, Trigger, TypeOK
  <2>4. pc[c] = "held" => pc'[c] = "woken"
    <3>1. SUFFICES ASSUME pc[c] = "held" PROVE pc'[c] = "woken"
      OBVIOUS
    <3>2. waiter[Of(c)] = c /\ Of(c) \in Events /\ interest # {}
      BY <1>1, <2>2, <3>1 DEF ContextInv, Registered, Events
    <3> QED BY <1>1, <2>1, <3>2 DEF CancelEvent, Trigger, TypeOK
  <2>5. \A d \in Co : d # c => half'[d] = half[d]
    BY <1>1, <2>1 DEF TypeOK
  <2>6. Running(c)'
    BY <2>1, <2>2, <2>3, <2>4 DEF TimeoutInv, Armed, Running
  <2>7. ASSUME NEW d \in Co, d # c PROVE Running(d)'
    BY <2>1, <2>2, <2>3, <2>5, <2>7 DEF TimeoutInv, Armed, Running
  <2> QED BY <2>6, <2>7 DEF Armed
<1>11. ASSUME Connect PROVE Armed'
  <2>1. /\ pc' = [pc EXCEPT ![Owner] = "add"] /\ timer' = [timer EXCEPT ![Owner] = Owner \in Timed]
        /\ due' = [due EXCEPT ![Owner] = FALSE] /\ cancelled' = [cancelled EXCEPT ![Owner] = FALSE]
        /\ UNCHANGED half /\ ~raced
    BY <1>11 DEF Connect, Goes, Arm
  <2>2. \A d \in Co : d # Owner => /\ pc'[d] = pc[d] /\ timer'[d] = timer[d]
                                  /\ due'[d] = due[d] /\ cancelled'[d] = cancelled[d]
    BY <1>1, <2>1 DEF TypeOK
  <2>3. Running(Owner)'
    BY <1>1, <2>1 DEF Running, TypeOK
  <2> QED BY <2>1, <2>2, <2>3, ArmedOne
<1>12. ASSUME Connected \/ NotConnected \/ Shut \/ Closing PROVE Armed'
  <2>1. UNCHANGED <<timer, due, cancelled, half, raced>>
    BY <1>12 DEF Connected, NotConnected, Shut, Closing, CloseCancels, Close
  <2>2. \A c \in Co : pc'[c] \in {"try", "add", "held"} => pc'[c] = pc[c]
    BY <1>1, <1>12 DEF Connected, NotConnected, Shut, Closing, CloseCancels, Close, Goes, TypeOK
  <2> QED BY <2>1, <2>2, ArmedKept
<1>13. ASSUME UNCHANGED vars PROVE Armed'
  BY <1>13, ArmedKept DEF vars
<1> QED
  BY <1>2, <1>3, <1>4, <1>5, <1>6, <1>7, <1>8, <1>9, <1>10, <1>11, <1>12, <1>13
  DEF Next, Proceed, Callback, Co, Caller

(* A wait with a timeout cannot outlast it, whatever callbacks of earlier   *)
(* calls of the same coroutine are still on their way.                      *)
THEOREM TimeoutIsArmedHolds == Spec => []TimeoutIsArmed
<1>1. TimeoutInv => TimeoutIsArmed
  BY Roles DEF TimeoutInv, Armed, Running, TimeoutIsArmed
<1> QED BY <1>1, TimeoutInit, TimeoutStep, PTL DEF Spec

------------------------------------------------------------------------------
(* Edge triggering *)

Reported(e, w) == e \in report[w].events \/ report[w].hup

EdgeInv == ContextInv /\ EdgeInFlight

(* After epoll_ctl what is ready is on the list, so nothing in flight is lost. *)
LEMMA WatchLists ==
  ASSUME NEW events, Watch(events), ready' \subseteq ready, UNCHANGED link, Events' \subseteq events
  PROVE  EdgeInFlight'
BY DEF EdgeInFlight, Watch, Reportable, Hup, Events

LEMMA EdgeKept ==
  ASSUME EdgeInv, raced' \/ ~raced, UNCHANGED <<listed, report, link>>, ready' \subseteq ready,
         raced' \/ Events' \subseteq Events
  PROVE  EdgeInFlight'
BY DEF EdgeInv, EdgeInFlight, Hup

LEMMA EdgeInit == Init => EdgeInv
BY ContextInit DEF Init, EdgeInv, EdgeInFlight, Events

LEMMA EdgeStep == EdgeInv /\ [Next]_vars => EdgeInv'
<1> SUFFICES ASSUME EdgeInv, [Next]_vars, ~raced' PROVE EdgeInFlight'
  BY ContextStep DEF EdgeInv, EdgeInFlight
<1> USE Roles DEF calls, kernel, epoll
<1>1. ContextInv /\ TypeOK
  BY DEF EdgeInv, ContextInv
<1>2. ASSUME Environment PROVE EdgeInFlight'
  <2>1. ASSUME NEW events \in SUBSET Event, NEW to, Happens(events, to),
               to = "down" <=> (link = "down" \/ events = Event)
        PROVE  EdgeInFlight'
    <3>1. UNCHANGED <<Events, interest, report, raced>> /\ interest = Events /\ ~raced
      BY <1>1, <2>1 DEF Happens, ContextInv, Registered, Events
    <3>2. ready' = ready \cup events /\ link' = to
          /\ listed' = (listed \/ (interest # {} /\ (events \cap interest # {} \/ to = "down")))
      BY <2>1 DEF Happens
    <3>3. ASSUME NEW e \in Events, e \in ready' \/ Hup' PROVE listed' \/ \E w \in Worker : Reported(e, w)
      <4>1. CASE e \in events \/ to = "down"
        BY <3>1, <3>2, <4>1
      <4>2. CASE e \notin events /\ to # "down"
        BY <3>1, <3>2, <3>3, <4>2 DEF EdgeInv, EdgeInFlight, Hup, Reported
      <4> QED BY <4>1, <4>2
    <3> QED BY <3>1, <3>3 DEF EdgeInFlight, Reported
  <2> QED BY <1>2, <2>1 DEF Environment, Established, Refused, Arrives, Drains, HangsUp
<1>3. ASSUME NEW w \in Worker, Fetch(w) PROVE EdgeInFlight'
  <2>1. UNCHANGED <<Events, ready, link, interest, raced>> /\ interest = Events /\ ~raced
    BY <1>1, <1>3 DEF Fetch, ContextInv, Registered, Events
  <2>2. ASSUME NEW e \in Events, e \in ready \/ Hup PROVE Reported(e, w)'
    <3>1. Reportable(interest)
      BY <2>1, <2>2 DEF Reportable
    <3>2. report'[w] = [events |-> ready \cap interest, hup |-> Hup]
      BY <1>1, <1>3, <3>1 DEF Fetch, TypeOK
    <3> QED BY <2>1, <2>2, <3>2 DEF Reported
  <2> QED BY <2>1, <2>2 DEF EdgeInFlight, Hup, Reported
<1>4. ASSUME NEW w \in Worker, Handle(w) PROVE EdgeInFlight'
  <2> DEFINE real == report[w].events \cup (IF report[w].hup THEN Events ELSE {})
  <2>1. UNCHANGED <<ready, link, raced>> /\ ~raced /\ interest = Events
    BY <1>1, <1>4 DEF Handle, ContextInv, Registered
  <2>2. CASE Events \cap real = {} \/ interest = {}
    <3>1. UNCHANGED <<Events, listed>>
      BY <1>4, <2>2 DEF Handle, Events
    <3>2. ASSUME NEW e \in Events PROVE ~Reported(e, w)
      BY <2>1, <2>2 DEF Reported
    <3>3. \A v \in Worker : v # w => report'[v] = report[v]
      BY <1>1, <1>4 DEF Handle, TypeOK
    <3> QED BY <2>1, <3>1, <3>2, <3>3 DEF EdgeInv, EdgeInFlight, Hup, Reported
  <2>3. CASE ~(Events \cap real = {} \/ interest = {})
    <3>1. Watch(Events \ real) /\ Trigger(real)
      BY <1>4, <2>3 DEF Handle
    <3>2. Events' \subseteq Events \ real
      BY <3>1 DEF Trigger, Events
    <3> HIDE DEF real
    <3> QED BY <2>1, <3>1, <3>2, WatchLists
  <2> QED BY <2>2, <2>3
<1>5. ASSUME NEW c \in Co, Add(c) PROVE EdgeInFlight'
  <2>1. UNCHANGED <<ready, link>> /\ ~raced /\ Of(c) \notin Events
    BY <1>1, <1>5 DEF Add, AddEvent, TypeOK
  <2>2. CASE open /\ (Events = {} <=> interest = {})
    <3>1. Watch(Events \cup {Of(c)}) /\ waiter' = [waiter EXCEPT ![Of(c)] = c]
      BY <1>5, <2>1, <2>2 DEF Add, AddEvent
    <3>2. Events' \subseteq Events \cup {Of(c)}
      BY <1>1, <3>1 DEF Events, TypeOK
    <3> QED BY <2>1, <3>1, <3>2, WatchLists
  <2>3. CASE ~(open /\ (Events = {} <=> interest = {}))
    BY <1>5, <2>1, <2>3, EdgeKept DEF Add, AddEvent, Events
  <2> QED BY <2>2, <2>3
<1>6. ASSUME NEW c \in Co, Resume(c) \/ Expire(c) \/ CallbackSets(c) PROVE EdgeInFlight'
  BY <1>6, EdgeKept DEF Resume, Expire, CallbackSets, Events
<1>7. ASSUME NEW c \in Co, CallbackCancels(c) PROVE EdgeInFlight'
  <2>1. CancelEvent(Of(c)) /\ UNCHANGED <<ready, link, report>> /\ ~raced
    BY <1>7 DEF CallbackCancels
  <2>2. CASE Of(c) \in Events /\ interest # {}
    <3>1. Watch(Events \ {Of(c)}) /\ Trigger({Of(c)})
      BY <2>1, <2>2 DEF CancelEvent
    <3>2. Events' \subseteq Events \ {Of(c)}
      BY <3>1 DEF Trigger, Events
    <3> QED BY <2>1, <3>1, <3>2, WatchLists
  <2>3. CASE ~(Of(c) \in Events /\ interest # {})
    BY <2>1, <2>3, EdgeKept DEF CancelEvent, Events
  <2> QED BY <2>2, <2>3
<1>8. ASSUME NEW c \in Caller, Try(c) PROVE EdgeInFlight'
  <2>1. UNCHANGED <<listed, report, link, raced, waiter>> /\ ready' \subseteq ready
    BY <1>8 DEF Try
  <2> QED BY <2>1, EdgeKept DEF Events
<1>9. ASSUME NEW c \in Caller, Call(c) PROVE EdgeInFlight'
  BY <1>9, EdgeKept DEF Call, Events
<1>10. ASSUME Connect PROVE EdgeInFlight'
  <2>1. Events' = {}
    BY <1>10 DEF Connect, Outstanding, Events
  <2> QED BY <2>1 DEF EdgeInFlight
<1>11. ASSUME Connected \/ NotConnected \/ Shut PROVE EdgeInFlight'
  BY <1>11, EdgeKept DEF Connected, NotConnected, Shut, Events
<1>12. ASSUME CloseCancels PROVE EdgeInFlight'
  <2>1. CASE Events # {} /\ interest # {}
    <3>1. Events' = {}
      BY <1>12, <2>1 DEF CloseCancels, Events
    <3> QED BY <3>1 DEF EdgeInFlight
  <2>2. CASE ~(Events # {} /\ interest # {})
    BY <1>12, <2>2, EdgeKept DEF CloseCancels, Events
  <2> QED BY <2>1, <2>2
<1>13. ASSUME Close PROVE EdgeInFlight'
  <2>1. Events' = {}
    BY <1>1, <1>13 DEF Close, Goes, ContextInv, Registered, Events
  <2> QED BY <2>1 DEF EdgeInFlight
<1>14. ASSUME UNCHANGED vars PROVE EdgeInFlight'
  BY <1>14, EdgeKept DEF vars, Events
<1> QED
  BY <1>2, <1>3, <1>4, <1>5, <1>6, <1>7, <1>8, <1>9, <1>10, <1>11, <1>12, <1>13, <1>14
  DEF Next, Idle, Proceed, Callback, Closing, Co, Caller

(* A waiting coroutine whose socket is ready is on its way to be scheduled: *)
(* every epoll_ctl of the code lists it again, and a report that is dropped *)
(* held nothing anybody waits for.                                          *)
THEOREM EdgeInFlightHolds == Spec => []EdgeInFlight
BY EdgeInit, EdgeStep, PTL DEF Spec, EdgeInv

------------------------------------------------------------------------------
(* connect *)

(* While a connection is being made nothing has happened on its socket:     *)
(* only its timeout can wake the owner.                                     *)
Dialing ==
  /\ ready = {} /\ \A w \in Worker : report[w] = NoReport
  /\ \A c \in Caller : ~half[c] /\ ~InCall(c)
  /\ pc[Owner] \notin {"closed", "dialed", "open"}
  /\ pc[Owner] = "woken" \/ half[Owner] => cancelled[Owner]

DialInv == /\ ContextInv
           /\ link \in {"none", "dialing", "up", "down"} /\ (link = "none" => pc[Owner] = "closed")
           /\ ~raced /\ link = "dialing" => Dialing

LEMMA DialInit == Init => DialInv
<1> SUFFICES ASSUME Init PROVE DialInv
  OBVIOUS
<1>1. link = "none" /\ pc[Owner] = "closed"
  BY Roles DEF Init
<1> QED BY <1>1, ContextInit DEF DialInv

LEMMA DialStep == DialInv /\ [Next]_vars => DialInv'
<1> SUFFICES ASSUME DialInv, [Next]_vars
             PROVE  (link' = "none" => pc'[Owner] = "closed") /\ (~raced' /\ link' = "dialing" => Dialing')
  BY ContextStep DEF DialInv, ContextInv, TypeOK
<1> USE Roles DEF calls, kernel, epoll
<1>1. ContextInv /\ TypeOK
  BY DEF DialInv, ContextInv
<1> DEFINE None == link' = "none" => pc'[Owner] = "closed"
           Dial == ~raced' /\ link' = "dialing" => Dialing'
<1>2. ASSUME Environment PROVE None /\ Dial
  BY <1>2 DEF Environment, Established, Refused, Arrives, Drains, HangsUp, Happens
<1>3. ASSUME NEW w \in Worker, Fetch(w) PROVE None /\ Dial
  <2>1. UNCHANGED <<pc, half, cancelled, ready, link, raced>>
    BY <1>3 DEF Fetch
  <2>2. None
    BY <2>1 DEF DialInv
  <2>3. ASSUME ~raced', link' = "dialing" PROVE Dialing'
    <3>1. Dialing /\ ~Reportable(interest)
      BY <2>1, <2>3 DEF DialInv, Dialing, Reportable, Hup
    <3>2. report' = [report EXCEPT ![w] = NoReport]
      BY <1>3, <3>1 DEF Fetch
    <3>3. \A v \in Worker : report'[v] = NoReport
      BY <1>1, <3>1, <3>2 DEF Dialing, TypeOK
    <3> QED BY <2>1, <3>1, <3>3 DEF Dialing, InCall
  <2> QED BY <2>2, <2>3
<1>4. ASSUME NEW w \in Worker, Handle(w) PROVE None /\ Dial
  <2>1. UNCHANGED <<link, raced>> /\ report[w] # NoReport
    BY <1>4 DEF Handle
  <2>2. pc'[Owner] = "closed" <=> pc[Owner] = "closed"
    BY <1>1, <1>4 DEF Handle, Trigger, TypeOK, ContextInv, Contexts, Events
  <2> QED BY <2>1, <2>2 DEF DialInv, Dialing
<1>5. ASSUME NEW c \in Co, Add(c) PROVE None /\ Dial
  <2>1. UNCHANGED <<link, ready, half, cancelled, due, report>> /\ pc[c] = "add"
        /\ pc'[c] \in {"held", "dialed", "out"} /\ \A d \in Co : d # c => pc'[d] = pc[d]
    BY <1>1, <1>5 DEF Add, AddEvent, Goes, TypeOK
  <2>2. None
    BY <2>1 DEF DialInv
  <2>3. ASSUME ~raced', link' = "dialing" PROVE Dialing'
    <3>1. ~raced
      BY <1>1, <1>5, <2>3 DEF Add, AddEvent, TypeOK
    <3>2. Dialing /\ c = Owner
      BY <2>1, <2>3, <3>1 DEF DialInv, Dialing, InCall
    <3>3. open /\ interest = Events
      BY <1>1, <2>1, <3>1, <3>2 DEF ContextInv, Contexts, Registered
    <3>4. pc'[Owner] = "held"
      BY <1>1, <1>5, <3>2, <3>3 DEF Add, AddEvent, Goes, TypeOK
    <3> QED BY <2>1, <3>2, <3>4 DEF Dialing, InCall
  <2> QED BY <2>2, <2>3
<1>6. ASSUME NEW c \in Co, Resume(c) PROVE None /\ Dial
  <2>1. UNCHANGED <<link, ready, half, cancelled, report, raced>> /\ pc[c] = "woken"
        /\ \A d \in Co : d # c => pc'[d] = pc[d]
    BY <1>1, <1>6 DEF Resume, Goes, TypeOK
  <2>2. None
    BY <2>1 DEF DialInv
  <2>3. ASSUME ~raced', link' = "dialing" PROVE Dialing'
    <3>1. Dialing /\ c = Owner
      BY <2>1, <2>3 DEF DialInv, Dialing, InCall
    <3>2. pc'[Owner] = "shut"
      BY <1>1, <1>6, <2>1, <3>1 DEF Resume, Goes, Dialing, TypeOK
    <3> QED BY <2>1, <3>1, <3>2 DEF Dialing, InCall
  <2> QED BY <2>2, <2>3
<1>7. ASSUME NEW c \in Caller, Try(c) \/ Call(c) PROVE None /\ Dial
  <2>1. UNCHANGED <<link, raced>> /\ pc'[Owner] = pc[Owner]
    BY <1>1, <1>7 DEF Try, Call, Goes, TypeOK
  <2>2. ~Dialing
    BY <1>7 DEF Try, Call, Goes, Dialing, InCall
  <2> QED BY <2>1, <2>2 DEF DialInv
<1>8. ASSUME NEW c \in Co, Expire(c) PROVE None /\ Dial
  BY <1>8 DEF Expire, DialInv, Dialing, InCall
<1>9. ASSUME NEW c \in Co, CallbackSets(c) PROVE None /\ Dial
  <2>1. UNCHANGED <<pc, link, ready, report, raced>>
    BY <1>9 DEF CallbackSets
  <2>2. None
    BY <2>1 DEF DialInv
  <2>3. ASSUME ~raced', link' = "dialing" PROVE Dialing'
    <3>1. Dialing
      BY <2>1, <2>3 DEF DialInv
    <3>2. CASE InCall(c) /\ ~cancelled[c]
      <4>1. c = Owner /\ half' = [half EXCEPT ![c] = TRUE] /\ cancelled' = [cancelled EXCEPT ![c] = TRUE]
        BY <1>9, <3>1, <3>2 DEF CallbackSets, Dialing
      <4>2. cancelled'[Owner] /\ \A d \in Caller : half'[d] = half[d]
        BY <1>1, <4>1 DEF TypeOK
      <4> QED BY <2>1, <3>1, <4>2 DEF Dialing, InCall
    <3>3. CASE ~(InCall(c) /\ ~cancelled[c])
      BY <1>9, <2>1, <3>1, <3>3 DEF CallbackSets, Dialing, InCall
    <3> QED BY <3>2, <3>3
  <2> QED BY <2>2, <2>3
<1>10. ASSUME NEW c \in Co, CallbackCancels(c) PROVE None /\ Dial
  <2>1. half[c] /\ half' = [half EXCEPT ![c] = FALSE] /\ CancelEvent(Of(c))
        /\ UNCHANGED <<cancelled, link, ready, report>> /\ (~raced' => ~raced)
    BY <1>10 DEF CallbackCancels
  <2>2. \A d \in Co : pc'[d] = pc[d] \/ (pc[d] = "held" /\ pc'[d] = "woken" /\ waiter[Of(c)] = d)
    BY <1>1, <2>1 DEF CancelEvent, Trigger, TypeOK, ContextInv, Contexts
  <2>3. None
    BY <2>1, <2>2 DEF DialInv
  <2>4. ASSUME ~raced', link' = "dialing" PROVE Dialing'
    <3>1. Dialing /\ c = Owner /\ cancelled[Owner]
      BY <2>1, <2>4 DEF DialInv, Dialing
    <3>2. \A d \in Caller : half'[d] = half[d] /\ pc'[d] = pc[d]
      <4>1. \A d \in Caller : half'[d] = half[d]
        BY <1>1, <2>1, <3>1 DEF TypeOK
      <4>2. \A d \in Caller : pc'[d] = pc[d]
        BY <2>2, <3>1 DEF Dialing, InCall
      <4> QED BY <4>1, <4>2
    <3>3. pc'[Owner] \notin {"closed", "dialed", "open"}
      BY <2>2, <3>1 DEF Dialing
    <3> QED BY <2>1, <3>1, <3>2, <3>3 DEF Dialing, InCall
  <2> QED BY <2>3, <2>4
<1>11. ASSUME Connect PROVE None /\ Dial
  <2>1. /\ pc' = [pc EXCEPT ![Owner] = "add"] /\ link' = "dialing" /\ ready' = {}
        /\ raced' = (raced \/ Outstanding) /\ UNCHANGED <<half, report>>
    BY <1>11 DEF Connect, Goes
  <2>2. pc'[Owner] = "add" /\ \A d \in Caller : pc'[d] = pc[d]
    BY <1>1, <2>1 DEF TypeOK
  <2>3. ~raced' => Dialing'
    BY <2>1, <2>2 DEF Outstanding, Dialing, InCall
  <2> QED BY <2>1, <2>3
<1>12. ASSUME Connected \/ NotConnected \/ Shut PROVE None /\ Dial
  <2>1. UNCHANGED <<link, raced>> /\ pc[Owner] \in {"dialed", "open"}
    BY <1>12 DEF Connected, NotConnected, Shut, Goes
  <2> QED BY <2>1 DEF DialInv, Dialing
<1>13. ASSUME CloseCancels PROVE None /\ Dial
  <2>1. UNCHANGED <<link, ready, half, cancelled, report, raced>> /\ pc[Owner] = "shut" /\ pc'[Owner] = "close"
        /\ \A d \in Caller : pc'[d] = pc[d] \/ (pc[d] = "held" /\ pc'[d] = "woken")
    BY <1>1, <1>13 DEF CloseCancels, ContextInv, Contexts, Events
  <2> QED BY <2>1 DEF DialInv, Dialing, InCall
<1>14. ASSUME Close PROVE None /\ Dial
  BY <1>1, <1>14 DEF Close, Goes, TypeOK
<1>15. ASSUME UNCHANGED vars PROVE None /\ Dial
  BY <1>15 DEF vars, DialInv, Dialing, InCall
<1> HIDE DEF None, Dial
<1>16. None /\ Dial
  BY <1>2, <1>3, <1>4, <1>5, <1>6, <1>7, <1>8, <1>9, <1>10, <1>11, <1>12, <1>13, <1>14, <1>15
  DEF Next, Idle, Proceed, Callback, Closing, Co, Caller
<1> QED BY <1>16 DEF None, Dial

(* connect() tells of a success only when the connection was established:   *)
(* on a socket in progress, whose SO_ERROR is 0 too, the owner is woken by  *)
(* its timeout alone, and then does not ask.                                *)
THEOREM ConnectTruthHolds == Spec => ConnectTruth
<1>1. DialInv /\ [Next]_vars =>
        [pc[Owner] = "dialed" /\ pc'[Owner] = "open" /\ ~raced => link = "up"]_vars
  <2> SUFFICES ASSUME DialInv, pc[Owner] = "dialed", ~raced, Next, pc'[Owner] = "open" PROVE link = "up"
    OBVIOUS
  <2>1. link # "none" /\ link # "dialing"
    BY DEF DialInv, Dialing
  <2>2. link # "down"
    <3> SUFFICES ASSUME link = "down" PROVE FALSE
      OBVIOUS
    <3> USE Roles DEF DialInv, ContextInv, TypeOK, Goes
    <3>1. ~Connected
      BY DEF Connected
    <3>2. ~Environment
      BY DEF Environment, Established, Refused, Arrives, Drains, HangsUp
    <3>3. ASSUME NEW w \in Worker, Idle(w) PROVE FALSE
      BY <3>3 DEF Idle, Fetch, Handle, Trigger
    <3>4. ASSUME NEW c \in Co, Proceed(c) \/ Expire(c) \/ CallbackSets(c) PROVE FALSE
      BY <3>4 DEF Proceed, Add, AddEvent, Resume, Try, Expire, CallbackSets
    <3>5. ASSUME NEW c \in Co, CallbackCancels(c) PROVE FALSE
      BY <3>5 DEF CallbackCancels, CancelEvent, Trigger
    <3>6. ASSUME NEW c \in Caller, Call(c) PROVE FALSE
      BY <3>6 DEF Call
    <3>7. ~Connect /\ ~NotConnected /\ ~Shut /\ ~Closing
      BY DEF Connect, NotConnected, Shut, Closing, CloseCancels, Close
    <3> QED BY <3>1, <3>2, <3>3, <3>4, <3>5, <3>6, <3>7 DEF Next, Callback
  <2> QED BY <2>1, <2>2 DEF DialInv
<1> QED BY <1>1, DialInit, DialStep, PTL DEF Spec, ConnectTruth
=============================================================================
