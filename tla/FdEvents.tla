------------------------------ MODULE FdEvents ------------------------------
(***************************************************************************)
(* Waiting for a socket: the fd events of IOManager (core/io/iomanager.cpp), *)
(* the hooked system calls that wait for them with a timeout (do_io,        *)
(* connect_with_timeout and close in core/net/core/hook.cpp) and the table  *)
(* of descriptors (core/net/core/fd_manager.cpp).                           *)
(*                                                                          *)
(* One descriptor number is followed through the sockets that use it in     *)
(* turn. An owner opens a socket, connects and closes it; readers and       *)
(* writers call on the number meanwhile. Idle workers fetch reports from    *)
(* an edge-triggered epoll and handle them later, under the lock of the     *)
(* fd context. The kernel side (epoll_ctl, epoll_wait, readiness) is        *)
(* modelled from how the code uses it.                                      *)
(***************************************************************************)
EXTENDS FiniteSets, Naturals

CONSTANTS Worker,   \* threads in IOManager::idle
          Reader,   \* coroutines that read from the descriptor
          Writer,   \* coroutines that write to it
          Owner,    \* the coroutine that opens, connects and closes it
          Timed,    \* the coroutines whose calls have a timeout
          Nobody    \* no coroutine

ASSUME RolesAssumption ==
  /\ Owner \notin Reader \cup Writer /\ Reader \cap Writer = {}
  /\ Nobody \notin Reader \cup Writer \cup {Owner}
  /\ Timed \subseteq Reader \cup Writer \cup {Owner}

VARIABLES pc,        \* where a coroutine is in its call
          timer,     \* is the timer of its wait in the TimerManager?
          due,       \* has the callback of a timer of its call been scheduled?
          cancelled, \* timer_info::cancelled of its call
          half,      \* has a callback of its calls set cancelled, and not cancelled yet?
          waiter,    \* fd_ctx: the coroutine in the context of an event
          open,      \* does the number name a socket, and has FdMgr its FdCtx?
          link,      \* kernel: its connection
          ready,     \* kernel: events that would not block
          interest,  \* kernel: events epoll watches
          listed,    \* kernel: is the socket on epoll's ready list?
          report,    \* the report a worker holds
          aborted,   \* has the process failed an assertion?
          raced      \* history: has one of the races happened that lose a wait?

calls  == <<timer, due, cancelled, half>>
kernel == <<open, link, ready>>
epoll  == <<interest, listed>>
vars   == <<pc, calls, waiter, kernel, epoll, report, aborted, raced>>

Event == {"READ", "WRITE"}
Caller == Reader \cup Writer
Co == Caller \cup {Owner}
Of(c) == IF c \in Reader THEN "READ" ELSE "WRITE"

NoReport == [events |-> {}, hup |-> FALSE]

(* fd_ctx->events *)
Events == {e \in Event : waiter[e] # Nobody}

Init == /\ pc = [c \in Co |-> IF c = Owner THEN "closed" ELSE "out"]
        /\ timer = [c \in Co |-> FALSE] /\ due = timer
        /\ cancelled = timer /\ half = timer
        /\ waiter = [e \in Event |-> Nobody]
        /\ open = FALSE /\ link = "none" /\ ready = {}
        /\ interest = {} /\ listed = FALSE
        /\ report = [w \in Worker |-> NoReport]
        /\ aborted = FALSE /\ raced = FALSE

Goes(c, from, to) == pc[c] = from /\ pc' = [pc EXCEPT ![c] = to]

------------------------------------------------------------------------------
(* The kernel *)

(* EPOLLHUP and EPOLLERR are reported whatever is watched. *)
Hup == link = "down"

Reportable(watched) == watched # {} /\ (watched \cap ready # {} \/ Hup)

(* EPOLL_CTL_ADD, MOD and DEL: edge triggering starts anew. *)
Watch(events) == /\ interest' = events
                 /\ listed' = Reportable(events)

(* Something happens on the socket that makes events ready. *)
Happens(events, to) ==
  /\ open /\ link' = to /\ ready' = ready \cup events
  /\ listed' = (listed \/ (interest # {} /\ (events \cap interest # {} \/ to = "down")))
  /\ UNCHANGED <<pc, calls, waiter, open, interest, report, aborted, raced>>

Established == link = "dialing" /\ Happens({"WRITE"}, "up")
Refused == link = "dialing" /\ Happens(Event, "down")
Arrives == link = "up" /\ Happens({"READ"}, "up")
Drains == link = "up" /\ "WRITE" \notin ready /\ Happens({"WRITE"}, "up")
HangsUp == link = "up" /\ Happens(Event, "down")

Environment == Established \/ Refused \/ Arrives \/ Drains \/ HangsUp

------------------------------------------------------------------------------
(* IOManager *)

(* triggerEvent for each of the events, in the lock of the fd context: the  *)
(* coroutines in their contexts are scheduled, an event that is not         *)
(* registered fails the assertion of triggerEvent.                          *)
Trigger(events) ==
  /\ aborted' = (events \cap Events # events)
  /\ pc' = [c \in Co |-> IF \E e \in events : waiter[e] = c THEN "woken" ELSE pc[c]]
  /\ waiter' = [e \in Event |-> IF e \in events THEN Nobody ELSE waiter[e]]

(* epoll_wait *)
Fetch(w) == /\ listed /\ report[w] = NoReport
            /\ listed' = FALSE
            /\ report' = [report EXCEPT ![w] = IF Reportable(interest)
                            THEN [events |-> ready \cap interest, hup |-> Hup]
                            ELSE NoReport]
            /\ UNCHANGED <<pc, calls, waiter, kernel, interest, aborted, raced>>

(* Mutant: the events that are left are not watched again. *)
HandleOnce(w) ==
  LET r == report[w]
      real == r.events \cup (IF r.hup THEN Events ELSE {})
  IN /\ r # NoReport
     /\ report' = [report EXCEPT ![w] = NoReport]
     /\ IF Events \cap real = {} \/ interest = {}
        THEN UNCHANGED <<pc, waiter, epoll, aborted>>
        ELSE /\ Watch({})
             /\ Trigger(real)
     /\ UNCHANGED <<calls, kernel, raced>>

(* The part of idle() that handles a report: real_events and left_events;   *)
(* an epoll_ctl on a socket epoll does not watch fails.                     *)
Handle(w) ==
  LET r == report[w]
      real == r.events \cup (IF r.hup THEN Events ELSE {})
  IN /\ r # NoReport
     /\ report' = [report EXCEPT ![w] = NoReport]
     /\ IF Events \cap real = {} \/ interest = {}
        THEN UNCHANGED <<pc, waiter, epoll, aborted>>
        ELSE /\ Watch(Events \ real)
             /\ Trigger(real)
     /\ UNCHANGED <<calls, kernel, raced>>

(* addEvent; an event that is registered already is left as it is.          *)
AddEvent(c) ==
  IF Of(c) \in Events
  THEN /\ Goes(c, "add", "held")
       /\ raced' = TRUE
       /\ UNCHANGED <<timer, waiter, epoll>>
  ELSE IF open /\ (Events = {} <=> interest = {})
  THEN /\ Goes(c, "add", "held")
       /\ waiter' = [waiter EXCEPT ![Of(c)] = c]
       /\ Watch(Events \cup {Of(c)})
       /\ raced' = (raced \/ pc[Owner] = "close")
       /\ UNCHANGED timer
  ELSE (* epoll_ctl fails *)
       /\ Goes(c, "add", IF c = Owner THEN "dialed" ELSE "out")
       /\ timer' = [timer EXCEPT ![c] = FALSE]
       /\ UNCHANGED <<waiter, epoll, raced>>

(* Mutant: delEvent in the place of cancelEvent. *)
DelEvent(e) ==
  /\ IF e \in Events /\ interest # {}
     THEN Watch(Events \ {e}) /\ waiter' = [waiter EXCEPT ![e] = Nobody]
     ELSE UNCHANGED <<waiter, epoll>>
  /\ UNCHANGED <<pc, aborted>>

(* cancelEvent *)
CancelEvent(e) ==
  IF e \in Events /\ interest # {}
  THEN Watch(Events \ {e}) /\ Trigger({e})
  ELSE UNCHANGED <<pc, waiter, epoll, aborted>>

------------------------------------------------------------------------------
(* do_io: a call of a reader or a writer *)

InCall(c) == pc[c] \in {"try", "add", "held", "woken"}

(* Socket::recv and send refuse a socket that is not connected. A call has  *)
(* a new timer_info; callbacks of earlier calls find theirs gone.           *)
Call(c) == /\ pc[Owner] = "open" /\ Goes(c, "out", "try")
           /\ due' = [due EXCEPT ![c] = FALSE]
           /\ cancelled' = [cancelled EXCEPT ![c] = FALSE]
           /\ UNCHANGED <<timer, half, waiter, kernel, epoll, report, aborted, raced>>

(* addConditionTimer *)
Arm(c) == timer' = [timer EXCEPT ![c] = c \in Timed]

(* The system call: it fails on a closed descriptor, takes or leaves what   *)
(* is ready, or would block.                                                *)
Try(c) ==
  /\ IF open /\ Of(c) \notin ready
     THEN Goes(c, "try", "add") /\ Arm(c) /\ UNCHANGED ready
     ELSE /\ Goes(c, "try", "out") /\ UNCHANGED timer
          /\ ready' \in IF open /\ ~Hup THEN {ready, ready \ {Of(c)}} ELSE {ready}
  /\ UNCHANGED <<due, cancelled, half, waiter, open, link, epoll, report, aborted, raced>>

Add(c) == /\ AddEvent(c)
          /\ UNCHANGED <<due, cancelled, half, kernel, report, aborted>>

(* The coroutine runs again: timer->cancel(), then the outcome. *)
Resume(c) == /\ IF cancelled[c] THEN Goes(c, "woken", IF c = Owner THEN "shut" ELSE "out")
                                ELSE Goes(c, "woken", IF c = Owner THEN "dialed" ELSE "try")
             /\ timer' = [timer EXCEPT ![c] = FALSE]
             /\ UNCHANGED <<due, cancelled, half, waiter, kernel, epoll, report, aborted, raced>>

(* listExpiredCb takes the timer out and schedules its callback. *)
Expire(c) == /\ timer[c] /\ timer' = [timer EXCEPT ![c] = FALSE]
             /\ due' = [due EXCEPT ![c] = TRUE]
             /\ UNCHANGED <<pc, cancelled, half, waiter, kernel, epoll, report, aborted, raced>>

(* The callback: OnTimer finds the timer_info as long as the call lasts.    *)
(* Bound: one callback of a coroutine at a time is between its two steps.   *)
CallbackSets(c) ==
  /\ due[c] /\ due' = [due EXCEPT ![c] = FALSE]
  /\ IF InCall(c) /\ ~cancelled[c]
     THEN /\ ~half[c] /\ half' = [half EXCEPT ![c] = TRUE]
          /\ cancelled' = [cancelled EXCEPT ![c] = TRUE]
     ELSE UNCHANGED <<cancelled, half>>
  /\ UNCHANGED <<pc, timer, waiter, kernel, epoll, report, aborted, raced>>

(* Mutant: the callback only notes that the time is over. *)
CallbackOnlyNotes(c) ==
  /\ half[c] /\ half' = [half EXCEPT ![c] = FALSE]
  /\ UNCHANGED <<pc, timer, due, cancelled, waiter, kernel, epoll, report, aborted, raced>>

CallbackCancels(c) ==
  /\ half[c] /\ half' = [half EXCEPT ![c] = FALSE]
  /\ CancelEvent(Of(c))
  /\ raced' = (raced \/ (cancelled[c] /\ pc[c] \in {"try", "add"}))
  /\ UNCHANGED <<timer, due, cancelled, kernel, report>>

------------------------------------------------------------------------------
(* The owner *)

(* Something of an earlier socket with the number is still under way. *)
Outstanding == \/ Events # {} \/ \E w \in Worker : report[w] # NoReport
               \/ \E c \in Co : half[c] \/ InCall(c)

(* socket() and connect_f, which does not finish at once *)
Connect == /\ Goes(Owner, "closed", "add") /\ Arm(Owner)
           /\ open' = TRUE /\ link' = "dialing" /\ ready' = {}
           /\ due' = [due EXCEPT ![Owner] = FALSE]
           /\ cancelled' = [cancelled EXCEPT ![Owner] = FALSE]
           /\ raced' = (raced \/ Outstanding)
           /\ UNCHANGED <<half, waiter, epoll, report, aborted>>

(* Mutant: whoever is woken without a timeout is connected. *)
ConnectedAnyway == /\ Goes(Owner, "dialed", "open")
                   /\ UNCHANGED <<calls, waiter, kernel, epoll, report, aborted, raced>>

(* connect_with_timeout asks SO_ERROR, which is 0 on a socket in progress. *)
Connected == /\ link # "down" /\ Goes(Owner, "dialed", "open")
             /\ UNCHANGED <<calls, waiter, kernel, epoll, report, aborted, raced>>

NotConnected == /\ link = "down" /\ Goes(Owner, "dialed", "shut")
                /\ UNCHANGED <<calls, waiter, kernel, epoll, report, aborted, raced>>

(* Socket::close *)
Shut == /\ Goes(Owner, "open", "shut")
        /\ UNCHANGED <<calls, waiter, kernel, epoll, report, aborted, raced>>

(* close: cancelAll, the trigger of all events of the descriptor ...       *)
CloseCancels == /\ pc[Owner] = "shut"
                /\ LET woken == IF interest # {} THEN {waiter[e] : e \in Events} ELSE {}
                   IN pc' = [c \in Co |-> IF c = Owner THEN "close"
                                          ELSE IF c \in woken THEN "woken" ELSE pc[c]]
                /\ IF Events # {} /\ interest # {}
                   THEN Watch({}) /\ waiter' = [e \in Event |-> Nobody]
                   ELSE UNCHANGED <<waiter, epoll>>
                /\ UNCHANGED <<calls, kernel, report, aborted, raced>>

(* ... then FdMgr::del and close_f: epoll drops the socket by itself. *)
Close == /\ Goes(Owner, "close", "closed")
         /\ open' = FALSE /\ link' = "none" /\ ready' = {}
         /\ interest' = {} /\ listed' = FALSE
         /\ UNCHANGED <<calls, waiter, report, aborted, raced>>

------------------------------------------------------------------------------
Proceed(c) == Add(c) \/ Resume(c) \/ (c # Owner /\ Try(c))
Callback(c) == CallbackSets(c) \/ CallbackCancels(c)
Closing == CloseCancels \/ Close
Idle(w) == Fetch(w) \/ Handle(w)

Next == /\ ~aborted
        /\ \/ Environment
           \/ \E w \in Worker : Idle(w)
           \/ \E c \in Caller : Call(c)
           \/ \E c \in Co : Proceed(c) \/ Expire(c) \/ Callback(c)
           \/ Connect \/ Connected \/ NotConnected \/ Shut \/ Closing

Spec == Init /\ [][Next]_vars

------------------------------------------------------------------------------
(* Every variable keeps its type.                                           *)
TypeOK ==
  /\ pc \in [Co -> {"out", "try", "add", "held", "woken",
                    "closed", "dialed", "open", "shut", "close"}]
  /\ timer \in [Co -> BOOLEAN] /\ due \in [Co -> BOOLEAN]
  /\ cancelled \in [Co -> BOOLEAN] /\ half \in [Co -> BOOLEAN]
  /\ waiter \in [Event -> Co \cup {Nobody}]
  /\ open \in BOOLEAN /\ listed \in BOOLEAN /\ aborted \in BOOLEAN /\ raced \in BOOLEAN
  /\ link \in {"none", "dialing", "up", "down"}
  /\ ready \subseteq Event /\ interest \subseteq Event
  /\ report \in [Worker -> [events : SUBSET Event, hup : BOOLEAN]]

(* A coroutine that has yielded in do_io is in the context of its event,    *)
(* which epoll watches, unless a wait was lost to one of the known races.   *)
WaiterIsKnown ==
  \A c \in Co : pc[c] = "held" /\ ~raced => waiter[Of(c)] = c /\ Of(c) \in interest

(* Edge triggering reports a change once: whenever a coroutine waits for    *)
(* what is ready already, the socket is on epoll's list or a worker holds   *)
(* a report of it.                                                          *)
EdgeInFlight ==
  \A e \in Events : (e \in ready \/ Hup) /\ ~raced =>
    listed \/ \E w \in Worker : e \in report[w].events \/ report[w].hup

(* connect() returns 0 only for a connection that was established: a        *)
(* refusal or a timeout is never taken for success (connect_with_timeout).  *)
ConnectTruth == [][pc[Owner] = "dialed" /\ pc'[Owner] = "open" /\ ~raced => link = "up"]_vars

(* A wait with a timeout has its timer, or the callback is on its way.      *)
TimeoutIsArmed ==
  \A c \in Timed : pc[c] = "held" /\ ~raced =>
    timer[c] \/ (IF cancelled[c] THEN half[c] ELSE due[c])

(* Violated, because a second worker may hold a report that is older than  *)
(* the last trigger: "make sure that the event that is passed is one of the *)
(* events registered now" (iomanager.cpp:493).                              *)
TriggerAsserts == aborted => raced
=============================================================================
