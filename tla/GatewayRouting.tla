--------------------------- MODULE GatewayRouting ---------------------------
(***************************************************************************)
(* The WebSocket connections of one user and the route presence keeps for  *)
(* him: interface/api/ws_gateway_module.cpp in every gateway process and   *)
(* interface/presence/presence_module.cpp, which keeps in Redis, with a    *)
(* time to live, the gateway a user is connected to.                       *)
(*                                                                         *)
(* A connection is one run of WSServer::handleClient; a client that comes  *)
(* back is another connection, the handler of the old one may still run.   *)
(* Presence handles every request in a coroutine of its own, so a request  *)
(* whose caller has given up may still be executed later, in any order.    *)
(* Events other than pings and pushes leave this state alone.              *)
(***************************************************************************)
EXTENDS Naturals, FiniteSets

CONSTANTS Gateway,    \* gateway processes
          Service,    \* a process without WebSocket connections that pushes
          Conn,       \* connections of the user
          Push,       \* calls of PushToUser for the user
          NoGateway,  \* no gateway: an empty route
          Failures,   \* do requests time out, calls fail and gateways crash?
          MaxLate     \* bound: equal requests executed after their timeout

ASSUME NoGatewayAssumption == NoGateway \notin Gateway \cup {Service} /\ Service \notin Gateway
ASSUME FailuresAssumption  == Failures \in BOOLEAN /\ MaxLate \in Nat

VARIABLES at,      \* the gateway of a connection
          linked,  \* connections whose client is still there
          pc,      \* what its handler does
          route,   \* Redis: presence:{uid}
          status,  \* MySQL: im_user.online_status
          late,    \* requests to presence given up by their callers
          push,    \* the calls of PushToUser
          stray,   \* deliveries given up by their callers
          got,     \* history: what the clients received
          faults   \* history: 1 after a call of a handler failed or a gateway crashed

vars == <<at, linked, pc, route, status, late, push, stray, got, faults>>
conns  == <<at, linked, pc>>
pushes == <<push, stray, got>>

(* SetOnline and Heartbeat with a gateway, SetOffline without one: all      *)
(* presence does is to store it.                                            *)
Request == Gateway \cup {NoGateway}

Calling    == {"online", "beat", "offline"}     \* waits for presence
Registered == {"online", "open", "beat", "status", "offline", "erase"}

Asked(c) == IF pc[c] = "offline" THEN NoGateway ELSE at[c]

(* Mutant: one session only. *)
FirstSession(g) == LET all == {c \in Conn : at[c] = g /\ pc[c] \in Registered}
                   IN IF all = {} THEN {} ELSE {CHOOSE c \in all : TRUE}

(* CollectSessions *)
Sessions(g) == {c \in Conn : at[c] = g /\ pc[c] \in Registered}

Init == /\ at = [c \in Conn |-> NoGateway]
        /\ linked = {}
        /\ pc = [c \in Conn |-> "new"]
        /\ route = NoGateway
        /\ status = "Y"     \* set by the login the clients got their tokens from
        /\ late = [r \in Request |-> 0]
        /\ push = [p \in Push |-> [pc |-> "new", from |-> NoGateway, via |-> NoGateway, stay |-> {}]]
        /\ stray = {}
        /\ got = {}
        /\ faults = 0

------------------------------------------------------------------------------
(* A connection *)

Goes(c, from, to) == pc[c] = from /\ pc' = [pc EXCEPT ![c] = to]

(* on_connect: registers the session and calls PresenceSetOnline. *)
Connect(c, g) == /\ Goes(c, "new", "online")
                 /\ at' = [at EXCEPT ![c] = g]
                 /\ linked' = linked \cup {c}
                 /\ UNCHANGED <<route, status, late, faults>> /\ UNCHANGED pushes

(* The calls of PushToUser in progress owe nothing to clients that leave. *)
Leave(cs) == push' = [p \in Push |-> [push[p] EXCEPT !.stay = @ \ cs]]

(* The client disconnects. *)
Drop(c) == /\ c \in linked /\ linked' = linked \ {c}
           /\ Leave({c})
           /\ UNCHANGED <<at, pc, route, status, late, stray, got, faults>>

(* on_message: a ping calls PresenceHeartbeat. *)
Ping(c) == /\ c \in linked /\ Goes(c, "open", "beat")
           /\ UNCHANGED <<at, linked, route, status, late, faults>> /\ UNCHANGED pushes

(* on_close begins with UserService::Offline... *)
Close(c) == /\ c \notin linked /\ Goes(c, "open", "status")
            /\ UNCHANGED <<at, linked, route, status, late, faults>> /\ UNCHANGED pushes

Offline(c) == /\ Goes(c, "status", "offline")
              /\ status' = "N"
              /\ UNCHANGED <<at, linked, route, late, faults>> /\ UNCHANGED pushes

(* ... whose failure is only logged ... *)
OfflineFails(c) == /\ Failures /\ faults' = 1
                   /\ Goes(c, "status", "offline")
                   /\ UNCHANGED <<at, linked, route, status, late>> /\ UNCHANGED pushes

(* ... goes on with PresenceSetOffline, and ends with the session table. *)
Erase(c) == /\ Goes(c, "erase", "closed")
            /\ UNCHANGED <<at, linked, route, status, late, faults>> /\ UNCHANGED pushes

(* The user logs in again. *)
Login == /\ status' = "Y" /\ \E c \in Conn : pc[c] = "new"
         /\ UNCHANGED <<route, late, faults>> /\ UNCHANGED conns /\ UNCHANGED pushes

------------------------------------------------------------------------------
(* Presence *)

After(k) == IF k = "offline" THEN "erase" ELSE "open"

(* Mutant: a heartbeat only prolongs the life of a route that is there. *)
ProlongOnly(c) == /\ pc[c] \in Calling /\ Goes(c, pc[c], After(pc[c]))
                  /\ route' = IF pc[c] = "beat" THEN route ELSE Asked(c)
                  /\ UNCHANGED <<at, linked, status, late, faults>> /\ UNCHANGED pushes

(* Mutant: SetOffline only if the gateway has no other session of the user. *)
OfflineIfLast(c) ==
    /\ pc[c] \in Calling /\ Goes(c, pc[c], After(pc[c]))
    /\ route' = IF pc[c] = "offline" /\ Sessions(at[c]) # {c} THEN route ELSE Asked(c)
    /\ UNCHANGED <<at, linked, status, late, faults>> /\ UNCHANGED pushes

(* RedisSetPresence or RedisDelPresence, and the answer. *)
Answered(c) == /\ pc[c] \in Calling /\ Goes(c, pc[c], After(pc[c]))
               /\ route' = Asked(c)
               /\ UNCHANGED <<at, linked, status, late, faults>> /\ UNCHANGED pushes

(* kPresenceTimeoutMs is over, or there is no connection to presence: the  *)
(* handler goes on; the request is lost or still on its way.               *)
TimedOut(c) == /\ Failures /\ faults' = 1
               /\ pc[c] \in Calling /\ Goes(c, pc[c], After(pc[c]))
               /\ \/ UNCHANGED late
                  \/ /\ late[Asked(c)] < MaxLate
                     /\ late' = [late EXCEPT ![Asked(c)] = @ + 1]
               /\ UNCHANGED <<at, linked, route, status>> /\ UNCHANGED pushes

ExecutedLate(r) == /\ late[r] > 0 /\ late' = [late EXCEPT ![r] = @ - 1]
                   /\ route' = r
                   /\ UNCHANGED <<status, faults>> /\ UNCHANGED conns /\ UNCHANGED pushes

(* Mutant: SET without EX. *)
ExpireNever == FALSE /\ UNCHANGED vars

(* The time to live is over.  A client that is there sends pings often     *)
(* enough, unless they fail.                                               *)
Expire == /\ route # NoGateway
          /\ Failures \/ Sessions(route) \cap linked = {}
          /\ route' = NoGateway
          /\ UNCHANGED <<status, late, faults>> /\ UNCHANGED conns /\ UNCHANGED pushes

------------------------------------------------------------------------------
(* PushToUser *)

Moves(p, from, new) == push[p].pc = from /\ push' = [push EXCEPT ![p] = new]

Receive(p, cs) == got' = got \cup {<<c, p>> : c \in cs \cap linked}

(* Sessions of this process are served directly. *)
Collect(p, s) ==
    LET here == IF s = Service THEN {} ELSE Sessions(s)
    IN /\ Moves(p, "new", [pc   |-> IF here = {} THEN "route" ELSE "done",
                           from |-> s,
                           via  |-> IF here = {} THEN NoGateway ELSE s,
                           stay |-> linked])
       /\ Receive(p, here)
       /\ UNCHANGED <<route, status, late, stray, faults>> /\ UNCHANGED conns

(* PresenceGetRoute: no route and the own gateway end the call. *)
GetRoute(p) == /\ \/ /\ route \notin {NoGateway, push[p].from}
                     /\ Moves(p, "route", [push[p] EXCEPT !.pc = "deliver", !.via = route])
                  \/ /\ route \in {NoGateway, push[p].from} \/ Failures
                     /\ Moves(p, "route", [push[p] EXCEPT !.pc = "done"])
               /\ UNCHANGED <<route, status, late, stray, got, faults>> /\ UNCHANGED conns

(* Command 101 at the target: PushToUserLocalOnly. *)
Deliver(p) == /\ Moves(p, "deliver", [push[p] EXCEPT !.pc = "done"])
              /\ Receive(p, Sessions(push[p].via))
              /\ UNCHANGED <<route, status, late, stray, faults>> /\ UNCHANGED conns

(* kDeliverTimeoutMs is over, or there is no connection to the target. *)
DeliverTimedOut(p) == /\ Failures
                      /\ Moves(p, "deliver", [push[p] EXCEPT !.pc = "done", !.via = NoGateway])
                      /\ stray' \in {stray, stray \cup {<<p, push[p].via>>}}
                      /\ UNCHANGED <<route, status, late, got, faults>> /\ UNCHANGED conns

DeliveredLate(p, g) == /\ <<p, g>> \in stray /\ stray' = stray \ {<<p, g>>}
                       /\ Receive(p, Sessions(g))
                       /\ UNCHANGED <<route, status, late, push, faults>> /\ UNCHANGED conns

------------------------------------------------------------------------------
(* A gateway process crashes: no handler runs to its end, and its calls    *)
(* are gone.                                                               *)
Crash(g) ==
    LET cs == Sessions(g)
    IN /\ Failures /\ cs # {} /\ faults' = 1
       /\ linked' = linked \ cs
       /\ pc' = [c \in Conn |-> IF c \in cs THEN "closed" ELSE pc[c]]
       /\ push' = [p \in Push |->
            [push[p] EXCEPT !.stay = @ \ cs,
                            !.pc = IF push[p].from = g /\ @ # "done" THEN "lost" ELSE @]]
       /\ stray' = {s \in stray : s[2] # g}
       /\ UNCHANGED <<at, route, status, late, got>>

Handle(c) == Close(c) \/ Offline(c) \/ OfflineFails(c) \/ Erase(c) \/ TimedOut(c)

Next == \/ \E c \in Conn : \/ \E g \in Gateway : Connect(c, g)
                           \/ Drop(c) \/ Ping(c) \/ Handle(c) \/ Answered(c)
        \/ \E r \in Request : ExecutedLate(r)
        \/ \E p \in Push : \/ \E s \in Gateway \cup {Service} : Collect(p, s)
                           \/ GetRoute(p) \/ Deliver(p) \/ DeliverTimedOut(p)
                           \/ \E g \in Gateway : DeliveredLate(p, g)
        \/ \E g \in Gateway : Crash(g)
        \/ Login \/ Expire

Spec == Init /\ [][Next]_vars

(* Handlers run, clients ping, presence answers a caller now and then, a   *)
(* request on its way arrives, and Redis expires keys.                     *)
FairSpec == /\ Spec
            /\ \A c \in Conn : WF_vars(Handle(c)) /\ WF_vars(Ping(c)) /\ SF_vars(Answered(c))
            /\ \A r \in Request : WF_vars(ExecutedLate(r))
            /\ WF_vars(Expire)

------------------------------------------------------------------------------
(* Properties *)

Call == [pc : {"new", "route", "deliver", "done", "lost"}, from : Gateway \cup {Service, NoGateway},
         via : Gateway \cup {NoGateway}, stay : SUBSET Conn]

(* Every variable keeps its type; a delivery has a target gateway.         *)
TypeOK == /\ at \in [Conn -> Gateway \cup {NoGateway}]
          /\ linked \subseteq Conn
          /\ pc \in [Conn -> Registered \cup {"new", "closed"}]
          /\ route \in Request
          /\ status \in {"Y", "N"}
          /\ late \in [Request -> 0..MaxLate]
          /\ push \in [Push -> Call]
          /\ \A p \in Push : push[p].pc = "deliver" => push[p].via # NoGateway
          /\ \A c \in linked : pc[c] \in {"online", "open", "beat"}
          /\ \A c \in Conn : at[c] = NoGateway <=> pc[c] = "new"
          /\ stray \subseteq Push \X Gateway
          /\ got \subseteq Conn \X Push
          /\ faults \in {0, 1}

(* A push that ends at a gateway has reached every client of the user that *)
(* was connected there from its beginning to its end: CollectSessions,     *)
(* whoever connects or disconnects meanwhile.                              *)
GatewayGets == \A p \in Push : push[p].pc = "done" =>
    \A c \in push[p].stay : at[c] = push[p].via => <<c, p>> \in got

(* When all handlers of a user have ended his route is gone, and when no   *)
(* client of his comes any more his status is N: no order of logins,       *)
(* heartbeats and closings leaves anything behind, unless a call failed or *)
(* a gateway crashed (the route is then removed by its time to live, see   *)
(* RouteForgotten).                                                        *)
NothingLeft == faults = 0 =>
    /\ (\A c \in Conn : pc[c] \in {"new", "closed"}) => route = NoGateway
    /\ (\A c \in Conn : pc[c] = "closed") => status = "N"

(* Heartbeats repair the route: when from some time on one gateway has all *)
(* connections of a user, one of them alive, its route comes back again    *)
(* and again and no other gateway's does.                                  *)
RouteHeals == \A g \in Gateway :
    <>[]( /\ \E c \in linked : at[c] = g
          /\ \A c \in Conn : pc[c] \in Registered => at[c] = g )
    => []<>(route = g) /\ <>[](route \in {g, NoGateway})

(* The route of a user who stays away is forgotten, whatever requests were *)
(* lost or late and whatever gateways crashed.                             *)
RouteForgotten == <>[](linked = {}) => <>[](route = NoGateway)
==============================================================================
