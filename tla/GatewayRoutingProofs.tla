------------------------ MODULE GatewayRoutingProofs ------------------------
(***************************************************************************)
(* Proofs about GatewayRouting for any number of gateways, connections and *)
(* pushes.                                                                 *)
(***************************************************************************)
EXTENDS GatewayRouting, TLAPS

USE DEF Registered, Calling

------------------------------------------------------------------------------
(* Types *)

(* Every action keeps the types, because a delivery has a target only      *)
(* after an empty route was ruled out (GetRoute).                          *)
LEMMA ReceiveType ==
    ASSUME TypeOK, NEW p \in Push, NEW cs, Receive(p, cs)
    PROVE  got' \subseteq Conn \X Push
BY DEF TypeOK, Receive

LEMMA TypeStep == TypeOK /\ [Next]_vars => TypeOK'
<1> SUFFICES ASSUME TypeOK, [Next]_vars PROVE TypeOK'
  OBVIOUS
<1> USE NoGatewayAssumption, FailuresAssumption DEF TypeOK, Request
<1>1. ASSUME NEW c \in Conn, NEW g \in Gateway, Connect(c, g) PROVE TypeOK'
  BY <1>1 DEF Connect, Goes, pushes
<1>2. ASSUME NEW c \in Conn, Drop(c) PROVE TypeOK'
  <2>1. linked' = linked \ {c} /\ UNCHANGED <<at, pc, route, status, late, stray, got, faults>>
    BY <1>2 DEF Drop
  <2>2. push' = [p \in Push |-> [push[p] EXCEPT !.stay = @ \ {c}]]
    BY <1>2 DEF Drop, Leave
  <2>3. \A p \in Push : push[p] \in Call => [push[p] EXCEPT !.stay = @ \ {c}] \in Call
    BY DEF Call
  <2>4. \A p \in Push : push'[p].pc = push[p].pc /\ push'[p].via = push[p].via
    BY <2>2 DEF Call
  <2> QED BY <2>1, <2>2, <2>3, <2>4
<1>3. ASSUME NEW c \in Conn, Ping(c) PROVE TypeOK'
  BY <1>3 DEF Ping, Goes, pushes
<1>4. ASSUME NEW c \in Conn, Close(c) PROVE TypeOK'
  BY <1>4 DEF Close, Goes, pushes
<1>5. ASSUME NEW c \in Conn, Offline(c) \/ OfflineFails(c) PROVE TypeOK'
  BY <1>5 DEF Offline, OfflineFails, Goes, pushes
<1>6. ASSUME NEW c \in Conn, Erase(c) PROVE TypeOK'
  BY <1>6 DEF Erase, Goes, pushes
<1>7. ASSUME NEW c \in Conn, Answered(c) PROVE TypeOK'
  BY <1>7 DEF Answered, Goes, After, Asked, pushes
<1>8. ASSUME NEW c \in Conn, TimedOut(c) PROVE TypeOK'
  BY <1>8 DEF TimedOut, Goes, After, Asked, pushes
<1>9. ASSUME NEW r \in Request, ExecutedLate(r) PROVE TypeOK'
  BY <1>9 DEF ExecutedLate, conns, pushes
<1>10. ASSUME NEW p \in Push, NEW s \in Gateway \cup {Service}, Collect(p, s) PROVE TypeOK'
  <2> DEFINE here == IF s = Service THEN {} ELSE Sessions(s)
             new  == [pc   |-> IF here = {} THEN "route" ELSE "done", from |-> s,
                      via  |-> IF here = {} THEN NoGateway ELSE s, stay |-> linked]
  <2>1. push' = [push EXCEPT ![p] = new] /\ Receive(p, here)
    BY <1>10 DEF Collect, Moves
  <2>2. here # {} => s \in Gateway
    OBVIOUS
  <2>3. new \in Call /\ new.pc # "deliver"
    <3> HIDE DEF here
    <3> QED BY <2>2 DEF Call
  <2>4. got' \subseteq Conn \X Push
    BY <2>1, ReceiveType
  <2>5. UNCHANGED <<at, linked, pc, route, status, late, stray, faults>>
    BY <1>10 DEF Collect, conns
  <2> HIDE DEF new, here
  <2>6. push' \in [Push -> Call] /\ \A q \in Push : push'[q].pc = "deliver" => push'[q].via # NoGateway
    BY <2>1, <2>3
  <2> QED BY <2>4, <2>5, <2>6
<1>11. ASSUME NEW p \in Push, GetRoute(p) PROVE TypeOK'
  <2>1. UNCHANGED <<at, linked, pc, route, status, late, stray, got, faults>>
    BY <1>11 DEF GetRoute, conns
  <2>2. PICK new : push' = [push EXCEPT ![p] = new] /\ new \in Call
                   /\ (new.pc = "deliver" => new.via # NoGateway)
    <3>1. push[p] \in Call
      OBVIOUS
    <3>2. CASE route \notin {NoGateway, push[p].from}
               /\ Moves(p, "route", [push[p] EXCEPT !.pc = "deliver", !.via = route])
      <4>1. [push[p] EXCEPT !.pc = "deliver", !.via = route] \in Call
        BY <3>1, <3>2 DEF Call
      <4>2. push' = [push EXCEPT ![p] = [push[p] EXCEPT !.pc = "deliver", !.via = route]]
        BY <3>2 DEF Moves
      <4>3. [push[p] EXCEPT !.pc = "deliver", !.via = route].via # NoGateway
        BY <3>1, <3>2 DEF Call
      <4> QED BY <4>1, <4>2, <4>3, Zenon
    <3>3. CASE Moves(p, "route", [push[p] EXCEPT !.pc = "done"])
      <4>1. [push[p] EXCEPT !.pc = "done"] \in Call /\ [push[p] EXCEPT !.pc = "done"].pc # "deliver"
        BY <3>1 DEF Call
      <4>2. push' = [push EXCEPT ![p] = [push[p] EXCEPT !.pc = "done"]]
        BY <3>3 DEF Moves
      <4> QED BY <4>1, <4>2, Zenon
    <3> QED BY <1>11, <3>2, <3>3 DEF GetRoute
  <2>3. push' \in [Push -> Call] /\ \A q \in Push : push'[q].pc = "deliver" => push'[q].via # NoGateway
    BY <2>2
  <2> QED BY <2>1, <2>3
<1>12. ASSUME NEW p \in Push, Deliver(p) PROVE TypeOK'
  <2>1. got' \subseteq Conn \X Push
    BY <1>12, ReceiveType DEF Deliver
  <2>2. push' = [push EXCEPT ![p] = [push[p] EXCEPT !.pc = "done"]]
    BY <1>12 DEF Deliver, Moves
  <2>3. UNCHANGED <<at, linked, pc, route, status, late, stray, faults>>
    BY <1>12 DEF Deliver, conns
  <2>4. push' \in [Push -> Call] /\ \A q \in Push : push'[q].pc = "deliver" => push'[q].via # NoGateway
    BY <2>2 DEF Call
  <2> QED BY <2>1, <2>3, <2>4
<1>13. ASSUME NEW p \in Push, DeliverTimedOut(p) PROVE TypeOK'
  <2>1. UNCHANGED <<at, linked, pc, route, status, late, got, faults>>
    BY <1>13 DEF DeliverTimedOut, conns
  <2>2. push' = [push EXCEPT ![p] = [push[p] EXCEPT !.pc = "done", !.via = NoGateway]]
    BY <1>13 DEF DeliverTimedOut, Moves
  <2>3. push' \in [Push -> Call] /\ \A q \in Push : push'[q].pc = "deliver" => push'[q].via # NoGateway
    <3> DEFINE ended == [push[p] EXCEPT !.pc = "done", !.via = NoGateway]
    <3>1. push[p] \in Call
      OBVIOUS
    <3>2. ended \in Call /\ ended.pc = "done"
      BY <3>1 DEF Call
    <3> HIDE DEF ended
    <3>3. push' = [push EXCEPT ![p] = ended]
      BY <2>2 DEF ended
    <3> QED BY <3>2, <3>3
  <2>4. stray' \subseteq Push \X Gateway
    <3>1. push[p].pc = "deliver" /\ push[p] \in Call
      BY <1>13 DEF DeliverTimedOut, Moves
    <3>2. push[p].via \in Gateway
      BY <3>1 DEF Call
    <3> QED BY <1>13, <3>2 DEF DeliverTimedOut
  <2> QED BY <2>1, <2>3, <2>4
<1>14. ASSUME NEW p \in Push, NEW g \in Gateway, DeliveredLate(p, g) PROVE TypeOK'
  BY <1>14 DEF DeliveredLate, Receive, Sessions, conns
<1>15. ASSUME NEW g \in Gateway, Crash(g) PROVE TypeOK'
  <2> DEFINE cs == Sessions(g)
             Lost(p) == [push[p] EXCEPT !.stay = @ \ cs,
                                        !.pc = IF push[p].from = g /\ @ # "done" THEN "lost" ELSE @]
  <2>1. /\ faults' = 1 /\ linked' = linked \ cs /\ stray' \subseteq stray
        /\ pc' = [c \in Conn |-> IF c \in cs THEN "closed" ELSE pc[c]]
        /\ push' = [p \in Push |-> Lost(p)] /\ UNCHANGED <<at, route, status, late, got>>
    BY <1>15 DEF Crash
  <2>2. \A c \in cs : c \in Conn /\ at[c] = g /\ pc[c] # "new"
    BY DEF Sessions
  <2>3. ASSUME NEW p \in Push
        PROVE  Lost(p) \in Call /\ Lost(p).via = push[p].via /\ Lost(p).pc \in {push[p].pc, "lost"}
    <3>1. push[p] \in Call
      OBVIOUS
    <3> QED BY <3>1 DEF Call
  <2> HIDE DEF cs, Lost
  <2>4. push' \in [Push -> Call] /\ \A p \in Push : push'[p].pc = "deliver" => push'[p].via # NoGateway
    BY <2>1, <2>3
  <2>5. /\ pc' \in [Conn -> Registered \cup {"new", "closed"}]
        /\ \A c \in Conn : at[c] = NoGateway <=> pc'[c] = "new"
        /\ \A c \in linked' : pc'[c] \in {"online", "open", "beat"}
    BY <2>1, <2>2
  <2> QED BY <2>1, <2>4, <2>5
<1>16. ASSUME Login \/ Expire PROVE TypeOK'
  BY <1>16 DEF Login, Expire, conns, pushes
<1>17. ASSUME UNCHANGED vars PROVE TypeOK'
  BY <1>17 DEF vars
<1> QED
  BY <1>1, <1>2, <1>3, <1>4, <1>5, <1>6, <1>7, <1>8, <1>9, <1>10, <1>11, <1>12, <1>13,
     <1>14, <1>15, <1>16, <1>17 DEF Next, Handle

LEMMA TypeInit == Init => TypeOK
BY NoGatewayAssumption, FailuresAssumption DEF Init, TypeOK, Request, Call

(* TypeOK is inductive as it stands. *)
THEOREM TypeCorrect == Spec => []TypeOK
BY TypeInit, TypeStep, PTL DEF Spec

------------------------------------------------------------------------------
(* What a push that ends at a gateway has reached *)

(* GatewayGets holds because a call owes something only to clients that    *)
(* are still linked, whose sessions therefore are in the table the target  *)
(* reads; a call without a target owes nothing.                            *)
Owed == /\ TypeOK
        /\ \A p \in Push : push[p].stay \subseteq linked
        /\ \A p \in Push : push[p].pc \in {"new", "route"} => push[p].via = NoGateway
        /\ GatewayGets

(* A linked client is in the session table of its gateway. *)
LEMMA LinkedInTable ==
    ASSUME TypeOK, NEW c \in linked
    PROVE  c \in Conn /\ at[c] \in Gateway /\ c \in Sessions(at[c])
BY DEF TypeOK, Sessions, Registered

LEMMA OwedKept ==
    ASSUME Owed, TypeOK', UNCHANGED <<at, push, got>>, linked \subseteq linked'
    PROVE  Owed'
BY DEF Owed, GatewayGets

(* A call that changes from old to new, with what its clients received. *)
LEMMA OwedByOne ==
    ASSUME Owed, TypeOK', NEW p \in Push, NEW new, push' = [push EXCEPT ![p] = new],
           UNCHANGED <<at, linked>>, got \subseteq got', new.stay \subseteq linked,
           new.pc \in {"new", "route"} => new.via = NoGateway,
           new.pc = "done" => \A c \in new.stay : at[c] = new.via => <<c, p>> \in got'
    PROVE  Owed'
<1>1. push'[p] = new /\ \A q \in Push : q # p => push'[q] = push[q]
  BY DEF Owed, TypeOK
<1>2. \A q \in Push : push'[q].stay \subseteq linked'
  BY <1>1 DEF Owed
<1>3. \A q \in Push : push'[q].pc \in {"new", "route"} => push'[q].via = NoGateway
  BY <1>1 DEF Owed
<1>4. GatewayGets'
  BY <1>1 DEF Owed, GatewayGets
<1> QED BY <1>2, <1>3, <1>4 DEF Owed

LEMMA OwedInit == Init => Owed
BY TypeInit DEF Init, Owed, GatewayGets

LEMMA OwedStep == Owed /\ [Next]_vars => Owed'
<1> SUFFICES ASSUME Owed, [Next]_vars PROVE Owed'
  OBVIOUS
<1>0. TypeOK /\ TypeOK'
  BY TypeStep DEF Owed
<1>1. ASSUME NEW c \in Conn, NEW g \in Gateway, Connect(c, g) PROVE Owed'
  <2>1. c \notin linked /\ \A p \in Push : c \notin push[p].stay
    BY <1>0, <1>1 DEF Owed, TypeOK, Connect, Goes
  <2>2. \A b \in Conn : b # c => at'[b] = at[b]
    BY <1>0, <1>1 DEF TypeOK, Connect
  <2>3. UNCHANGED <<push, got>> /\ linked \subseteq linked'
    BY <1>1 DEF Connect, pushes
  <2>4. \A p \in Push : push[p].stay \subseteq Conn
    BY <1>0 DEF TypeOK, Owed
  <2>5. GatewayGets'
    BY <2>1, <2>2, <2>3, <2>4 DEF Owed, GatewayGets
  <2> QED BY <1>0, <2>3, <2>5 DEF Owed
<1>2. ASSUME NEW c \in Conn, Drop(c) PROVE Owed'
  <2>1. UNCHANGED <<at, got>> /\ linked' = linked \ {c}
    BY <1>2 DEF Drop
  <2>2. \A p \in Push : push'[p] = [push[p] EXCEPT !.stay = @ \ {c}]
    BY <1>2 DEF Drop, Leave
  <2>3. \A p \in Push : /\ push'[p].stay = push[p].stay \ {c}
                        /\ push'[p].pc = push[p].pc /\ push'[p].via = push[p].via
    BY <1>0, <2>2 DEF TypeOK, Call
  <2> QED BY <1>0, <2>1, <2>3 DEF Owed, GatewayGets
<1>3. ASSUME NEW c \in Conn, Ping(c) \/ Handle(c) \/ Answered(c) PROVE Owed'
  BY <1>0, <1>3, OwedKept DEF Ping, Handle, Close, Offline, OfflineFails, Erase, TimedOut,
     Answered, pushes
<1>4. ASSUME NEW r \in Request, ExecutedLate(r) PROVE Owed'
  BY <1>0, <1>4, OwedKept DEF ExecutedLate, conns, pushes
<1>5. ASSUME Login \/ Expire \/ UNCHANGED vars PROVE Owed'
  BY <1>0, <1>5, OwedKept DEF Login, Expire, conns, pushes, vars
<1>6. ASSUME NEW p \in Push, NEW s \in Gateway \cup {Service}, Collect(p, s) PROVE Owed'
  <2> DEFINE here == IF s = Service THEN {} ELSE Sessions(s)
             new  == [pc   |-> IF here = {} THEN "route" ELSE "done", from |-> s,
                      via  |-> IF here = {} THEN NoGateway ELSE s, stay |-> linked]
  <2>1. push' = [push EXCEPT ![p] = new] /\ Receive(p, here)
    BY <1>6 DEF Collect, Moves
  <2>2. UNCHANGED <<at, linked>> /\ got \subseteq got'
    BY <1>6, <2>1 DEF Collect, conns, Receive
  <2>3. new.pc = "done" => \A c \in new.stay : at[c] = new.via => <<c, p>> \in got'
    <3> SUFFICES ASSUME here # {}, NEW c \in linked, at[c] = s PROVE <<c, p>> \in got'
      OBVIOUS
    <3>1. c \in here
      BY <1>0, LinkedInTable
    <3> QED BY <2>1, <3>1 DEF Receive
  <2>4. new.stay \subseteq linked /\ (new.pc \in {"new", "route"} => new.via = NoGateway)
    OBVIOUS
  <2> HIDE DEF new, here
  <2> QED BY <1>0, <2>1, <2>2, <2>3, <2>4, OwedByOne
<1>7. ASSUME NEW p \in Push, GetRoute(p) PROVE Owed'
  <2>1. UNCHANGED <<at, linked, got>>
    BY <1>7 DEF GetRoute, conns
  <2>2. push[p] \in Call /\ push[p].stay \subseteq linked /\ push[p].via = NoGateway
    BY <1>0, <1>7 DEF TypeOK, Owed, GetRoute, Moves
  <2>3. CASE Moves(p, "route", [push[p] EXCEPT !.pc = "deliver", !.via = route])
    <3> DEFINE new == [push[p] EXCEPT !.pc = "deliver", !.via = route]
    <3>1. push' = [push EXCEPT ![p] = new]
      BY <2>3 DEF Moves
    <3>2. new.pc = "deliver" /\ new.stay \subseteq linked
      BY <2>2 DEF Call
    <3> HIDE DEF new
    <3> QED BY <1>0, <2>1, <3>1, <3>2, OwedByOne
  <2>4. CASE Moves(p, "route", [push[p] EXCEPT !.pc = "done"])
    <3> DEFINE new == [push[p] EXCEPT !.pc = "done"]
    <3>1. push' = [push EXCEPT ![p] = new]
      BY <2>4 DEF Moves
    <3>2. new.pc = "done" /\ new.stay \subseteq linked /\ new.via = NoGateway
      BY <2>2 DEF Call
    <3>3. \A c \in new.stay : at[c] # new.via
      BY <1>0, <3>2, LinkedInTable, NoGatewayAssumption
    <3> HIDE DEF new
    <3> QED BY <1>0, <2>1, <3>1, <3>2, <3>3, OwedByOne
  <2> QED BY <1>7, <2>3, <2>4 DEF GetRoute
<1>8. ASSUME NEW p \in Push, Deliver(p) PROVE Owed'
  <2> DEFINE new == [push[p] EXCEPT !.pc = "done"]
  <2>1. push' = [push EXCEPT ![p] = new] /\ Receive(p, Sessions(push[p].via))
    BY <1>8 DEF Deliver, Moves
  <2>2. UNCHANGED <<at, linked>> /\ got \subseteq got'
    BY <1>8, <2>1 DEF Deliver, conns, Receive
  <2>3. push[p] \in Call /\ push[p].stay \subseteq linked
    BY <1>0 DEF TypeOK, Owed
  <2>4. new.pc = "done" /\ new.stay \subseteq linked /\ new.via = push[p].via
    BY <2>3 DEF Call
  <2>5. \A c \in new.stay : at[c] = new.via => <<c, p>> \in got'
    BY <1>0, <2>1, <2>4, LinkedInTable DEF Receive
  <2> HIDE DEF new
  <2> QED BY <1>0, <2>1, <2>2, <2>4, <2>5, OwedByOne
<1>9. ASSUME NEW p \in Push, DeliverTimedOut(p) PROVE Owed'
  <2> DEFINE new == [push[p] EXCEPT !.pc = "done", !.via = NoGateway]
  <2>1. push' = [push EXCEPT ![p] = new]
    BY <1>9 DEF DeliverTimedOut, Moves
  <2>2. UNCHANGED <<at, linked, got>>
    BY <1>9 DEF DeliverTimedOut, conns
  <2>3. push[p] \in Call /\ push[p].stay \subseteq linked
    BY <1>0 DEF TypeOK, Owed
  <2>4. new.pc = "done" /\ new.stay \subseteq linked /\ new.via = NoGateway
    BY <2>3 DEF Call
  <2>5. \A c \in new.stay : at[c] # new.via
    BY <1>0, <2>4, LinkedInTable, NoGatewayAssumption
  <2> HIDE DEF new
  <2> QED BY <1>0, <2>1, <2>2, <2>4, <2>5, OwedByOne
<1>10. ASSUME NEW p \in Push, NEW g \in Gateway, DeliveredLate(p, g) PROVE Owed'
  <2>1. UNCHANGED <<at, linked, push>> /\ got \subseteq got'
    BY <1>10 DEF DeliveredLate, Receive, conns
  <2> QED BY <1>0, <2>1 DEF Owed, GatewayGets
<1>11. ASSUME NEW g \in Gateway, Crash(g) PROVE Owed'
  <2>1. UNCHANGED <<at, got>> /\ linked' = linked \ Sessions(g)
    BY <1>11 DEF Crash
  <2>2. \A p \in Push : push'[p] = [push[p] EXCEPT !.stay = @ \ Sessions(g),
            !.pc = IF push[p].from = g /\ @ # "done" THEN "lost" ELSE @]
    BY <1>11 DEF Crash
  <2>3. \A p \in Push : /\ push'[p].stay = push[p].stay \ Sessions(g)
                        /\ push'[p].pc \in {push[p].pc, "lost"} /\ push'[p].via = push[p].via
    <3> SUFFICES ASSUME NEW p \in Push
                 PROVE  /\ push'[p].stay = push[p].stay \ Sessions(g)
                        /\ push'[p].pc \in {push[p].pc, "lost"} /\ push'[p].via = push[p].via
      OBVIOUS
    <3>1. push[p] \in Call
      BY <1>0 DEF TypeOK
    <3>2. CASE push[p].from = g /\ push[p].pc # "done"
      <4>1. push'[p] = [push[p] EXCEPT !.stay = @ \ Sessions(g), !.pc = "lost"]
        BY <2>2, <3>1, <3>2 DEF Call
      <4> QED BY <3>1, <4>1 DEF Call
    <3>3. CASE ~(push[p].from = g /\ push[p].pc # "done")
      <4>1. push'[p] = [push[p] EXCEPT !.stay = @ \ Sessions(g), !.pc = @]
        BY <2>2, <3>1, <3>3 DEF Call
      <4> QED BY <3>1, <4>1 DEF Call
    <3> QED BY <3>2, <3>3
  <2> QED BY <1>0, <2>1, <2>3 DEF Owed, GatewayGets
<1> QED
  BY <1>1, <1>2, <1>3, <1>4, <1>5, <1>6, <1>7, <1>8, <1>9, <1>10, <1>11 DEF Next

(* A push that ends at a gateway has reached every client that was         *)
(* connected there all the time, with any number of gateways, connections, *)
(* pushes, timeouts and crashes.                                           *)
THEOREM GatewayGetsHolds == Spec => []GatewayGets
<1>1. Owed => GatewayGets
  BY DEF Owed
<1> HIDE DEF Owed, GatewayGets
<1> QED BY <1>1, OwedInit, OwedStep, PTL DEF Spec

------------------------------------------------------------------------------
(* Nothing is left behind *)

(* As long as no call has failed every request is executed while its       *)
(* caller waits for it, so that a route that is there belongs to a time at *)
(* which some handler has still its SetOffline before it, and a status Y   *)
(* to one at which some handler has still its Offline before it.           *)
Backed ==
    /\ TypeOK
    /\ faults = 0 =>
         /\ \A r \in Request : late[r] = 0
         /\ route # NoGateway => \E c \in Conn : pc[c] \in {"open", "beat", "status", "offline"}
         /\ status = "Y" /\ Conn # {} => \E c \in Conn : pc[c] \in {"new", "online", "open", "beat", "status"}

LEMMA BackedStep == Backed /\ [Next]_vars => Backed'
<1> SUFFICES ASSUME Backed, [Next]_vars PROVE Backed'
  OBVIOUS
<1>0. TypeOK /\ TypeOK'
  BY TypeStep DEF Backed
<1> USE DEF Backed
<1>1. ASSUME NEW c \in Conn, NEW g \in Gateway, Connect(c, g) PROVE Backed'
  BY <1>0, <1>1 DEF Connect, Goes, TypeOK
<1>2. ASSUME NEW c \in Conn, Ping(c) \/ Close(c) \/ Offline(c) PROVE Backed'
  BY <1>0, <1>2 DEF Ping, Close, Offline, Goes, TypeOK
<1>3. ASSUME NEW c \in Conn, Erase(c) PROVE Backed'
  BY <1>0, <1>3 DEF Erase, Goes, TypeOK
<1>4. ASSUME NEW c \in Conn, Answered(c) PROVE Backed'
  <2>1. CASE pc[c] = "offline"
    <3>1. route' = NoGateway /\ UNCHANGED <<late, status, faults>>
      BY <1>4, <2>1 DEF Answered, Asked
    <3>2. \A d \in Conn : d # c => pc'[d] = pc[d]
      BY <1>0, <1>4 DEF Answered, Goes, TypeOK
    <3> QED BY <1>0, <2>1, <3>1, <3>2
  <2>2. CASE pc[c] \in {"online", "beat"}
    <3>1. pc'[c] = "open" /\ UNCHANGED <<late, faults>>
      BY <1>0, <1>4, <2>2 DEF Answered, Goes, After, TypeOK
    <3> QED BY <1>0, <3>1
  <2> QED BY <1>4, <2>1, <2>2 DEF Answered, Calling
<1>5. ASSUME NEW c \in Conn, Drop(c) PROVE Backed'
  BY <1>0, <1>5 DEF Drop
<1>6. ASSUME NEW r \in Request, ExecutedLate(r) PROVE Backed'
  BY <1>0, <1>6 DEF ExecutedLate, conns
<1>7. ASSUME Login \/ Expire \/ UNCHANGED vars PROVE Backed'
  BY <1>0, <1>7 DEF Login, Expire, vars, conns
<1>8. ASSUME NEW p \in Push, NEW s \in Gateway \cup {Service}, Collect(p, s) PROVE Backed'
  BY <1>0, <1>8 DEF Collect, conns
<1>9. ASSUME NEW p \in Push, GetRoute(p) \/ Deliver(p) \/ DeliverTimedOut(p) PROVE Backed'
  BY <1>0, <1>9 DEF GetRoute, Deliver, DeliverTimedOut, conns
<1>10. ASSUME NEW p \in Push, NEW g \in Gateway, DeliveredLate(p, g) PROVE Backed'
  BY <1>0, <1>10 DEF DeliveredLate, conns
<1>11. ASSUME NEW c \in Conn, OfflineFails(c) \/ TimedOut(c) PROVE Backed'
  BY <1>0, <1>11 DEF OfflineFails, TimedOut
<1>12. ASSUME NEW g \in Gateway, Crash(g) PROVE Backed'
  <2>1. faults' = 1
    BY <1>12 DEF Crash
  <2> QED BY <1>0, <2>1
<1> HIDE DEF Backed
<1>13. ASSUME NEW c \in Conn, Drop(c) \/ Ping(c) \/ Handle(c) \/ Answered(c) PROVE Backed'
  BY <1>2, <1>3, <1>4, <1>5, <1>11, <1>13 DEF Handle
<1>14. ASSUME NEW p \in Push,
              \/ \E s \in Gateway \cup {Service} : Collect(p, s)
              \/ GetRoute(p) \/ Deliver(p) \/ DeliverTimedOut(p)
              \/ \E g \in Gateway : DeliveredLate(p, g)
       PROVE  Backed'
  BY <1>8, <1>9, <1>10, <1>14
<1> QED
  BY <1>1, <1>6, <1>7, <1>12, <1>13, <1>14 DEF Next

(* Nothing is left behind as long as no call failed and no gateway         *)
(* crashed, whatever the order of logins, connects, pings and closings, at *)
(* any number of gateways.                                                 *)
THEOREM NothingLeftHolds == ASSUME Conn # {} PROVE Spec => []NothingLeft
<1>1. Init => Backed
  BY TypeInit DEF Init, Backed
<1>2. Backed => NothingLeft
  <2> SUFFICES ASSUME Backed, faults = 0
               PROVE  /\ (\A c \in Conn : pc[c] \in {"new", "closed"}) => route = NoGateway
                      /\ (\A c \in Conn : pc[c] = "closed") => status = "N"
    BY DEF NothingLeft
  <2>1. ASSUME route # NoGateway PROVE \E c \in Conn : pc[c] \notin {"new", "closed"}
    BY <2>1 DEF Backed
  <2>2. ASSUME status # "N" PROVE \E c \in Conn : pc[c] # "closed"
    BY <2>2 DEF Backed, TypeOK
  <2> QED BY <2>1, <2>2
<1>3. Backed /\ [Next]_vars => Backed'
  BY BackedStep
<1> HIDE DEF Backed, NothingLeft
<1> QED BY <1>1, <1>2, <1>3, PTL DEF Spec
==============================================================================
