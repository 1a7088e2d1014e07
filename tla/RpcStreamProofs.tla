---------------------------- MODULE RpcStreamProofs ----------------------------
(***************************************************************************)
(* Proofs about RpcStream for any sets of calls and messages and any bound *)
(* on the reconnects, and about the semaphores it is built on.             *)
(***************************************************************************)
EXTENDS RpcStream, CoroutineSemaphore, FiniteSetTheorems, SequenceTheorems, TLAPS

(* The type invariant of RpcStream holds in every state. *)
THEOREM TypeCorrect == Spec => []TypeOK
<1> USE DEF TypeOK, conn, fiber, calls, send, app, Item, Role, Actor, StartPc, ReadPc, WritePc,
            Closing, CallPc, PostPc, RspPc, Timer, Result, Response, Answer, ctx
<1>1. Init => TypeOK
  <2> SUFFICES ASSUME Init PROVE TypeOK
    OBVIOUS
  <2>1. link \in {"up", "broken", "down"}
    BY DEF Init, autoConnect
  <2>2. batch \in [Req -> Role \cup {"no"}] /\ rsp \in [Req -> [Actor -> RspPc]]
    BY DEF Init
  <2>3. answer \in [Req -> [result : Result \cup {"not_connect"}, response : Response]]
    BY DEF Init
  <2> QED
    BY <2>1, <2>2, <2>3 DEF Init
<1>2. TypeOK /\ [Next]_vars => TypeOK'
  <2> SUFFICES ASSUME TypeOK, [Next]_vars PROVE TypeOK'
    OBVIOUS
  <2>1. ASSUME Drop PROVE TypeOK'
    BY <2>1 DEF Drop
  <2>2. ASSUME StartTimer PROVE TypeOK'
    BY <2>2 DEF StartTimer, StartTo
  <2>3. ASSUME StartWait PROVE TypeOK'
    BY <2>3 DEF StartWait, StartTo
  <2>4. ASSUME StartDial PROVE TypeOK'
    BY <2>4 DEF StartDial, StartTo, Dial
  <2>5. ASSUME StartFail PROVE TypeOK'
    BY <2>5 DEF StartFail, StartTo, Dial
  <2>6. ASSUME StartAccept PROVE TypeOK'
    BY <2>6 DEF StartAccept, StartTo
  <2>7. ASSUME StartSpawn PROVE TypeOK'
    BY <2>7 DEF StartSpawn
  <2>8. ASSUME StartBack PROVE TypeOK'
    BY <2>8 DEF StartBack, StartTo
  <2>9. ASSUME StartRearm PROVE TypeOK'
    BY <2>9 DEF StartRearm, StartTo
  <2>10. ASSUME NEW k \in Role, CloseReport(k) PROVE TypeOK'
    BY <2>10 DEF CloseReport, CloseTo
  <2>11. ASSUME NEW k \in Role, CloseShut(k) PROVE TypeOK'
    BY <2>11 DEF CloseShut, CloseTo
  <2>12. ASSUME NEW k \in Role, CloseWake(k) PROVE TypeOK'
    BY <2>12 DEF CloseWake, CloseTo
  <2>13. ASSUME NEW k \in Role, CloseSwap(k) PROVE TypeOK'
    BY <2>13 DEF CloseSwap, CloseTo
  <2>14. ASSUME NEW k \in Role, CloseClear(k) PROVE TypeOK'
    BY <2>14 DEF CloseClear, CloseTo
  <2>15. ASSUME NEW k \in Role, CloseReturn(k) PROVE TypeOK'
    BY <2>15 DEF CloseReturn, CloseTo, Failing
  <2>16. ASSUME NEW k \in Role, NEW r \in Req, CloseFail(k, r) PROVE TypeOK'
    BY <2>16 DEF CloseFail, Failing
  <2>17. ASSUME ReadLoop PROVE TypeOK'
    BY <2>17 DEF ReadLoop, ReadFrom, ReadTo
  <2>18. ASSUME RecvFail PROVE TypeOK'
    BY <2>18 DEF RecvFail, ReadFrom, ReadTo
  <2>19. ASSUME ReadDone PROVE TypeOK'
    BY <2>19 DEF ReadDone, ReadFrom, ReadTo
  <2>20. ASSUME ReadNotify PROVE TypeOK'
    BY <2>20 DEF ReadNotify, ReadFrom, ReadTo
  <2>21. ASSUME ReadRearm PROVE TypeOK'
    BY <2>21 DEF ReadRearm, ReadFrom, ReadTo
  <2>22. ASSUME NEW r \in Req, RecvResponse(r) PROVE TypeOK'
    <3>1. CASE r \in ctxs
      <4>0. rsp' = [rsp EXCEPT ![r]["read"] = "result"]
        BY <2>22, <3>1 DEF RecvResponse
      <4>1. rsp' \in [Req -> [Actor -> RspPc]]
        BY <4>0
      <4>2. /\ ctxs' = ctxs \ {r} /\ inflight' = inflight \ {r} /\ readPc' = "rsp"
            /\ UNCHANGED <<conn, startPc, writePc, waitSem, closing, ctx, timer, woken, answer,
                           sendSem, queue, outbox, pc, batch>>
        BY <2>22, <3>1 DEF RecvResponse, ReadTo
      <4> QED
        BY <4>1, <4>2
    <3>2. CASE r \notin ctxs
      BY <2>22, <3>2 DEF RecvResponse, ReadFrom, ReadTo
    <3> QED
      BY <3>1, <3>2
  <2>23. ASSUME NEW r \in Req, ReadResult(r) PROVE TypeOK'
    BY <2>23 DEF ReadResult
  <2>24. ASSUME NEW r \in Req, ReadResponse(r) PROVE TypeOK'
    BY <2>24 DEF ReadResponse
  <2>25. ASSUME NEW p \in Post, RecvRequest(p) PROVE TypeOK'
    BY <2>25 DEF RecvRequest, ReadFrom, ReadTo
  <2>26. ASSUME WriteLoop PROVE TypeOK'
    BY <2>26 DEF WriteLoop, WriteFrom, WriteTo
  <2>27. ASSUME WriteWait PROVE TypeOK'
    BY <2>27 DEF WriteWait, WriteFrom, WriteTo
  <2>28. ASSUME WriteSwap PROVE TypeOK'
    BY <2>28 DEF WriteSwap, WriteFrom, WriteTo
  <2>29. ASSUME WriteFail PROVE TypeOK'
    BY <2>29 DEF WriteFail, WriteFrom, WriteTo
  <2>30. ASSUME WriteSent PROVE TypeOK'
    BY <2>30 DEF WriteSent, WriteFrom, WriteTo
  <2>31. ASSUME WriteDrain PROVE TypeOK'
    BY <2>31 DEF WriteDrain, WriteFrom, WriteTo
  <2>32. ASSUME WriteNotify PROVE TypeOK'
    BY <2>32 DEF WriteNotify, WriteFrom, WriteTo
  <2>33. ASSUME NEW i \in Item, WriteSend(i) PROVE TypeOK'
    BY <2>33 DEF WriteSend, WriteFrom, WriteTo
  <2>34. ASSUME NEW r \in Req, NEW a \in Actor, Claim(r, a) PROVE TypeOK'
    BY <2>34 DEF Claim
  <2>35. ASSUME NEW r \in Req, NEW a \in Actor, Finish(r, a) PROVE TypeOK'
    BY <2>35 DEF Finish
  <2>36. ASSUME NEW r \in Req, TimerFires(r) PROVE TypeOK'
    BY <2>36 DEF TimerFires
  <2>37. ASSUME NEW r \in Req, TimerErases(r) PROVE TypeOK'
    BY <2>37 DEF TimerErases
  <2>38. ASSUME NEW r \in Req, TimerSets(r) PROVE TypeOK'
    BY <2>38 DEF TimerSets
  <2>39. ASSUME NEW r \in Req, Request(r) \/ Refuse(r) PROVE TypeOK'
    <3>1. CASE Request(r)
      BY <3>1 DEF Request, ItemTo
    <3>2. CASE Refuse(r)
      BY <3>2 DEF Refuse, ItemTo
    <3> QED
      BY <2>39, <3>1, <3>2
  <2>40. ASSUME NEW r \in Req, AddCtx(r) PROVE TypeOK'
    BY <2>40 DEF AddCtx, ItemTo
  <2>41. ASSUME NEW r \in Req, AddTimer(r) PROVE TypeOK'
    BY <2>41 DEF AddTimer, ItemTo
  <2>42. ASSUME NEW r \in Req, Return(r) PROVE TypeOK'
    BY <2>42 DEF Return, ItemTo
  <2>43. ASSUME NEW i \in Item, Enqueue(i) PROVE TypeOK'
    BY <2>43 DEF Enqueue, ItemTo
  <2>44. ASSUME NEW i \in Item, EnqueueNotify(i) PROVE TypeOK'
    BY <2>44 DEF EnqueueNotify, ItemTo
  <2>45. ASSUME NEW p \in Post, Handle(p) PROVE TypeOK'
    BY <2>45 DEF Handle, ItemTo
  <2>46. ASSUME NEW p \in Post, Handled(p) PROVE TypeOK'
    BY <2>46 DEF Handled, ItemTo
  <2>47. ASSUME NEW p \in Post, OwnerClose(p) PROVE TypeOK'
    BY <2>47 DEF OwnerClose, ItemTo
  <2>48. ASSUME NEW p \in Post, CloseBegin(p) PROVE TypeOK'
    BY <2>48 DEF CloseBegin, ItemTo
  <2>49. ASSUME NEW p \in Post, CloseEnd(p) PROVE TypeOK'
    BY <2>49 DEF CloseEnd, ItemTo
  <2>50. CASE UNCHANGED vars
    BY <2>50 DEF vars
  <2>51. CASE Start
    BY <2>51, <2>2, <2>3, <2>4, <2>5, <2>6, <2>7, <2>8, <2>9
       DEF Start
  <2>52. CASE Read
    BY <2>52, <2>17, <2>18, <2>19, <2>20, <2>21, <2>22, <2>23, <2>24, <2>25
       DEF Read
  <2>53. CASE Write
    BY <2>53, <2>26, <2>27, <2>28, <2>29, <2>30, <2>31, <2>32, <2>33
       DEF Write
  <2>54. ASSUME NEW k \in Role, InnerClose(k) PROVE TypeOK'
    BY <2>54, <2>10, <2>11, <2>12, <2>13, <2>14, <2>15, <2>16 DEF InnerClose
  <2>55. ASSUME NEW r \in Req, Request(r) \/ Refuse(r) \/ Call(r) \/ Respond(r) PROVE TypeOK'
    <3> HIDE DEF TypeOK
    <3>1. CASE Call(r)
      BY <3>1, <2>40, <2>41, <2>42, <2>43, <2>44 DEF Call, Item
    <3>2. CASE Respond(r)
      BY <3>2, <2>34, <2>35, <2>36, <2>37, <2>38 DEF Respond
    <3> QED BY <2>55, <2>39, <3>1, <3>2
  <2>56. ASSUME NEW p \in Post, OwnerClose(p) \/ Serve(p) PROVE TypeOK'
    BY <2>56, <2>43, <2>44, <2>45, <2>46, <2>47, <2>48, <2>49 DEF Serve
  <2> QED
    BY <2>1, <2>50, <2>51, <2>52, <2>53, <2>54, <2>55, <2>56 DEF Next
<1> QED
  BY <1>1, <1>2, PTL DEF Spec

------------------------------------------------------------------------------
(* The permits of m_waitSem are conserved, and there is one session at a   *)
(* time.  Neither is inductive alone: the writer and the reader are gone   *)
(* when start() dials because start() then holds both permits.             *)
THEOREM OneSessionHolds == Spec => [](PermitsConserved /\ OneSession)
<1> DEFINE Inv == PermitsConserved /\ OneSession
<1> USE DEF PermitsConserved, OneSession, StartHolds, ReadHolds, WriteHolds
<1>1. Init => Inv
  BY DEF Init
<1>2. TypeOK /\ Inv /\ [Next]_vars => Inv'
  <2> SUFFICES ASSUME TypeOK, Inv, [Next]_vars PROVE Inv'
    OBVIOUS
  <2>1. startPc \in StartPc /\ readPc \in ReadPc /\ writePc \in WritePc /\ waitSem \in Nat
    BY DEF TypeOK
  <2> USE DEF StartPc, ReadPc, WritePc
  <2>2. ASSUME UNCHANGED <<waitSem, startPc, readPc, writePc>> PROVE Inv'
    BY <2>2
  <2>3. CASE Drop
    BY <2>3, <2>2 DEF Drop, fiber
  <2>4. CASE Start
    BY <2>4, <2>1 DEF Start, StartTimer, StartWait, StartDial, StartFail, StartAccept,
       StartSpawn, StartBack, StartRearm, StartTo, fiber
  <2>5. CASE Read
    <3>1. ASSUME NEW r \in Req, RecvResponse(r) PROVE Inv'
      BY <3>1, <2>1 DEF RecvResponse, ReadFrom, ReadTo
    <3>2. ASSUME NEW r \in Req, ReadResult(r) \/ ReadResponse(r) PROVE Inv'
      BY <3>2, <2>2 DEF ReadResult, ReadResponse, fiber
    <3>3. ASSUME NEW p \in Post, RecvRequest(p) PROVE Inv'
      BY <3>3, <2>1 DEF RecvRequest, ReadFrom, ReadTo
    <3>4. CASE ReadLoop \/ RecvFail \/ ReadDone \/ ReadNotify \/ ReadRearm
      BY <3>4, <2>1 DEF ReadLoop, RecvFail, ReadDone, ReadNotify, ReadRearm, ReadFrom, ReadTo
    <3> QED
      BY <2>5, <3>1, <3>2, <3>3, <3>4 DEF Read
  <2>6. CASE Write
    <3>1. ASSUME NEW i \in Item, WriteSend(i) PROVE Inv'
      BY <3>1, <2>1 DEF WriteSend, WriteFrom, WriteTo
    <3> QED
      BY <2>6, <3>1, <2>1 DEF Write, WriteLoop, WriteWait, WriteSwap, WriteFail, WriteSent,
         WriteDrain, WriteNotify, WriteFrom, WriteTo
  <2>7. ASSUME NEW k \in Role, InnerClose(k) PROVE Inv'
    BY <2>7, <2>2 DEF InnerClose, CloseReport, CloseShut, CloseWake, CloseSwap, CloseClear,
       CloseFail, CloseReturn, fiber
  <2>8. ASSUME NEW r \in Req, Request(r) \/ Refuse(r) \/ Call(r) PROVE Inv'
    BY <2>8, <2>2 DEF Request, Refuse, Call, AddCtx, AddTimer, Enqueue, EnqueueNotify, Return, fiber
  <2>9. ASSUME NEW r \in Req, Respond(r) PROVE Inv'
    BY <2>9, <2>2 DEF Respond, TimerFires, TimerErases, TimerSets, Claim, Finish, fiber
  <2>10. ASSUME NEW p \in Post, OwnerClose(p) \/ Serve(p) PROVE Inv'
    <3>1. CASE CloseEnd(p)
      BY <3>1, <2>1 DEF CloseEnd
    <3> QED
      BY <2>10, <3>1, <2>2 DEF OwnerClose, Serve, Handle, Enqueue, EnqueueNotify, Handled,
         CloseBegin, fiber
  <2>11. CASE UNCHANGED vars
    BY <2>11, <2>2 DEF vars, fiber
  <2> QED
    BY <2>3, <2>4, <2>5, <2>6, <2>7, <2>8, <2>9, <2>10, <2>11 DEF Next
<1> QED
  BY <1>1, <1>2, TypeCorrect, PTL DEF Spec

------------------------------------------------------------------------------
(* No message stays in m_queue with the writer asleep and no permit coming.*)
THEOREM NoStrandedSendHolds == Spec => []NoStrandedSend
<1> USE DEF NoStrandedSend
<1>1. Init => NoStrandedSend
  BY DEF Init
<1>2. TypeOK /\ OneSession /\ NoStrandedSend /\ [Next]_vars => NoStrandedSend'
  <2> SUFFICES ASSUME TypeOK, OneSession, NoStrandedSend, [Next]_vars PROVE NoStrandedSend'
    OBVIOUS
  <2>1. sendSem \in Nat /\ pc \in [Item -> CallPc \cup PostPc] /\ Req \subseteq Item /\ Post \subseteq Item
    BY DEF TypeOK, Item
  <2>2. ASSUME UNCHANGED <<queue, sendSem, writePc>>,
               \A i \in Item : pc[i] = "notify" => pc'[i] = "notify"
        PROVE  NoStrandedSend'
    BY <2>2
  <2>3. CASE Drop \/ Start
    <3>1. UNCHANGED <<queue, sendSem, writePc, pc>> \/ StartSpawn
      BY <2>3 DEF Drop, Start, StartTimer, StartWait, StartDial, StartFail, StartAccept,
       StartSpawn, StartBack, StartRearm, StartTo, fiber, send, app
    <3>2. CASE StartSpawn
      BY <3>2 DEF StartSpawn, OneSession, send, app
    <3> QED
      BY <3>1, <3>2, <2>2
  <2>4. CASE Read
    <3>1. ASSUME NEW p \in Post, RecvRequest(p) PROVE NoStrandedSend'
      BY <3>1, <2>1, <2>2 DEF RecvRequest, ReadTo, send
    <3>2. ASSUME NEW r \in Req, RecvResponse(r) PROVE NoStrandedSend'
      BY <3>2, <2>2 DEF RecvResponse, ReadTo
    <3> QED
      BY <2>4, <3>1, <3>2, <2>2 DEF Read, ReadLoop, RecvFail, ReadDone, ReadNotify, ReadRearm,
         ReadResult, ReadResponse, ReadTo, send, app, fiber
  <2>5. CASE Write
    <3>1. ASSUME NEW i \in Item, WriteSend(i) PROVE NoStrandedSend'
      BY <3>1, <2>1 DEF WriteSend, WriteFrom, WriteTo, app
    <3> QED
      BY <2>5, <3>1, <2>1 DEF Write, WriteLoop, WriteWait, WriteSwap, WriteFail, WriteSent,
         WriteDrain, WriteNotify, WriteFrom, WriteTo, send, app
  <2>6. ASSUME NEW k \in Role, InnerClose(k) PROVE NoStrandedSend'
    BY <2>6, <2>1 DEF InnerClose, CloseReport, CloseShut, CloseWake, CloseSwap, CloseClear,
       CloseFail, CloseReturn, fiber, send, app
  <2>7. ASSUME NEW i \in Item, Enqueue(i) \/ EnqueueNotify(i) PROVE NoStrandedSend'
    BY <2>7, <2>1 DEF Enqueue, EnqueueNotify, ItemTo, fiber
  <2>8. ASSUME NEW r \in Req, Request(r) \/ Refuse(r) \/ Call(r) PROVE NoStrandedSend'
    BY <2>8, <2>7, <2>2, <2>1 DEF Request, Refuse, Call, AddCtx, AddTimer, Return, ItemTo, fiber, send
  <2>9. ASSUME NEW r \in Req, Respond(r) PROVE NoStrandedSend'
    BY <2>9, <2>2 DEF Respond, TimerFires, TimerErases, TimerSets, Claim, Finish, fiber, send, app
  <2>10. ASSUME NEW p \in Post, OwnerClose(p) \/ Serve(p) PROVE NoStrandedSend'
    BY <2>10, <2>7, <2>2, <2>1 DEF OwnerClose, Serve, Handle, Handled, CloseBegin, CloseEnd,
       ItemTo, fiber, send
  <2>11. CASE UNCHANGED vars
    BY <2>11, <2>2 DEF vars, fiber, send, app
  <2> QED
    BY <2>3, <2>4, <2>5, <2>6, <2>8, <2>9, <2>10, <2>11 DEF Next
<1> QED
  BY <1>1, <1>2, TypeCorrect, OneSessionHolds, PTL DEF Spec

------------------------------------------------------------------------------
(* Where each role may be in innerClose(). *)
ClosingPlace ==
    /\ closing["start"] # "no" => startPc = "back2"
    /\ closing["read"]  # "no" => readPc \in {"loop", "notify"}
    /\ closing["write"] # "no" => writePc = "loop"

(* The reader only leaves its loop, and the writer only survives it, when  *)
(* the socket is closed.                                                   *)
ReaderSawClose ==
    /\ readPc = "notify" => ~connected
    /\ writePc # "off" /\ readPc \notin {"loop", "recv", "rsp"} => ~connected

InSession == readPc \in {"loop", "recv", "rsp", "notify"} \/ writePc # "off"

(* Unless close() was called a session begins connected, and whoever shuts *)
(* its socket has reported it.                                             *)
ReportedFirst ==
    /\ startPc \in {"callback", "spawn"} /\ ~closed => connected
    /\ InSession /\ ~closed =>
          reported \/ (connected /\ \A k \in Role : closing[k] # "shut")

SessionInv == ClosingPlace /\ ReaderSawClose /\ ReportedFirst

(* A close() that has got to its second half has cleared m_autoConnect. *)
CloseMarked == \A p \in Post : pc[p] = "close2" => closed

LEMMA CloseMarkedHolds == Spec => []CloseMarked
<1> USE DEF CloseMarked, closed
<1>1. Init => CloseMarked
  BY DEF Init, Item
<1>2. TypeOK /\ CloseMarked /\ [Next]_vars => CloseMarked'
  <2> SUFFICES ASSUME TypeOK, CloseMarked, [Next]_vars PROVE CloseMarked'
    OBVIOUS
  <2>1. pc \in [Item -> CallPc \cup PostPc] /\ Req \subseteq Item /\ Post \subseteq Item
    BY DEF TypeOK, Item
  <2>2. ASSUME mode' = mode, \A p \in Post : pc'[p] = "close2" => pc[p] = "close2"
        PROVE  CloseMarked'
    BY <2>2
  <2>3. CASE Drop \/ Start \/ Write
    BY <2>3, <2>2 DEF Drop, Start, StartTimer, StartWait, StartDial, StartFail, StartAccept,
       StartSpawn, StartBack, StartRearm, Write, WriteLoop, WriteWait, WriteSwap, WriteSend,
       WriteFail, WriteSent, WriteDrain, WriteNotify, conn, app
  <2>4. CASE Read
    <3>1. ASSUME NEW p \in Post, RecvRequest(p) PROVE CloseMarked'
      BY <3>1, <2>1, <2>2 DEF RecvRequest, conn
    <3>2. ASSUME NEW r \in Req, RecvResponse(r) PROVE CloseMarked'
      BY <3>2, <2>2 DEF RecvResponse, conn
    <3> QED
      BY <2>4, <3>1, <3>2, <2>2 DEF Read, ReadLoop, RecvFail, ReadDone, ReadNotify, ReadRearm,
         ReadResult, ReadResponse, conn, app
  <2>5. ASSUME NEW k \in Role, InnerClose(k) PROVE CloseMarked'
    BY <2>5, <2>2 DEF InnerClose, CloseReport, CloseShut, CloseWake, CloseSwap, CloseClear,
       CloseFail, CloseReturn, conn, app
  <2>6. ASSUME NEW i \in Item, Enqueue(i) \/ EnqueueNotify(i) PROVE CloseMarked'
    BY <2>6, <2>1, <2>2 DEF Enqueue, EnqueueNotify, ItemTo, conn
  <2>7. ASSUME NEW r \in Req, Request(r) \/ Refuse(r) \/ Call(r) PROVE CloseMarked'
    BY <2>7, <2>6, <2>1, <2>2 DEF Request, Refuse, Call, AddCtx, AddTimer, Return, ItemTo, conn
  <2>8. ASSUME NEW r \in Req, Respond(r) PROVE CloseMarked'
    BY <2>8, <2>2 DEF Respond, TimerFires, TimerErases, TimerSets, Claim, Finish, conn, app
  <2>9. ASSUME NEW p \in Post, OwnerClose(p) \/ Serve(p) PROVE CloseMarked'
    <3>1. CASE CloseBegin(p)
      BY <3>1 DEF CloseBegin
    <3>2. CASE CloseEnd(p) \/ Handle(p) \/ Handled(p) \/ OwnerClose(p)
      BY <3>2, <2>1, <2>2 DEF CloseEnd, Handle, Handled, OwnerClose, ItemTo, conn
    <3> QED
      BY <2>9, <3>1, <3>2, <2>6, <2>1 DEF Serve
  <2>10. CASE UNCHANGED vars
    BY <2>10, <2>2 DEF vars, conn, app
  <2> QED
    BY <2>3, <2>4, <2>5, <2>7, <2>8, <2>9, <2>10 DEF Next
<1> QED
  BY <1>1, <1>2, TypeCorrect, PTL DEF Spec

(* The writer of a closed socket is always told, and no session ends with- *)
(* out its disconnect callback unless close() was called.                  *)
THEOREM SessionHolds == Spec => [](WriterIsTold /\ DropIsReported)
<1> DEFINE Inv == SessionInv /\ WriterIsTold
<1> USE DEF SessionInv, ClosingPlace, ReaderSawClose, ReportedFirst, InSession, WriterIsTold,
            connected, closed, Role
<1>1. Init => Inv
  BY DEF Init, autoConnect
<1>2. TypeOK /\ PermitsConserved /\ OneSession /\ CloseMarked /\ Inv /\ [Next]_vars => Inv'
  <2> SUFFICES ASSUME TypeOK, PermitsConserved, OneSession, CloseMarked, Inv, [Next]_vars PROVE Inv'
    OBVIOUS
  <2>1. /\ startPc \in StartPc /\ readPc \in ReadPc /\ writePc \in WritePc
        /\ waitSem \in Nat /\ sendSem \in Nat /\ closing \in [Role -> Closing]
        /\ link \in {"up", "broken", "down"} /\ mode \in {"redial", "once", "closed"}
    BY DEF TypeOK
  <2> USE DEF StartPc, ReadPc, WritePc, Closing
  <2>2. startPc \in {"dial", "callback", "spawn", "back2"} => readPc \in {"off", "rearm"} /\ writePc = "off"
    BY <2>1 DEF PermitsConserved, StartHolds, ReadHolds, WriteHolds
  <2>3. ASSUME UNCHANGED <<link, mode, reported, sendSem, startPc, readPc, writePc, closing>> PROVE Inv'
    BY <2>3
  <2>4. CASE Drop
    BY <2>4, <2>1 DEF Drop, fiber
  <2>5. CASE Start
    <3>1. CASE StartDial
      BY <3>1, <2>1, <2>2 DEF StartDial, StartTo, OneSession
    <3>2. CASE StartSpawn
      BY <3>2, <2>1, <2>2 DEF StartSpawn, OneSession
    <3> QED
      BY <2>5, <3>1, <3>2, <2>1, <2>2 DEF Start, StartTimer, StartWait, StartFail, StartAccept,
         StartBack, StartRearm, StartTo, conn, send
  <2>6. CASE Read
    <3>1. ASSUME NEW r \in Req, RecvResponse(r) PROVE Inv'
      BY <3>1, <2>1 DEF RecvResponse, ReadFrom, ReadTo, conn
    <3>2. ASSUME NEW r \in Req, ReadResult(r) \/ ReadResponse(r) PROVE Inv'
      BY <3>2, <2>3 DEF ReadResult, ReadResponse, fiber, conn, send
    <3>3. ASSUME NEW p \in Post, RecvRequest(p) PROVE Inv'
      BY <3>3, <2>1 DEF RecvRequest, ReadFrom, ReadTo, conn, send
    <3>4. CASE ReadLoop
      <4>1. CASE connected
        BY <3>4, <4>1, <2>1 DEF ReadLoop, ReadFrom, ReadTo, conn, send
      <4>2. CASE ~connected
        BY <3>4, <4>2, <2>1 DEF ReadLoop, ReadFrom, ReadTo, conn, send
      <4> QED
        BY <4>1, <4>2
    <3>5. CASE RecvFail
      BY <3>5, <2>1 DEF RecvFail, ReadFrom, ReadTo, conn, send
    <3>6. CASE ReadDone \/ ReadNotify
      BY <3>6, <2>1 DEF ReadDone, ReadNotify, ReadFrom, ReadTo, conn, send
    <3>7. CASE ReadRearm
      BY <3>7, <2>1 DEF ReadRearm, autoConnect, ReadFrom, ReadTo, conn, send, OneSession
    <3> QED
      BY <2>6, <3>1, <3>2, <3>3, <3>4, <3>5, <3>6, <3>7 DEF Read
  <2>7. CASE Write
    <3>1. ASSUME NEW i \in Item, WriteSend(i) PROVE Inv'
      BY <3>1, <2>1 DEF WriteSend, WriteFrom, WriteTo, conn
    <3> QED
      BY <2>7, <3>1, <2>1 DEF Write, WriteLoop, WriteWait, WriteSwap, WriteFail, WriteSent,
         WriteDrain, WriteNotify, WriteFrom, WriteTo, conn, send
  <2>8. ASSUME NEW k \in Role, InnerClose(k) PROVE Inv'
    <3>1. CASE CloseReport(k)
      BY <3>1, <2>1 DEF CloseReport, CloseTo, send
    <3>2. CASE CloseShut(k)
      BY <3>2, <2>1, <2>2 DEF CloseShut, CloseTo, send
    <3>3. CASE CloseWake(k)
      BY <3>3, <2>1 DEF CloseWake, CloseTo, conn
    <3>4. CASE CloseSwap(k) \/ CloseClear(k) \/ CloseReturn(k)
      BY <3>4, <2>1 DEF CloseSwap, CloseClear, CloseReturn, CloseTo, conn, send
    <3>5. ASSUME NEW r \in Req, CloseFail(k, r) PROVE Inv'
      BY <3>5, <2>3 DEF CloseFail, conn, send, fiber
    <3> QED
      BY <2>8, <3>1, <3>2, <3>3, <3>4, <3>5 DEF InnerClose
  <2>9. ASSUME NEW i \in Item, Enqueue(i) \/ EnqueueNotify(i) PROVE Inv'
    BY <2>9, <2>1 DEF Enqueue, EnqueueNotify, fiber, conn
  <2>10. ASSUME NEW r \in Req, Request(r) \/ Refuse(r) \/ Call(r) PROVE Inv'
    BY <2>10, <2>9, <2>3 DEF Request, Refuse, Call, AddCtx, AddTimer, Return, fiber, conn, send, Item
  <2>11. ASSUME NEW r \in Req, Respond(r) PROVE Inv'
    BY <2>11, <2>3 DEF Respond, TimerFires, TimerErases, TimerSets, Claim, Finish, fiber, conn, send
  <2>12. ASSUME NEW p \in Post, OwnerClose(p) \/ Serve(p) PROVE Inv'
    <3>1. CASE CloseBegin(p)
      BY <3>1, <2>1 DEF CloseBegin, fiber, send
    <3>2. CASE CloseEnd(p)
      <4>1. closed
        BY <3>2 DEF CloseEnd, ItemTo, CloseMarked
      <4> QED
        BY <3>2, <4>1, <2>1 DEF CloseEnd, send
    <3> QED
      BY <2>12, <3>1, <3>2, <2>9, <2>3 DEF OwnerClose, Serve, Handle, Handled, fiber, conn, send, Item
  <2>13. CASE UNCHANGED vars
    BY <2>13, <2>3 DEF vars, fiber, conn, send
  <2> QED
    BY <2>4, <2>5, <2>6, <2>7, <2>8, <2>10, <2>11, <2>12, <2>13 DEF Next
<1>3. TypeOK /\ Inv => DropIsReported
  BY DEF DropIsReported, TypeOK
<1>4. Inv => WriterIsTold
  OBVIOUS
<1> HIDE DEF Inv, WriterIsTold
<1> QED
  BY <1>1, <1>2, <1>3, <1>4, TypeCorrect, OneSessionHolds,
     CloseMarkedHolds, PTL DEF Spec

------------------------------------------------------------------------------
(* The life of one ctx.  Calls that have none yet, and refused ones: *)
Fresh(r) == /\ r \notin ctxs /\ timer[r] = "none" /\ woken[r] = 0
            /\ result[r] = "none" /\ response[r] = "none"
            /\ \A a \in Actor : rsp[r][a] = "none"

FreshBefore(r) == /\ pc[r] \in {"idle", "ctx"} => Fresh(r)
                  /\ pc[r] = "idle" => r \notin pending
                  /\ pc[r] = "ctx" => r \in pending
                  /\ pc[r] = "arm" => timer[r] = "none"

(* In m_ctxs: nobody completes it yet. *)
Untouched(r) == r \in ctxs => /\ r \in pending /\ result[r] = "none" /\ response[r] = "none"
                              /\ \A a \in Actor : rsp[r][a] = "none"
                              /\ timer[r] \in {"none", "armed", "fired"}

(* The compare-and-swap of ctx->scheduler has one winner, who schedules. *)
OneWinner(r) ==
    /\ woken[r] <= 1
    /\ r \in pending => woken[r] = 0
    /\ \A a \in Actor : rsp[r][a] = "finish" => r \notin pending /\ woken[r] = 0
    /\ \A a, b \in Actor : rsp[r][a] = "finish" /\ rsp[r][b] = "finish" => a = b
    /\ rsp[r]["read"] = "none" \/ rsp[r]["close"] = "none"

(* The timer, unless the winner cancelled it, ends with a claim. *)
TimerTries(r) ==
    /\ rsp[r]["timer"] # "none" => timer[r] = "over"
    /\ timer[r] = "over" => rsp[r]["timer"] # "none" \/ r \notin pending
    /\ timer[r] = "cancelled" => woken[r] = 1
    /\ pc[r] \in {"push", "notify", "held"} => timer[r] # "none"
    /\ pc[r] \in {"arm", "push", "notify", "held"} /\ r \notin pending =>
          woken[r] = 1 \/ \E a \in Actor : rsp[r][a] = "finish"

(* What the fields of the ctx can hold when its caller looks. *)
Fields(r) ==
    /\ rsp[r]["read"] # "none" => result[r] # "io_error"
    /\ rsp[r]["read"] \in {"response", "claim", "finish"} => result[r] # "none"
    /\ rsp[r]["close"] # "none" => response[r] = "none"
    /\ rsp[r]["close"] \in {"claim", "finish"} => result[r] # "none"
    /\ rsp[r]["timer"] \in {"claim", "finish"} => r \in timed
    /\ result[r] = "io_error" => response[r] = "none"
    /\ woken[r] > 0 => result[r] # "none"

CtxInv == \A r \in Req : /\ FreshBefore(r) /\ Untouched(r) /\ OneWinner(r)
                        /\ TimerTries(r) /\ Fields(r)

LEMMA CtxInvHolds == Spec => []CtxInv
<1> USE DEF CtxInv, Fresh, FreshBefore, Untouched, OneWinner, TimerTries, Fields, Actor
<1>1. Init => CtxInv
  BY DEF Init, Item
<1>2. TypeOK /\ CtxInv /\ [Next]_vars => CtxInv'
  <2> SUFFICES ASSUME TypeOK, CtxInv, [Next]_vars PROVE CtxInv'
    OBVIOUS
  <2>1. /\ pc \in [Item -> CallPc \cup PostPc] /\ Req \subseteq Item /\ Post \subseteq Item
        /\ Req \cap Post = {} /\ ctxs \subseteq Req /\ pending \subseteq Req
        /\ result \in [Req -> Result] /\ response \in [Req -> Response]
        /\ timer \in [Req -> Timer] /\ rsp \in [Req -> [Actor -> RspPc]]
        /\ woken \in [Req -> Nat]
    BY ReqAssumption DEF TypeOK, Item
  <2> DEFINE Kept == UNCHANGED <<ctxs, ctx, timer, rsp, woken>>
  <2>2. ASSUME Kept, \A r \in Req : pc'[r] = pc[r] PROVE CtxInv'
    BY <2>2 DEF ctx
  <2>3. CASE Drop \/ Start \/ Write
    BY <2>3, <2>2 DEF Drop, Start, StartTimer, StartWait, StartDial, StartFail, StartAccept,
       StartSpawn, StartBack, StartRearm, Write, WriteLoop, WriteWait, WriteSwap, WriteSend,
       WriteFail, WriteSent, WriteDrain, WriteNotify, calls, app
  <2>4. ASSUME NEW r \in Req, RecvResponse(r) PROVE CtxInv'
    <3>1. CASE r \in ctxs
      BY <2>4, <3>1, <2>1 DEF RecvResponse, RspPc, ctx
    <3>2. CASE r \notin ctxs
      BY <2>4, <3>2, <2>1, <2>2 DEF RecvResponse, ctx
    <3> QED
      BY <3>1, <3>2
  <2>5. ASSUME NEW r \in Req, ReadResult(r) PROVE CtxInv'
    BY <2>5, <2>1 DEF ReadResult, app
  <2>6. ASSUME NEW r \in Req, ReadResponse(r) PROVE CtxInv'
    BY <2>6, <2>1 DEF ReadResponse, app
  <2>7. ASSUME NEW p \in Post, RecvRequest(p) PROVE CtxInv'
    BY <2>7, <2>1, <2>2 DEF RecvRequest, calls
  <2>8. CASE ReadLoop \/ RecvFail \/ ReadDone \/ ReadNotify \/ ReadRearm
    BY <2>8, <2>2 DEF ReadLoop, RecvFail, ReadDone, ReadNotify, ReadRearm, calls, app
  <2>9. ASSUME NEW k \in Role, CloseSwap(k) PROVE CtxInv'
    BY <2>9, <2>1 DEF CloseSwap, ctx
  <2>10. ASSUME NEW k \in Role, NEW r \in Req, CloseFail(k, r) PROVE CtxInv'
    BY <2>10, <2>1 DEF CloseFail, Failing, app
  <2>11. ASSUME NEW k \in Role,
                CloseReport(k) \/ CloseShut(k) \/ CloseWake(k) \/ CloseClear(k) \/ CloseReturn(k)
         PROVE  CtxInv'
    BY <2>11, <2>2 DEF CloseReport, CloseShut, CloseWake, CloseClear, CloseReturn, calls, app
  <2>12. ASSUME NEW r \in Req, NEW a \in Actor, Claim(r, a) PROVE CtxInv'
    BY <2>12, <2>1 DEF Claim, app
  <2>13. ASSUME NEW r \in Req, NEW a \in Actor, Finish(r, a) PROVE CtxInv'
    BY <2>13, <2>1 DEF Finish, app
  <2>14. ASSUME NEW r \in Req, TimerFires(r) PROVE CtxInv'
    BY <2>14, <2>1 DEF TimerFires, ctx, app
  <2>15. ASSUME NEW r \in Req, TimerErases(r) PROVE CtxInv'
    BY <2>15, <2>1 DEF TimerErases, ctx
  <2>16. ASSUME NEW r \in Req, TimerSets(r) PROVE CtxInv'
    BY <2>16, <2>1 DEF TimerSets, app
  <2>17. ASSUME NEW r \in Req, Request(r) PROVE CtxInv'
    BY <2>17, <2>1 DEF Request, ItemTo
  <2>18. ASSUME NEW r \in Req, Refuse(r) PROVE CtxInv'
    BY <2>18, <2>1 DEF Refuse, ItemTo, ctx
  <2>19. ASSUME NEW r \in Req, AddCtx(r) PROVE CtxInv'
    BY <2>19, <2>1 DEF AddCtx, ItemTo, calls, ctx
  <2>20. ASSUME NEW r \in Req, AddTimer(r) PROVE CtxInv'
    BY <2>20, <2>1 DEF AddTimer, ItemTo, ctx
  <2>21. ASSUME NEW i \in Item, Enqueue(i) PROVE CtxInv'
    BY <2>21, <2>1 DEF Enqueue, ItemTo, calls, ctx
  <2>22. ASSUME NEW i \in Item, EnqueueNotify(i) PROVE CtxInv'
    BY <2>22, <2>1 DEF EnqueueNotify, ItemTo, calls, ctx
  <2>23. ASSUME NEW r \in Req, Return(r) PROVE CtxInv'
    BY <2>23, <2>1 DEF Return, ItemTo, ctx
  <2>24. ASSUME NEW p \in Post, Handle(p) \/ Handled(p) \/ OwnerClose(p) \/ CloseBegin(p) \/ CloseEnd(p)
         PROVE  CtxInv'
    BY <2>24, <2>1, <2>2 DEF Handle, Handled, OwnerClose, CloseBegin, CloseEnd, ItemTo, calls
  <2>25. CASE UNCHANGED vars
    BY <2>25, <2>2 DEF vars, calls, app
  <2>26. CASE Read
    BY <2>26, <2>4, <2>5, <2>6, <2>7, <2>8 DEF Read
  <2>27. ASSUME NEW k \in Role, InnerClose(k) PROVE CtxInv'
    BY <2>27, <2>9, <2>10, <2>11 DEF InnerClose
  <2>28. ASSUME NEW r \in Req, Request(r) \/ Refuse(r) \/ Call(r) PROVE CtxInv'
    BY <2>28, <2>1, <2>17, <2>18, <2>19, <2>20, <2>21, <2>22, <2>23 DEF Call
  <2>29. ASSUME NEW r \in Req, Respond(r) PROVE CtxInv'
    BY <2>29, <2>12, <2>13, <2>14, <2>15, <2>16 DEF Respond
  <2>30. ASSUME NEW p \in Post, OwnerClose(p) \/ Serve(p) PROVE CtxInv'
    BY <2>30, <2>1, <2>21, <2>22, <2>24 DEF Serve
  <2> QED
    BY <2>3, <2>25, <2>26, <2>27, <2>28, <2>29, <2>30 DEF Next
<1> QED
  BY <1>1, <1>2, TypeCorrect, PTL DEF Spec

(* A caller's coroutine is scheduled at most once. *)
THEOREM WokenOnceHolds == Spec => []WokenOnce
<1>1. CtxInv => WokenOnce
  BY DEF CtxInv, OneWinner, WokenOnce
<1> QED
  BY <1>1, CtxInvHolds, PTL

(* Response and close never both complete a ctx, nor one still in m_ctxs. *)
THEOREM CtxTakenOnceHolds == Spec => []CtxTakenOnce
<1>1. CtxInv => CtxTakenOnce
  BY DEF CtxInv, Untouched, OneWinner, CtxTakenOnce, Actor
<1> QED
  BY <1>1, CtxInvHolds, PTL

(* A caller asleep in request() will be woken. *)
THEOREM NeverForgottenHolds == Spec => []NeverForgotten
<1>1. TypeOK /\ CtxInv => NeverForgotten
  <2> SUFFICES ASSUME TypeOK, CtxInv, NEW r \in Req, pc[r] \in {"push", "notify", "held"},
                      woken[r] # 1, timer[r] \notin {"armed", "fired"},
                      \A a \in Actor : rsp[r][a] # "finish"
               PROVE  rsp[r]["timer"] # "none"
    BY DEF NeverForgotten
  <2>1. timer[r] = "over" /\ r \in pending
    BY DEF TypeOK, Timer, CtxInv, TimerTries
  <2> QED
    BY <2>1 DEF CtxInv, TimerTries
<1> QED
  BY <1>1, TypeCorrect, CtxInvHolds, PTL

------------------------------------------------------------------------------
(* RpcStream implements RpcPromise: each step of it refuses, accepts or    *)
(* returns one call, or changes nothing a caller can see.                  *)
THEOREM Implementation == Spec => KeepsPromise
<1> DEFINE call == [r \in Req |-> CASE pc[r] = "idle" -> "idle"
                                   [] pc[r] = "done" -> "returned"
                                   [] OTHER          -> "waiting"]
<1>1. Init => Promise!Init
  BY DEF Init, Promise!Init, Promise!NoAnswer, Answer, Item
<1>2. TypeOK /\ CtxInv /\ [Next]_vars => [Promise!Next]_Promise!vars
  <2> SUFFICES ASSUME TypeOK, CtxInv, [Next]_vars
               PROVE  Promise!Next \/ (UNCHANGED call /\ UNCHANGED answer)
    BY DEF Promise!vars
  <2>1. /\ pc \in [Item -> CallPc \cup PostPc] /\ Req \subseteq Item /\ Post \subseteq Item
        /\ Req \cap Post = {}
        /\ result \in [Req -> Result] /\ response \in [Req -> Response]
        /\ answer \in [Req -> [result : Result \cup {"not_connect"}, response : Response]]
    BY ReqAssumption DEF TypeOK, Item
  <2> DEFINE Hidden == UNCHANGED call /\ UNCHANGED answer
  <2>2. ASSUME UNCHANGED answer, \A r \in Req : pc'[r] = pc[r] PROVE Hidden
    BY <2>2
  <2>3. ASSUME NEW i \in Item, NEW from, NEW to, ItemTo(i, from, to), UNCHANGED answer,
               from \notin {"idle", "done"}, i \in Req => to \notin {"idle", "done"}
        PROVE  Hidden
    BY <2>1, <2>3 DEF ItemTo
  <2>4. ASSUME NEW p \in Post, NEW from, NEW to, ItemTo(p, from, to), UNCHANGED answer
        PROVE  Hidden
    BY <2>1, <2>2, <2>4 DEF ItemTo
  <2>5. CASE Drop \/ Start \/ Write
    BY <2>5, <2>2 DEF Drop, Start, StartTimer, StartWait, StartDial, StartFail, StartAccept,
       StartSpawn, StartBack, StartRearm, Write, WriteLoop, WriteWait, WriteSwap, WriteSend,
       WriteFail, WriteSent, WriteDrain, WriteNotify, calls, app
  <2>6. CASE Read
    <3>1. ASSUME NEW p \in Post, RecvRequest(p) PROVE Hidden
      BY <3>1, <2>1, <2>2 DEF RecvRequest, calls
    <3>2. ASSUME NEW r \in Req, RecvResponse(r) PROVE Hidden
      BY <3>2, <2>2 DEF RecvResponse
    <3> QED
      BY <2>6, <3>1, <3>2, <2>2 DEF Read, ReadLoop, RecvFail, ReadDone, ReadNotify, ReadRearm,
         ReadResult, ReadResponse, calls, app
  <2>7. ASSUME NEW k \in Role, InnerClose(k) PROVE Hidden
    BY <2>7, <2>2 DEF InnerClose, CloseReport, CloseShut, CloseWake, CloseSwap, CloseClear,
       CloseFail, CloseReturn, calls, app
  <2>8. ASSUME NEW r \in Req, Respond(r) PROVE Hidden
    BY <2>8, <2>2 DEF Respond, TimerFires, TimerErases, TimerSets, Claim, Finish, app
  <2>9. ASSUME NEW i \in Item, Enqueue(i) \/ EnqueueNotify(i) PROVE Hidden
    BY <2>9, <2>3 DEF Enqueue, EnqueueNotify, calls
  <2>10. ASSUME NEW r \in Req, AddCtx(r) \/ AddTimer(r) PROVE Hidden
    BY <2>10, <2>1, <2>3 DEF AddCtx, AddTimer, calls
  <2>11. ASSUME NEW p \in Post, OwnerClose(p) \/ Serve(p) PROVE Hidden
    BY <2>11, <2>1, <2>4, <2>9 DEF OwnerClose, Serve, Handle, Handled, CloseBegin, CloseEnd, calls
  <2>12. ASSUME NEW r \in Req, Request(r) PROVE Promise!Accept(r)
    BY <2>12, <2>1 DEF Request, ItemTo, Promise!Accept
  <2>13. ASSUME NEW r \in Req, Refuse(r) PROVE Promise!Refuse(r)
    BY <2>13, <2>1 DEF Refuse, ItemTo, Answer, Promise!Refuse
  <2>14. ASSUME NEW r \in Req, Return(r) PROVE Promise!Return(r)
    <3>1. pc[r] = "held" /\ pc' = [pc EXCEPT ![r] = "done"]
      BY <2>14 DEF Return, ItemTo
    <3>2. answer' = [answer EXCEPT ![r] = Answer(result[r], response[r])]
      BY <2>14 DEF Return
    <3>3. Answer(result[r], response[r]) \in Promise!Outcome
      <4>1. result[r] # "none" /\ (result[r] = "io_error" => response[r] = "none")
        BY <2>14, <2>1 DEF Return, CtxInv, Fields
      <4> QED
        BY <4>1, <2>1 DEF Answer, Result, Response, Promise!Outcome
    <3> QED
      BY <3>1, <3>2, <3>3, <2>1 DEF Promise!Return
  <2>15. CASE UNCHANGED vars
    BY <2>15, <2>2 DEF vars, calls, app
  <2>16. ASSUME NEW r \in Req, Request(r) \/ Refuse(r) \/ Call(r)
         PROVE  Promise!Next \/ Hidden
    BY <2>16, <2>1, <2>9, <2>10, <2>12, <2>13, <2>14 DEF Call, Promise!Next
  <2> QED
    BY <2>5, <2>6, <2>7, <2>8, <2>11, <2>15, <2>16 DEF Next
<1> QED
  BY <1>1, <1>2, TypeCorrect, CtxInvHolds, PTL DEF Spec, Promise!Spec, KeepsPromise

------------------------------------------------------------------------------
(* The semaphores: RpcStream has counters for m_sem and m_waitSem.  What   *)
(* follows is about the CoroutineSemaphore that implements one of them,    *)
(* for any set of fibers and any initial number of permits.                *)

(* The type invariant of CoroutineSemaphore holds in every state. *)
THEOREM SemaphoreTypeCorrect == SemSpec => []SemTypeOK
<1> USE DEF SemTypeOK, PC
<1>1. SemInit => SemTypeOK
  BY InitialAssumption DEF SemInit
<1>2. SemTypeOK /\ [SemNext]_semVars => SemTypeOK'
  <2> SUFFICES ASSUME SemTypeOK, [SemNext]_semVars PROVE SemTypeOK'
    OBVIOUS
  <2>1. ASSUME NEW f \in Fiber, TakePermit(f) PROVE SemTypeOK'
    BY <2>1 DEF TakePermit
  <2>2. ASSUME NEW f \in Fiber, PushWaiter(f) PROVE SemTypeOK'
    BY <2>2 DEF PushWaiter
  <2>3. ASSUME NEW f \in Fiber, YieldToHold(f) PROVE SemTypeOK'
    BY <2>3 DEF YieldToHold
  <2>4. ASSUME NEW f \in Fiber, Notify(f) PROVE SemTypeOK'
    BY <2>4 DEF Notify, Release
  <2>5. ASSUME NEW f \in Fiber, Resume(f) PROVE SemTypeOK'
    BY <2>5 DEF Resume
  <2>6. ASSUME NEW f \in Fiber, Leave(f) PROVE SemTypeOK'
    BY <2>6 DEF Leave
  <2>7. CASE UNCHANGED semVars
    BY <2>7 DEF semVars
  <2> QED
    BY <2>1, <2>2, <2>3, <2>4, <2>5, <2>6, <2>7 DEF SemNext
<1> QED
  BY <1>1, <1>2, PTL DEF SemSpec

(* No lost wake-up: a waiter never sleeps while m_concurrency > 0. *)
THEOREM NoIdlePermitHolds == SemSpec => []NoIdlePermit
<1>1. SemInit => NoIdlePermit
  BY DEF SemInit, NoIdlePermit
<1>2. SemTypeOK /\ NoIdlePermit /\ [SemNext]_semVars => NoIdlePermit'
  <2> SUFFICES ASSUME SemTypeOK, NoIdlePermit, [SemNext]_semVars PROVE NoIdlePermit'
    OBVIOUS
  <2> USE DEF SemTypeOK, NoIdlePermit
  <2>1. ASSUME NEW f \in Fiber, TakePermit(f) PROVE NoIdlePermit'
    BY <2>1 DEF TakePermit
  <2>2. ASSUME NEW f \in Fiber, PushWaiter(f) PROVE NoIdlePermit'
    BY <2>2 DEF PushWaiter
  <2>3. ASSUME NEW f \in Fiber, Notify(f) PROVE NoIdlePermit'
    BY <2>3 DEF Notify, Release
  <2>4. ASSUME NEW f \in Fiber,
               YieldToHold(f) \/ Resume(f) \/ Leave(f) \/ UNCHANGED semVars
        PROVE  NoIdlePermit'
    BY <2>4 DEF YieldToHold, Resume, Leave, semVars
  <2>5. CASE UNCHANGED semVars
    BY <2>5 DEF semVars
  <2> QED
    BY <2>1, <2>2, <2>3, <2>4, <2>5 DEF SemNext
<1> QED
  BY <1>1, <1>2, SemaphoreTypeCorrect, PTL DEF SemSpec

(* The entries of a tail are entries of the sequence, and the head of a    *)
(* sequence without repetition is not one of them.                         *)
LEMMA TailEntries ==
  ASSUME NEW S, NEW s \in Seq(S), s # <<>>,
         \A i, j \in DOMAIN s : s[i] = s[j] => i = j
  PROVE  /\ {Tail(s)[i] : i \in DOMAIN Tail(s)} = {s[i] : i \in DOMAIN s} \ {Head(s)}
         /\ Head(s) \in {s[i] : i \in DOMAIN s}
         /\ \A i, j \in DOMAIN Tail(s) : Tail(s)[i] = Tail(s)[j] => i = j
<1>1. /\ Len(s) \in Nat \ {0} /\ DOMAIN s = 1 .. Len(s) /\ Head(s) = s[1]
      /\ DOMAIN Tail(s) = 1 .. (Len(s) - 1)
      /\ \A i \in 1 .. (Len(s) - 1) : Tail(s)[i] = s[i + 1]
  BY EmptySeq, HeadTailProperties
<1>2. \A i \in 1 .. Len(s) : i # 1 => i - 1 \in 1 .. (Len(s) - 1) /\ (i - 1) + 1 = i
  BY <1>1
<1>3. \A i \in 1 .. (Len(s) - 1) : i + 1 \in 1 .. Len(s) /\ i + 1 # 1
  BY <1>1
<1>4. {Tail(s)[i] : i \in DOMAIN Tail(s)} = {s[i] : i \in DOMAIN s} \ {Head(s)}
  <2>1. ASSUME NEW x \in {Tail(s)[i] : i \in DOMAIN Tail(s)}
        PROVE  x \in {s[i] : i \in DOMAIN s} \ {Head(s)}
    <3>1. PICK i \in 1 .. (Len(s) - 1) : x = s[i + 1]
      BY <1>1, <2>1
    <3> QED
      BY <1>1, <1>3, <3>1
  <2>2. ASSUME NEW x \in {s[i] : i \in DOMAIN s} \ {Head(s)}
        PROVE  x \in {Tail(s)[i] : i \in DOMAIN Tail(s)}
    <3>1. PICK i \in 1 .. Len(s) : x = s[i]
      BY <1>1, <2>2
    <3>2. i # 1
      BY <1>1, <3>1, <2>2
    <3>3. Tail(s)[i - 1] = x
      BY <1>1, <1>2, <3>1, <3>2
    <3> QED
      BY <1>1, <1>2, <3>2, <3>3
  <2> QED
    BY <2>1, <2>2
<1>5. \A i, j \in DOMAIN Tail(s) : Tail(s)[i] = Tail(s)[j] => i = j
  <2> SUFFICES ASSUME NEW i \in 1 .. (Len(s) - 1), NEW j \in 1 .. (Len(s) - 1),
                      s[i + 1] = s[j + 1]
               PROVE  i = j
    BY <1>1
  <2>1. i + 1 = j + 1
    BY <1>1, <1>3
  <2> QED
    BY <2>1, <1>1
<1>6. Head(s) \in {s[i] : i \in DOMAIN s}
  <2>1. 1 \in DOMAIN s
    BY <1>1
  <2> QED
    BY <1>1, <2>1
<1> QED
  BY <1>4, <1>5, <1>6

(* Every fiber asleep in wait() is in m_waiters once or scheduled, never   *)
(* both.                                                                   *)
THEOREM SleeperIsKnownHolds == SemSpec => []SleeperIsKnown
<1> USE DEF SemTypeOK, PC, SleeperIsKnown, Queued
<1>1. SemInit => SleeperIsKnown
  BY DEF SemInit
<1>2. SemTypeOK /\ SleeperIsKnown /\ [SemNext]_semVars => SleeperIsKnown'
  <2> SUFFICES ASSUME SemTypeOK, SleeperIsKnown, [SemNext]_semVars PROVE SleeperIsKnown'
    OBVIOUS
  <2>1. ASSUME NEW f \in Fiber, TakePermit(f) PROVE SleeperIsKnown'
    BY <2>1 DEF TakePermit
  <2>2. ASSUME NEW f \in Fiber, PushWaiter(f) PROVE SleeperIsKnown'
    <3>1. /\ waiters' \in Seq(Fiber) /\ DOMAIN waiters = 1 .. Len(waiters)
          /\ DOMAIN waiters' = 1 .. (Len(waiters) + 1) /\ Len(waiters) \in Nat
          /\ \A i \in 1 .. Len(waiters) : waiters'[i] = waiters[i]
          /\ waiters'[Len(waiters) + 1] = f
      BY <2>2, AppendProperties DEF PushWaiter
    <3>2. Queued' = Queued \cup {f}
      <4>1. \A i \in DOMAIN waiters' : i \in DOMAIN waiters \/ i = Len(waiters) + 1
        BY <3>1
      <4>2. DOMAIN waiters \subseteq DOMAIN waiters' /\ Len(waiters) + 1 \in DOMAIN waiters'
        BY <3>1
      <4> QED
        BY <3>1, <4>1, <4>2
    <3>3. f \notin Queued /\ f \notin scheduled
      BY <2>2 DEF PushWaiter
    <3>4. \A i, j \in DOMAIN waiters' : waiters'[i] = waiters'[j] => i = j
      <4>1. \A i \in 1 .. Len(waiters) : waiters[i] # f
        BY <3>1, <3>3
      <4>2. \A i \in DOMAIN waiters' : i \in 1 .. Len(waiters) \/ i = Len(waiters) + 1
        BY <3>1
      <4> QED
        BY <3>1, <4>1, <4>2
    <3>5. /\ scheduled' = scheduled /\ at' = [at EXCEPT ![f] = "pushed"]
      BY <2>2 DEF PushWaiter
    <3> HIDE DEF Queued
    <3> QED
      BY <3>2, <3>3, <3>4, <3>5
  <2>3. ASSUME NEW f \in Fiber, YieldToHold(f) PROVE SleeperIsKnown'
    BY <2>3 DEF YieldToHold
  <2>4. ASSUME NEW f \in Fiber, Notify(f) PROVE SleeperIsKnown'
    <3>1. CASE waiters = <<>>
      BY <2>4, <3>1 DEF Notify, Release
    <3>2. CASE waiters # <<>>
      <4>1. /\ waiters' = Tail(waiters) /\ at' = at
            /\ scheduled' = scheduled \cup {Head(waiters)}
        BY <2>4, <3>2 DEF Notify, Release
      <4>2. /\ Queued' = Queued \ {Head(waiters)}
            /\ Head(waiters) \in Queued
            /\ \A i, j \in DOMAIN waiters' : waiters'[i] = waiters'[j] => i = j
        <5>1. waiters \in Seq(Fiber) /\ \A i, j \in DOMAIN waiters : waiters[i] = waiters[j] => i = j
          OBVIOUS
        <5>2. /\ {Tail(waiters)[i] : i \in DOMAIN Tail(waiters)} = Queued \ {Head(waiters)}
              /\ Head(waiters) \in Queued
              /\ \A i, j \in DOMAIN Tail(waiters) : Tail(waiters)[i] = Tail(waiters)[j] => i = j
          <6> HIDE DEF SemTypeOK, SleeperIsKnown
          <6> QED BY <5>1, <3>2, TailEntries
        <5>3. Queued' = {waiters'[i] : i \in DOMAIN waiters'}
          OBVIOUS
        <5> HIDE DEF Queued, SemTypeOK, SleeperIsKnown
        <5> QED BY <5>2, <5>3, <4>1
      <4>3. Head(waiters) \in Fiber
        BY <3>2
      <4> HIDE DEF Queued
      <4> QED
        BY <4>1, <4>2, <4>3
    <3> QED
      BY <3>1, <3>2
  <2>5. ASSUME NEW f \in Fiber, Resume(f) PROVE SleeperIsKnown'
    BY <2>5 DEF Resume
  <2>6. ASSUME NEW f \in Fiber, Leave(f) PROVE SleeperIsKnown'
    BY <2>6 DEF Leave
  <2>7. CASE UNCHANGED semVars
    BY <2>7 DEF semVars
  <2> QED
    BY <2>1, <2>2, <2>3, <2>4, <2>5, <2>6, <2>7 DEF SemNext
<1> QED
  BY <1>1, <1>2, SemaphoreTypeCorrect, PTL DEF SemSpec

(* The waiter list implements the plain counter: each step of              *)
(* CoroutineSemaphore is a Semaphore step on concurrency plus the fibers   *)
(* that have been handed a permit, or leaves them alone.                   *)
THEOREM SemaphoreImplementation == SemSpec => ImplementsSemaphore
<1> USE DEF SemTypeOK, PC, Abstract!vars
<1> DEFINE Passed == {f \in Fiber : at[f] = "inside"}
<1>1. SemInit => Abstract!Init
  BY FS_EmptySet, InitialAssumption DEF SemInit, Abstract!Init
<1>2. SemTypeOK /\ SleeperIsKnown /\ [SemNext]_semVars => [Abstract!Next]_(Abstract!vars)
  <2> SUFFICES ASSUME SemTypeOK, SleeperIsKnown, [SemNext]_semVars
               PROVE  Abstract!Next \/ UNCHANGED Abstract!vars
    OBVIOUS
  <2>0. IsFiniteSet(scheduled) /\ Cardinality(scheduled) \in Nat
    BY FiberAssumption, FS_Subset, FS_CardinalityType
  <2>1. ASSUME NEW f \in Fiber, TakePermit(f) PROVE Abstract!Pass(f)
    <3>1. Passed' = Passed \cup {f} /\ f \notin Passed
      BY <2>1 DEF TakePermit
    <3> QED
      BY <2>0, <2>1, <3>1 DEF TakePermit, Abstract!Pass
  <2>2. ASSUME NEW f \in Fiber, PushWaiter(f) \/ YieldToHold(f)
        PROVE  UNCHANGED Abstract!vars
    BY <2>2 DEF PushWaiter, YieldToHold
  <2>3. ASSUME NEW f \in Fiber, Notify(f) PROVE Abstract!Signal
    <3>1. CASE waiters = <<>>
      BY <2>0, <2>3, <3>1 DEF Notify, Release, Abstract!Signal
    <3>2. CASE waiters # <<>>
      <4>1. Head(waiters) \in Queued
        BY <3>2, EmptySeq, HeadTailProperties DEF Queued
      <4>2. Head(waiters) \notin scheduled
        BY <3>2, <4>1 DEF SleeperIsKnown
      <4>3. Cardinality(scheduled \cup {Head(waiters)}) = Cardinality(scheduled) + 1
        BY <2>0, <4>2, FS_AddElement
      <4>4. /\ scheduled' = scheduled \cup {Head(waiters)}
            /\ concurrency' = concurrency /\ at' = at
        BY <2>3, <3>2 DEF Notify, Release
      <4>5. (concurrency + Cardinality(scheduled))' = concurrency + Cardinality(scheduled) + 1
        BY <2>0, <4>3, <4>4
      <4> QED
        BY <4>4, <4>5 DEF Abstract!Signal
    <3> QED
      BY <3>1, <3>2
  <2>4. ASSUME NEW f \in Fiber, Resume(f) PROVE Abstract!Pass(f)
    <3>1. Cardinality(scheduled \ {f}) = Cardinality(scheduled) - 1
      BY <2>0, <2>4, FS_RemoveElement DEF Resume
    <3>2. Cardinality(scheduled) # 0
      BY <2>0, <2>4, FS_EmptySet DEF Resume
    <3>3. Passed' = Passed \cup {f} /\ f \notin Passed
      BY <2>4 DEF Resume
    <3> QED
      BY <2>0, <2>4, <3>1, <3>2, <3>3 DEF Resume, Abstract!Pass
  <2>5. ASSUME NEW f \in Fiber, Leave(f) PROVE Abstract!Leave(f)
    <3>1. Passed' = Passed \ {f} /\ f \in Passed
      BY <2>5 DEF Leave
    <3> QED
      BY <2>5, <3>1 DEF Leave, Abstract!Leave
  <2>6. CASE UNCHANGED semVars
    BY <2>6 DEF semVars
  <2> QED
    BY <2>1, <2>2, <2>3, <2>4, <2>5, <2>6 DEF SemNext, Abstract!Next
<1> QED
  BY <1>1, <1>2, SemaphoreTypeCorrect, SleeperIsKnownHolds, PTL
     DEF SemSpec, Abstract!Spec, ImplementsSemaphore
==============================================================================
