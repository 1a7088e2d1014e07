------------------------------- MODULE RpcStream -------------------------------
(***************************************************************************)
(* One RPC connection: core/net/streams/async_socket_stream.cpp with the   *)
(* request/response part of core/net/rock/rock_stream.cpp on top.          *)
(*                                                                         *)
(* Coroutines: start(), one doRead() and one doWrite() per session, the    *)
(* callers of request(), the handlers of inbound messages, and the timer   *)
(* callbacks.  They run on several threads, so every access to shared      *)
(* state that is not under one lock is a step of its own.  m_sem and       *)
(* m_waitSem are counters (CoroutineSemaphore implements Semaphore).       *)
(*                                                                         *)
(* startPc, readPc and writePc are single program counters: that there is  *)
(* never a second start(), reader or writer is not assumed but is the      *)
(* invariant OneSession.                                                   *)
(***************************************************************************)
EXTENDS Naturals, FiniteSets

CONSTANTS Req,         \* calls of request(), each with its own sn
          Post,        \* inbound messages to handle, or calls of close()
          MaxDials     \* bound of the model: calls of reconnect()

ASSUME ReqAssumption == Req \cap Post = {} /\ MaxDials \in Nat

Item  == Req \cup Post                \* what can be in m_queue
Role  == {"start", "read", "write"}   \* who runs innerClose()
Actor == {"read", "timer", "close"}   \* who calls Ctx::doRsp()

VARIABLES
  link,         \* m_socket: "up", "broken" (dropped by the peer or the network,
                \* still isConnected()), or "down"
  dials,        \* calls of reconnect() so far
  mode,         \* "redial" (m_autoConnect), "once" (not), or "closed" (not any
                \* more: close() was called)
  reported,     \* history: m_disconnectCb was called in this session
  waitSem,      \* permits of m_waitSem
  sendSem,      \* permits of m_sem
  startPc, readPc, writePc,
  closing,      \* progress of the innerClose() each role is in, or "no"
  pc,           \* callers of request() and handlers
  ctxs,         \* keys of m_ctxs
  queue,        \* m_queue
  outbox,       \* the list doWrite() swapped out of m_queue
  inflight,     \* requests the peer of this connection has and may answer
  batch,        \* whose innerClose() swapped this ctx out of m_ctxs, or "no"
  pending,      \* requests whose ctx->scheduler is still set
  timed,        \* requests whose ctx->timed is set
  result,       \* ctx->result
  response,     \* ctx->response
  timer,        \* state of ctx->timer
  rsp,          \* progress of each actor in completing a ctx
  woken,        \* how often the caller's coroutine was scheduled
  answer        \* the RockResult each call returned

conn  == <<link, dials, mode, reported>>
fiber == <<startPc, readPc, writePc, closing>>
ctx   == <<pending, timed, result, response>>
calls == <<ctx, timer, rsp, woken, answer>>
send  == <<sendSem, queue, outbox, inflight>>
app   == <<pc, ctxs, batch>>
vars  == <<conn, waitSem, fiber, calls, send, app>>

StartPc == {"off", "retry", "restart", "wait", "wait2", "dial", "callback",
            "spawn", "back2", "back1", "rearm"}
ReadPc  == {"off", "loop", "recv", "rsp", "notify", "rearm"}
WritePc == {"off", "loop", "wait", "swap", "send", "drain", "notify"}
Closing == {"no", "report", "shut", "wake", "swap", "clear", "fail"}
CallPc  == {"idle", "ctx", "arm", "push", "notify", "held", "done"}
PostPc  == {"idle", "handle", "push", "notify", "sent", "close", "close2", "done"}
RspPc   == {"none", "result", "response", "claim", "finish"}
Timer   == {"none", "armed", "cancelled", "fired", "over"}
Result  == {"none", "ok", "timeout", "io_error"}

Response == {"none", "rsp"}

(* m_socket->isConnected() *)
connected == link # "down"

autoConnect == mode = "redial"
closed      == mode = "closed"

Answer(res, body) == [result |-> res, response |-> body]

(* RockSession: an accepted socket, m_autoConnect = false.  RockConnection: *)
(* m_autoConnect = true and connect() may have failed.  start() was called. *)
Init == /\ mode \in {"redial", "once"}
        /\ link \in IF autoConnect THEN {"up", "down"} ELSE {"up"}
        /\ dials = 0 /\ reported = FALSE
        /\ waitSem = 2 /\ sendSem = 0
        /\ startPc = "wait" /\ readPc = "off" /\ writePc = "off"
        /\ closing = [k \in Role |-> "no"]
        /\ pc = [i \in Item |-> "idle"]
        /\ ctxs = {} /\ queue = {} /\ outbox = {} /\ inflight = {}
        /\ batch = [r \in Req |-> "no"]
        /\ pending = {} /\ timed = {}
        /\ result = [r \in Req |-> "none"] /\ response = [r \in Req |-> "none"]
        /\ timer = [r \in Req |-> "none"]
        /\ rsp = [r \in Req |-> [a \in Actor |-> "none"]]
        /\ woken = [r \in Req |-> 0]
        /\ answer = [r \in Req |-> Answer("none", "none")]

------------------------------------------------------------------------------
(* The network. *)

(* The peer or the network drops the established connection; answers that  *)
(* have arrived can still be read.                                         *)
Drop == /\ link = "up"
        /\ link' = "broken" /\ inflight' \in SUBSET inflight
        /\ UNCHANGED <<dials, mode, reported, waitSem, fiber, calls, sendSem, queue,
                       outbox, app>>

------------------------------------------------------------------------------
(* start() *)

StartTo(p) == startPc' = p /\ UNCHANGED <<readPc, writePc>>

(* The 2 s timer in m_timer, or the 10 ms timer doRead() sets, fires. *)
StartTimer == /\ startPc \in {"retry", "restart"}
              /\ StartTo("wait")
              /\ UNCHANGED <<conn, waitSem, closing, calls, send, app>>

(* Mutant: waitFiber() waits once. *)
WaitOnce == /\ startPc \in {"wait", "wait2"} /\ waitSem > 0
            /\ waitSem' = waitSem - 1
            /\ StartTo("dial")
            /\ UNCHANGED <<conn, closing, calls, send, app>>

(* waitFiber(): two permits, one for each fiber of the session before. *)
StartWait == /\ startPc \in {"wait", "wait2"}
             /\ waitSem > 0
             /\ waitSem' = waitSem - 1
             /\ StartTo(IF startPc = "wait" THEN "wait2" ELSE "dial")
             /\ UNCHANGED <<conn, closing, calls, send, app>>

Dial == dials < MaxDials /\ dials' = dials + 1

(* Still connected, or reconnect() succeeds. *)
StartDial == /\ startPc = "dial"
             /\ IF connected
                THEN UNCHANGED <<link, dials, inflight>>
                ELSE Dial /\ link' = "up" /\ inflight' = {}
             /\ StartTo("callback")
             /\ UNCHANGED <<mode, reported, waitSem, closing, calls, sendSem, queue,
                            outbox, app>>

(* reconnect() fails, or m_connectCb returns false. *)
StartFail == /\ \/ startPc = "dial" /\ ~connected /\ Dial
                \/ startPc = "callback" /\ UNCHANGED dials
             /\ StartTo("back2")
             /\ closing' = [closing EXCEPT !["start"] = "report"]
             /\ UNCHANGED <<link, mode, reported, waitSem, calls, send, app>>

(* m_connectCb is not set or returns true. *)
StartAccept == /\ startPc = "callback"
               /\ StartTo("spawn")
               /\ UNCHANGED <<conn, waitSem, closing, calls, send, app>>

(* startRead(); startWrite(): both fibers are pushed on m_iomanager. *)
StartSpawn == /\ startPc = "spawn"
              /\ startPc' = "off" /\ readPc' = "loop" /\ writePc' = "loop"
              /\ reported' = FALSE
              /\ UNCHANGED <<link, dials, mode, waitSem, closing, calls, send, app>>

(* The two m_waitSem.notify() of a failed start(). *)
StartBack == /\ startPc \in {"back2", "back1"} /\ closing["start"] = "no"
             /\ waitSem' = waitSem + 1
             /\ StartTo(IF startPc = "back2" THEN "back1" ELSE "rearm")
             /\ UNCHANGED <<conn, closing, calls, send, app>>

(* A failed start() tries again in 2 s if m_autoConnect. *)
StartRearm == /\ startPc = "rearm"
              /\ StartTo(IF autoConnect THEN "retry" ELSE "off")
              /\ UNCHANGED <<conn, waitSem, closing, calls, send, app>>

------------------------------------------------------------------------------
(* innerClose(), by the role k that is in it.  The steps are the places    *)
(* where other threads can come between: the disconnect callback, closing  *)
(* the socket, m_sem.notify(), the swap of m_ctxs, the clearing of m_queue *)
(* and the completion of each swapped ctx.                                 *)

CloseTo(k, from, to) == closing[k] = from /\ closing' = [closing EXCEPT ![k] = to]

(* Mutant: the socket is closed before the disconnect callback is due. *)
ShutFirst(k) == /\ CloseTo(k, "report", "shut")
                /\ link' = "down" /\ UNCHANGED <<dials, mode, reported>>
                /\ UNCHANGED <<waitSem, startPc, readPc, writePc, calls, send, app>>

CloseReport(k) == /\ CloseTo(k, "report", "shut")
                  /\ reported' = (reported \/ connected)
                  /\ UNCHANGED <<link, dials, mode, waitSem, startPc, readPc, writePc,
                                 calls, send, app>>

CloseShut(k) == /\ CloseTo(k, "shut", "wake")
                /\ link' = "down"
                /\ UNCHANGED <<dials, mode, reported, waitSem, startPc, readPc, writePc,
                               calls, send, app>>

(* Mutant: no m_sem.notify(). *)
WakeNobody(k) == /\ CloseTo(k, "wake", "swap")
                 /\ UNCHANGED <<conn, waitSem, startPc, readPc, writePc, calls, send, app>>

CloseWake(k) == /\ CloseTo(k, "wake", "swap")
                /\ sendSem' = sendSem + 1
                /\ UNCHANGED <<conn, waitSem, startPc, readPc, writePc, calls, queue,
                               outbox, inflight, app>>

CloseSwap(k) == /\ CloseTo(k, "swap", "clear")
                /\ batch' = [r \in Req |-> IF r \in ctxs THEN k ELSE batch[r]]
                /\ rsp' = [r \in Req |-> IF r \in ctxs
                                         THEN [rsp[r] EXCEPT !["close"] = "result"] ELSE rsp[r]]
                /\ ctxs' = {}
                /\ UNCHANGED <<conn, waitSem, startPc, readPc, writePc, ctx, timer,
                               woken, answer, send, pc>>

CloseClear(k) == /\ CloseTo(k, "clear", "fail")
                 /\ queue' = {}
                 /\ UNCHANGED <<conn, waitSem, startPc, readPc, writePc, calls, sendSem,
                                outbox, inflight, app>>

Failing(k) == {r \in Req : batch[r] = k /\ rsp[r]["close"] # "none"}

(* Mutant: the result of a failed call is not set. *)
FailSilently(k, r) ==
    /\ closing[k] = "fail" /\ r \in Failing(k)
    /\ \A q \in Failing(k) : rsp[q]["close"] = "result"
    /\ rsp' = [rsp EXCEPT ![r]["close"] = "claim"]
    /\ UNCHANGED <<conn, waitSem, fiber, ctx, timer, woken, answer, send, app>>

(* The next ctx of the batch, one at a time. *)
CloseFail(k, r) == /\ closing[k] = "fail" /\ r \in Failing(k)
                   /\ \A q \in Failing(k) : rsp[q]["close"] = "result"
                   /\ rsp' = [rsp EXCEPT ![r]["close"] = "claim"]
                   /\ result' = [result EXCEPT ![r] = "io_error"]
                   /\ UNCHANGED <<pending, timed, response, conn, waitSem, fiber, timer,
                                  woken, answer, send, app>>

CloseReturn(k) == /\ CloseTo(k, "fail", "no")
                  /\ Failing(k) = {}
                  /\ UNCHANGED <<conn, waitSem, startPc, readPc, writePc, calls, send,
                                 app>>

InnerClose(k) == \/ CloseReport(k) \/ CloseShut(k) \/ CloseWake(k) \/ CloseSwap(k)
                 \/ CloseClear(k) \/ CloseReturn(k) \/ \E r \in Req : CloseFail(k, r)

------------------------------------------------------------------------------
(* doRead(), with RockStream::doRecv() in it. *)

ReadFrom(p) == readPc = p /\ closing["read"] = "no"
ReadTo(p)   == readPc' = p /\ UNCHANGED <<startPc, writePc>>

(* while (isConnected()), and the innerClose() after the loop. *)
ReadLoop == /\ ReadFrom("loop")
            /\ ReadTo(IF connected THEN "recv" ELSE "notify")
            /\ closing' = IF connected THEN closing ELSE [closing EXCEPT !["read"] = "report"]
            /\ UNCHANGED <<conn, waitSem, calls, send, app>>

(* parseFrom() fails: the peer is gone, the socket was closed under the    *)
(* reader, or the bytes are no message.  doRecv() calls innerClose().      *)
RecvFail == /\ ReadFrom("recv")
            /\ ReadTo("loop")
            /\ closing' = [closing EXCEPT !["read"] = "report"]
            /\ UNCHANGED <<conn, waitSem, calls, send, app>>

(* A response: getAndDelCtx finds the ctx, or the call was given up before.*)
RecvResponse(r) ==
    /\ ReadFrom("recv") /\ connected /\ r \in inflight
    /\ inflight' = inflight \ {r}
    /\ ctxs' = ctxs \ {r}
    /\ IF r \in ctxs
       THEN ReadTo("rsp") /\ rsp' = [rsp EXCEPT ![r]["read"] = "result"]
       ELSE ReadTo("loop") /\ UNCHANGED rsp
    /\ UNCHANGED <<conn, waitSem, closing, ctx, timer, woken, answer, sendSem, queue,
                   outbox, pc, batch>>

(* A request or a notify of the peer: its handler is scheduled on m_worker.*)
RecvRequest(p) ==
    /\ ReadFrom("recv") /\ link = "up" /\ pc[p] = "idle"
    /\ pc' = [pc EXCEPT ![p] = "handle"]
    /\ ReadTo("loop")
    /\ UNCHANGED <<conn, waitSem, closing, calls, send, ctxs, batch>>

(* ctx->result, then ctx->response. *)
ReadResult(r) == /\ rsp[r]["read"] = "result"
                 /\ rsp' = [rsp EXCEPT ![r]["read"] = "response"]
                 /\ result' = [result EXCEPT ![r] = "ok"]
                 /\ UNCHANGED <<pending, timed, response, conn, waitSem, fiber, timer,
                                woken, answer, send, app>>

ReadResponse(r) == /\ rsp[r]["read"] = "response"
                   /\ rsp' = [rsp EXCEPT ![r]["read"] = "claim"]
                   /\ response' = [response EXCEPT ![r] = "rsp"]
                   /\ UNCHANGED <<pending, timed, result, conn, waitSem, fiber, timer,
                                  woken, answer, send, app>>

(* doRsp() returned to the loop. *)
ReadDone == /\ ReadFrom("rsp")
            /\ \A r \in Req : rsp[r]["read"] = "none"
            /\ ReadTo("loop")
            /\ UNCHANGED <<conn, waitSem, closing, calls, send, app>>

(* m_waitSem.notify() *)
ReadNotify == /\ ReadFrom("notify")
              /\ waitSem' = waitSem + 1
              /\ ReadTo("rearm")
              /\ UNCHANGED <<conn, closing, calls, send, app>>

(* With m_autoConnect a 10 ms timer runs start() again. *)
ReadRearm == /\ ReadFrom("rearm")
             /\ readPc' = "off" /\ UNCHANGED writePc
             /\ startPc' = IF autoConnect THEN "restart" ELSE startPc
             /\ UNCHANGED <<conn, waitSem, closing, calls, send, app>>

------------------------------------------------------------------------------
(* doWrite() *)

WriteFrom(p) == writePc = p /\ closing["write"] = "no"
WriteTo(p)   == writePc' = p /\ UNCHANGED <<startPc, readPc>>

WriteLoop == /\ WriteFrom("loop")
             /\ WriteTo(IF connected THEN "wait" ELSE "drain")
             /\ UNCHANGED <<conn, waitSem, closing, calls, send, app>>

(* m_sem.wait() *)
WriteWait == /\ WriteFrom("wait")
             /\ sendSem > 0
             /\ sendSem' = sendSem - 1
             /\ WriteTo("swap")
             /\ UNCHANGED <<conn, waitSem, closing, calls, queue, outbox, inflight, app>>

WriteSwap == /\ WriteFrom("swap")
             /\ outbox' = queue /\ queue' = {}
             /\ WriteTo("send")
             /\ UNCHANGED <<conn, waitSem, closing, calls, sendSem, inflight, app>>

(* doSend() of the next entry succeeds; on a broken link the bytes are lost.*)
WriteSend(i) == /\ WriteFrom("send") /\ connected /\ i \in outbox
                /\ outbox' = outbox \ {i}
                /\ inflight' = IF i \in Req /\ link = "up" THEN inflight \cup {i} ELSE inflight
                /\ WriteTo("send")
                /\ UNCHANGED <<conn, waitSem, closing, calls, sendSem, queue, app>>

(* doSend() fails: innerClose() and break; the rest of the list is dropped.*)
WriteFail == /\ WriteFrom("send") /\ outbox # {}
             /\ outbox' = {}
             /\ WriteTo("loop")
             /\ closing' = [closing EXCEPT !["write"] = "report"]
             /\ UNCHANGED <<conn, waitSem, calls, sendSem, queue, inflight, app>>

WriteSent == /\ WriteFrom("send") /\ outbox = {}
             /\ WriteTo("loop")
             /\ UNCHANGED <<conn, waitSem, closing, calls, send, app>>

(* m_queue.clear() after the loop. *)
WriteDrain == /\ WriteFrom("drain")
              /\ queue' = {}
              /\ WriteTo("notify")
              /\ UNCHANGED <<conn, waitSem, closing, calls, sendSem, outbox, inflight,
                             app>>

WriteNotify == /\ WriteFrom("notify")
               /\ waitSem' = waitSem + 1
               /\ WriteTo("off")
               /\ UNCHANGED <<conn, closing, calls, send, app>>

------------------------------------------------------------------------------
(* Ctx::doRsp(), by actor a.  The compare-and-swap of ctx->scheduler lets  *)
(* one caller through; that one cancels the timer, lets a timeout override *)
(* the result and schedules the caller's coroutine.                        *)

(* Mutant: every caller gets through. *)
ClaimAlways(r, a) ==
    /\ rsp[r][a] = "claim"
    /\ rsp' = [rsp EXCEPT ![r][a] = "finish"]
    /\ pending' = pending \ {r}
    /\ UNCHANGED <<timed, result, response, conn, waitSem, fiber, timer, woken, answer, send, app>>

Claim(r, a) ==
    /\ rsp[r][a] = "claim"
    /\ rsp' = [rsp EXCEPT ![r][a] = IF r \in pending THEN "finish" ELSE "none"]
    /\ pending' = pending \ {r}
    /\ UNCHANGED <<timed, result, response, conn, waitSem, fiber, timer, woken, answer,
                   send, app>>

Finish(r, a) ==
    /\ rsp[r][a] = "finish"
    /\ rsp' = [rsp EXCEPT ![r][a] = "none"]
    /\ timer' = [timer EXCEPT ![r] = IF @ = "armed" THEN "cancelled" ELSE @]
    /\ result' = [result EXCEPT ![r] = IF r \in timed THEN "timeout" ELSE @]
    /\ woken' = [woken EXCEPT ![r] = @ + 1]
    /\ UNCHANGED <<pending, timed, response, conn, waitSem, fiber, answer, send, app>>

(* The timer expires: its callback is scheduled, cancel() is too late now. *)
TimerFires(r) == /\ timer[r] = "armed"
                 /\ timer' = [timer EXCEPT ![r] = "fired"]
                 /\ UNCHANGED <<conn, waitSem, fiber, ctx, rsp, woken, answer, send, app>>

(* Mutant: the timer only erases the ctx. *)
EraseOnly(r) == /\ timer[r] = "fired"
                /\ timer' = [timer EXCEPT ![r] = "over"]
                /\ ctxs' = ctxs \ {r}
                /\ UNCHANGED <<conn, waitSem, fiber, ctx, rsp, woken, answer, send, pc, batch>>

(* onTimeOut(): erase the ctx under m_mutex, set ctx->timed, call doRsp(). *)
TimerErases(r) == /\ timer[r] = "fired"
                  /\ timer' = [timer EXCEPT ![r] = "over"]
                  /\ rsp' = [rsp EXCEPT ![r]["timer"] = "result"]
                  /\ ctxs' = ctxs \ {r}
                  /\ UNCHANGED <<conn, waitSem, fiber, ctx, woken, answer, send, pc,
                                 batch>>

TimerSets(r) ==
    /\ rsp[r]["timer"] = "result"
    /\ rsp' = [rsp EXCEPT ![r]["timer"] = "claim"]
    /\ timed' = timed \cup {r}
    /\ UNCHANGED <<pending, result, response, conn, waitSem, fiber, timer, woken, answer,
                   send, app>>

------------------------------------------------------------------------------
(* request(), sendMessage(), close() and the handlers. *)

ItemTo(i, from, to) == pc[i] = from /\ pc' = [pc EXCEPT ![i] = to]

(* request(): a ctx if connected, ... *)
Request(r) == /\ connected
              /\ ItemTo(r, "idle", "ctx")
              /\ pending' = pending \cup {r}
              /\ UNCHANGED <<timed, result, response, conn, waitSem, fiber, timer, rsp,
                             woken, answer, send, ctxs, batch>>

(* ... else NOT_CONNECT at once. *)
Refuse(r) == /\ ~connected
             /\ ItemTo(r, "idle", "done")
             /\ answer' = [answer EXCEPT ![r] = Answer("not_connect", "none")]
             /\ UNCHANGED <<conn, waitSem, fiber, ctx, timer, rsp, woken, send, ctxs,
                            batch>>

AddCtx(r) == /\ ItemTo(r, "ctx", "arm")
             /\ ctxs' = ctxs \cup {r}
             /\ UNCHANGED <<conn, waitSem, fiber, calls, send, batch>>

(* Mutant: the call has no timer. *)
NoTimer(r) == /\ ItemTo(r, "arm", "push")
              /\ UNCHANGED <<conn, waitSem, fiber, calls, send, ctxs, batch>>

AddTimer(r) == /\ ItemTo(r, "arm", "push")
               /\ timer' = [timer EXCEPT ![r] = "armed"]
               /\ UNCHANGED <<conn, waitSem, fiber, ctx, rsp, woken, answer, send, ctxs,
                              batch>>

(* Mutant: m_queue is looked at after the push, and never found empty. *)
EnqueueSilently(i) ==
    /\ ItemTo(i, "push", IF i \in Req THEN "held" ELSE "sent")
    /\ queue' = queue \cup {i}
    /\ UNCHANGED <<conn, waitSem, fiber, calls, sendSem, outbox, inflight, ctxs, batch>>

(* enqueue(): push under m_queueMutex; only who found it empty notifies. *)
Enqueue(i) == /\ ItemTo(i, "push", IF queue = {} THEN "notify"
                                   ELSE IF i \in Req THEN "held" ELSE "sent")
              /\ queue' = queue \cup {i}
              /\ UNCHANGED <<conn, waitSem, fiber, calls, sendSem, outbox, inflight,
                             ctxs, batch>>

EnqueueNotify(i) == /\ ItemTo(i, "notify", IF i \in Req THEN "held" ELSE "sent")
                    /\ sendSem' = sendSem + 1
                    /\ UNCHANGED <<conn, waitSem, fiber, calls, queue, outbox, inflight,
                                   ctxs, batch>>

(* The coroutine yielded and was scheduled: it returns ctx->result and     *)
(* ctx->response.                                                          *)
Return(r) == /\ woken[r] > 0
             /\ ItemTo(r, "held", "done")
             /\ answer' = [answer EXCEPT ![r] = Answer(result[r], response[r])]
             /\ UNCHANGED <<conn, waitSem, fiber, ctx, timer, rsp, woken, send, ctxs,
                            batch>>

(* handleRequest() sends a response if still connected; handleNotify() does*)
(* not.                                                                    *)
Handle(p) == /\ \/ ItemTo(p, "handle", "push") /\ connected
                \/ ItemTo(p, "handle", "sent")
             /\ UNCHANGED <<conn, waitSem, fiber, calls, send, ctxs, batch>>

(* The handler returned true, or false and the stream is closed. *)
Handled(p) == /\ \E to \in {"done", "close"} : ItemTo(p, "sent", to)
              /\ UNCHANGED <<conn, waitSem, fiber, calls, send, ctxs, batch>>

(* close() called by the owner of the stream. *)
OwnerClose(p) == /\ ItemTo(p, "idle", "close")
                 /\ UNCHANGED <<conn, waitSem, fiber, calls, send, ctxs, batch>>

(* close(): m_autoConnect = false, then a switch to m_iomanager ... *)
CloseBegin(p) == /\ ItemTo(p, "close", "close2")
                 /\ mode' = "closed"
                 /\ UNCHANGED <<link, dials, reported, waitSem, fiber, calls, send, ctxs,
                                batch>>

(* ... and there cancel m_timer and close the socket. *)
CloseEnd(p) == /\ ItemTo(p, "close2", "done")
               /\ startPc' = IF startPc = "retry" THEN "off" ELSE startPc
               /\ link' = "down"
               /\ UNCHANGED <<dials, mode, reported, waitSem, readPc, writePc, closing,
                              calls, send, ctxs, batch>>

------------------------------------------------------------------------------

Start == \/ StartTimer \/ StartWait \/ StartDial \/ StartFail
         \/ StartAccept \/ StartSpawn \/ StartBack \/ StartRearm

Read == \/ ReadLoop \/ RecvFail \/ ReadDone \/ ReadNotify \/ ReadRearm
        \/ \E r \in Req  : RecvResponse(r) \/ ReadResult(r) \/ ReadResponse(r)
        \/ \E p \in Post : RecvRequest(p)

Write == \/ WriteLoop \/ WriteWait \/ WriteSwap \/ WriteFail \/ WriteSent
         \/ WriteDrain \/ WriteNotify \/ \E i \in Item : WriteSend(i)

Respond(r) == \/ TimerFires(r) \/ TimerErases(r) \/ TimerSets(r)
              \/ \E a \in Actor : Claim(r, a) \/ Finish(r, a)

Call(r) == \/ AddCtx(r) \/ AddTimer(r) \/ Enqueue(r) \/ EnqueueNotify(r)
           \/ Return(r)

Serve(p) == \/ Handle(p) \/ Enqueue(p) \/ EnqueueNotify(p) \/ Handled(p)
            \/ CloseBegin(p) \/ CloseEnd(p)

Next == \/ Drop \/ Start \/ Read \/ Write
        \/ \E k \in Role : InnerClose(k)
        \/ \E r \in Req  : Request(r) \/ Refuse(r) \/ Call(r) \/ Respond(r)
        \/ \E p \in Post : OwnerClose(p) \/ Serve(p)

Spec == Init /\ [][Next]_vars

(* The scheduler runs every coroutine that can run and every armed timer   *)
(* fires; nothing is assumed of the peer, of callers or of owners.  A read *)
(* ends only if the link is gone or the socket closed, an expected answer  *)
(* may never come.                                                         *)
Fairness ==
    /\ WF_vars(Start)
    /\ WF_vars(Write)
    /\ WF_vars(ReadLoop \/ ReadDone \/ ReadNotify \/ ReadRearm)
    /\ WF_vars(RecvFail /\ link # "up")
    /\ \A k \in Role : WF_vars(InnerClose(k))
    /\ \A r \in Req  : /\ WF_vars(Call(r)) /\ WF_vars(TimerFires(r))
                       /\ WF_vars(TimerErases(r) \/ TimerSets(r))
                       /\ WF_vars(ReadResult(r) \/ ReadResponse(r))
                       /\ \A a \in Actor : WF_vars(Claim(r, a) \/ Finish(r, a))
    /\ \A p \in Post : WF_vars(Serve(p))

FairSpec == Spec /\ Fairness

------------------------------------------------------------------------------
(* Properties *)

(* Every variable has its type. *)
TypeOK ==
    /\ link \in {"up", "broken", "down"} /\ dials \in Nat
    /\ mode \in {"redial", "once", "closed"} /\ reported \in BOOLEAN
    /\ waitSem \in Nat /\ sendSem \in Nat
    /\ startPc \in StartPc /\ readPc \in ReadPc /\ writePc \in WritePc
    /\ closing \in [Role -> Closing]
    /\ pc \in [Item -> CallPc \cup PostPc]
    /\ ctxs \in SUBSET Req /\ queue \in SUBSET Item /\ outbox \in SUBSET Item
    /\ inflight \in SUBSET Req
    /\ batch \in [Req -> Role \cup {"no"}]
    /\ pending \in SUBSET Req /\ timed \in SUBSET Req
    /\ result \in [Req -> Result] /\ response \in [Req -> Response]
    /\ timer \in [Req -> Timer]
    /\ rsp \in [Req -> [Actor -> RspPc]]
    /\ woken \in [Req -> Nat]
    /\ answer \in [Req -> [result : Result \cup {"not_connect"}, response : Response]]

(* How many of the two m_waitSem permits the fibers hold. *)
StartHolds == CASE startPc = "wait2" -> 1
                [] startPc \in {"dial", "callback", "spawn", "back2"} -> 2
                [] startPc = "back1" -> 1
                [] OTHER -> 0
ReadHolds  == IF readPc \in {"loop", "recv", "rsp", "notify"} THEN 1 ELSE 0
WriteHolds == IF writePc # "off" THEN 1 ELSE 0

(* m_waitSem never gains or loses a permit: each is in the counter, with a *)
(* start() that took it, or with a running reader or writer.               *)
PermitsConserved == waitSem + StartHolds + ReadHolds + WriteHolds = 2

(* One session at a time on a stream: whenever start() launches doRead()   *)
(* and doWrite() those of the session before are gone, whenever doRead()   *)
(* arms the restart no other start() is pending or running, and a start()  *)
(* only dials when nobody else uses the socket.                            *)
OneSession ==
    /\ startPc \in {"dial", "callback", "spawn"} => readPc = "off" /\ writePc = "off"
    /\ readPc # "off" => startPc = "off"

(* The coroutine of a request is scheduled at most once, whoever of the    *)
(* reader, the timer and a closing stream gets to the ctx: a second        *)
(* schedule() would resume a coroutine that has gone elsewhere.            *)
WokenOnce == \A r \in Req : woken[r] <= 1

(* A caller asleep in request() will be woken: it is already, or its timer *)
(* is still to fire or being handled, or somebody is about to schedule it. *)
NeverForgotten == \A r \in Req :
    pc[r] \in {"push", "notify", "held"} =>
        \/ woken[r] = 1
        \/ timer[r] \in {"armed", "fired"}
        \/ rsp[r]["timer"] # "none"
        \/ \E a \in Actor : rsp[r][a] = "finish"

(* A ctx is in m_ctxs only as long as nobody completes it: it is taken out *)
(* by exactly one of response and close, and before its result is set.     *)
CtxTakenOnce == \A r \in Req :
    /\ r \in ctxs => rsp[r]["read"] = "none" /\ rsp[r]["close"] = "none" /\ woken[r] = 0
    /\ rsp[r]["read"] = "none" \/ rsp[r]["close"] = "none"

(* enqueue() notifies only if it found m_queue empty; nevertheless no      *)
(* message is left in m_queue with the writer asleep and no permit on its  *)
(* way.                                                                    *)
NoStrandedSend ==
    queue # {} => \/ sendSem > 0
                  \/ \E i \in Item : pc[i] = "notify"
                  \/ writePc \in {"swap", "drain"}

(* A writer asleep on a closed socket will be told: the permit is there, or*)
(* the reader or a closing role is still on its way to m_sem.notify().     *)
WriterIsTold ==
    writePc = "wait" /\ ~connected =>
        \/ sendSem > 0
        \/ readPc \in {"loop", "recv", "rsp"}
        \/ \E k \in Role : closing[k] \in {"report", "shut", "wake"}

(* Unless close() was called, a session never ends without its disconnect  *)
(* callback.                                                               *)
DropIsReported == readPc = "notify" /\ closing["read"] = "no" /\ ~closed => reported

(* RpcStream as a promise to the callers. *)
Promise == INSTANCE RpcPromise WITH
    call <- [r \in Req |-> CASE pc[r] = "idle" -> "idle"
                             [] pc[r] = "done" -> "returned"
                             [] OTHER          -> "waiting"],
    answer <- answer

(* Every call returns exactly once, with an outcome RpcPromise allows ...  *)
KeepsPromise == Promise!Spec

(* ... and every accepted call does return. *)
RequestReturns == \A r \in Req : pc[r] = "ctx" ~> pc[r] = "done"

(* A disconnected session comes to its end: its writer terminates. *)
SessionEnds == ~connected ~> writePc = "off"
==============================================================================
