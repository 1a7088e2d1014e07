------------------------------ MODULE RpcPromise ------------------------------
(***************************************************************************)
(* What RockStream::request() promises its callers, whatever happens to    *)
(* the connection: a call is refused at once or accepted, an accepted call *)
(* returns exactly once, and what it returns is one of the outcomes below. *)
(***************************************************************************)
CONSTANTS Req

VARIABLES call,   \* "idle", "waiting" or "returned"
          answer  \* what the call returned

vars == <<call, answer>>

NoAnswer == [result |-> "none", response |-> "none"]

(* An answer of the peer may come with "timeout", if the timer ran while   *)
(* the response was being delivered, and be missing with "ok", if the      *)
(* caller woken by the timer reads between the two assignments of          *)
(* doRecv().  A connection error never carries a response.                 *)
Outcome == [result : {"ok", "timeout"}, response : {"none", "rsp"}]
           \cup [result : {"io_error"}, response : {"none"}]

Init == /\ call = [r \in Req |-> "idle"]
        /\ answer = [r \in Req |-> NoAnswer]

Refuse(r) == /\ call[r] = "idle"
             /\ call' = [call EXCEPT ![r] = "returned"]
             /\ answer' = [answer EXCEPT ![r] = [result |-> "not_connect", response |-> "none"]]

Accept(r) == /\ call[r] = "idle"
             /\ call' = [call EXCEPT ![r] = "waiting"]
             /\ UNCHANGED answer

Return(r) == /\ call[r] = "waiting"
             /\ call' = [call EXCEPT ![r] = "returned"]
             /\ \E o \in Outcome : answer' = [answer EXCEPT ![r] = o]

Next == \E r \in Req : Refuse(r) \/ Accept(r) \/ Return(r)

Spec     == Init /\ [][Next]_vars
FairSpec == Spec /\ \A r \in Req : WF_vars(Return(r))
==============================================================================
