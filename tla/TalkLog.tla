------------------------------- MODULE TalkLog -------------------------------
(***************************************************************************)
(* What the message and talk services promise the users of one talk: a log *)
(* of messages that only grows, and for each user what was deleted, a      *)
(* session and an unread counter.  Every call is one step, whatever        *)
(* statements it consists of and whatever other calls run at the same      *)
(* time; a call that fails does nothing.                                   *)
(*                                                                         *)
(* Which message a session shows (last_msg_id) is not promised here.       *)
(***************************************************************************)
EXTENDS Naturals, Sequences

CONSTANTS User, Msg

VARIABLES mode,     \* "single" or "group"
          log,      \* id, by and refused of the messages, in the order of their numbers
          revoked,  \* messages taken back by their senders
          erased,   \* <<u, m>>: the user u deleted the message m, or must not see it
          session,  \* the session of each user: "none", "alive" or "removed"
          unread,   \* the unread counter of each user
          told      \* <<u, m>>: m was pushed to the devices of u

vars == <<mode, log, revoked, erased, session, unread, told>>

Sent == {log[i].id : i \in DOMAIN log}

Init == /\ mode \in {"single", "group"}
        /\ log = <<>> /\ revoked = {} /\ erased = {} /\ told = {}
        /\ session = [u \in User |-> IF mode = "group" THEN "alive" ELSE "none"]
        /\ unread = [u \in User |-> 0]

(* SendMessage.  In a single talk it may give the users their sessions     *)
(* back; a receiver who does not have the sender as a friend does not get  *)
(* the message.                                                            *)
Send(u, m) ==
    /\ m \notin Sent
    /\ \E refused \in BOOLEAN, back \in SUBSET User :
         /\ refused => mode = "single" /\ back \subseteq {u}
         /\ back # {} => mode = "single"
         /\ log' = Append(log, [id |-> m, by |-> u, refused |-> refused])
         /\ erased' = erased \cup (IF refused THEN (User \ {u}) \X {m} ELSE {})
         /\ session' = [v \in User |-> IF v \in back THEN "alive" ELSE session[v]]
    /\ unread' = [v \in User |-> IF v # u /\ session'[v] = "alive" THEN unread[v] + 1 ELSE unread[v]]
    /\ UNCHANGED <<mode, revoked, told>>

(* RevokeMessage, by the sender. *)
Revoke(u, m) == /\ \E i \in DOMAIN log : log[i].id = m /\ log[i].by = u
                /\ revoked' = revoked \cup {m}
                /\ UNCHANGED <<mode, log, erased, session, unread, told>>

(* DeleteMessages *)
Delete(u, m) == /\ m \in Sent
                /\ erased' = erased \cup {<<u, m>>}
                /\ UNCHANGED <<mode, log, revoked, session, unread, told>>

(* ClearTalkRecords *)
Clear(u) == /\ erased' = erased \cup ({u} \X Sent)
            /\ UNCHANGED <<mode, log, revoked, session, unread, told>>

(* deleteSession *)
Close(u) == session' = [session EXCEPT ![u] = IF @ = "alive" THEN "removed" ELSE @]

Remove(u) == Close(u) /\ UNCHANGED <<mode, log, revoked, erased, unread, told>>

(* DeleteAllMessagesInTalkForUser *)
Wipe(u) == /\ erased' = erased \cup ({u} \X Sent)
           /\ Close(u)
           /\ UNCHANGED <<mode, log, revoked, unread, told>>

(* createSession *)
Open(u) == /\ session' = [session EXCEPT ![u] = "alive"]
           /\ UNCHANGED <<mode, log, revoked, erased, unread, told>>

(* clearSessionUnreadNum *)
Read(u) == /\ session[u] = "alive"
           /\ unread' = [unread EXCEPT ![u] = 0]
           /\ UNCHANGED <<mode, log, revoked, erased, session, told>>

(* PushImMessage of a message in the log. *)
Tell == /\ \E i \in DOMAIN log :
             LET to == IF mode = "group" THEN {u \in User : session[u] = "alive"}
                       ELSE IF log[i].refused THEN {} ELSE User \ {log[i].by}
             IN told' = told \cup (to \X {log[i].id})
        /\ UNCHANGED <<mode, log, revoked, erased, session, unread>>

Next == \/ \E u \in User : \/ \E m \in Msg : Send(u, m) \/ Revoke(u, m) \/ Delete(u, m)
                           \/ Clear(u) \/ Wipe(u) \/ Remove(u) \/ Open(u) \/ Read(u)
        \/ Tell

Spec == Init /\ [][Next]_vars
=============================================================================
