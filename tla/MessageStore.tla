----------------------------- MODULE MessageStore -----------------------------
(***************************************************************************)
(* The messages of one talk and the sessions its users see in their lists: *)
(* application/app/message_service_impl.cpp and talk_service_impl.cpp on   *)
(* infra/repository/{message,talk}_repository_impl.cpp.                    *)
(*                                                                         *)
(* Each service call is one MySQL transaction, and each statement of it    *)
(* one step.  InnoDB (external, REPEATABLE READ) is modelled by what the   *)
(* calls rely on: a statement that writes a row, or that reads it with a   *)
(* lock, waits while another transaction has written it (or, for a writer, *)
(* share-locked it); a SELECT sees what is committed and what its own      *)
(* transaction wrote.  So what a transaction wrote is kept in `own`, whose *)
(* domain is the rows it has locked, and moves to `db` when it commits.    *)
(*                                                                         *)
(* The text, type and status of a message, the snapshot of the peer's name *)
(* in a session and the im.session.update pushes are left out.             *)
(***************************************************************************)
EXTENDS Naturals, FiniteSets

CONSTANTS User,       \* the users of the talk
          Msg,        \* message ids, given by the clients
          Op,         \* service calls of one behaviour
          NoMsg,      \* NULL in last_msg_id
          Modes,      \* values of talk_mode explored
          Kinds,      \* the service calls explored
          Strangers,  \* may the receiver not have the sender as a friend?
          Overlap,    \* the service calls that run concurrently
          Tolerated   \* do the statements fail whose failure is only logged?

ASSUME UserAssumption == User # {} /\ IsFiniteSet(User) /\ ("single" \in Modes => Cardinality(User) = 2)
ASSUME NoMsgAssumption == NoMsg \notin Msg
ASSUME ModeAssumption == Modes \subseteq {"single", "group"} /\ Overlap \subseteq Kinds
ASSUME ChoiceAssumption == {Strangers, Tolerated} \subseteq BOOLEAN

VARIABLES db,      \* the committed rows
          own,     \* the rows each transaction has written
          shared,  \* the rows each transaction has share-locked
          op,      \* kind, user and message of each call
          pc,      \* the statement it is at
          plan,    \* revoke, delete, clear: the last_msg_id to write, by user
          pushed   \* history: im.message sent to the devices of a user

vars == <<db, own, shared, op, pc, plan, pushed>>

TalkRow       == <<"talk">>            \* im_talk: talk_mode, which no call changes
SeqRow        == <<"seq">>             \* im_talk_sequence.last_seq
MsgRow(m)     == <<"msg", m>>          \* im_message
EraseRow(u,m) == <<"erase", u, m>>     \* im_message_user_delete
SessionRow(u) == <<"session", u>>      \* im_talk_session

Message == [seq : Nat, by : User, state : {"none", "normal", "revoked"}, invalid : BOOLEAN]
Session == [state : {"none", "alive", "removed"}, last : Msg \cup {NoMsg}, unread : Nat]

Messages == {MsgRow(m) : m \in Msg}
Erases   == {EraseRow(u, m) : u \in User, m \in Msg}
Sessions == {SessionRow(u) : u \in User}
Row      == {TalkRow, SeqRow} \cup Messages \cup Erases \cup Sessions

Mode == db[TalkRow]

Other(u) == CHOOSE v \in User : v # u   \* the peer in a single talk

Ended == {"idle", "done", "failed"}

(* A group talk starts with the sessions group creation made. *)
Init ==
    /\ \E mode \in Modes :
         LET someone == CHOOSE u \in User : TRUE
             blank   == [seq |-> 0, by |-> someone, state |-> "none", invalid |-> FALSE]
             fresh   == [state |-> IF mode = "group" THEN "alive" ELSE "none",
                         last |-> NoMsg, unread |-> 0]
         IN db = [r \in Row |-> CASE r \in Messages -> blank
                                  [] r \in Sessions -> fresh
                                  [] r \in Erases   -> FALSE
                                  [] r = TalkRow    -> mode
                                  [] r = SeqRow     -> 0]
    /\ own = [o \in Op |-> <<>>]
    /\ shared = [o \in Op |-> {}]
    /\ op = [o \in Op |-> [kind |-> "none", user |-> CHOOSE u \in User : TRUE, msg |-> NoMsg, deliver |-> TRUE]]
    /\ pc = [o \in Op |-> "idle"]
    /\ plan = [o \in Op |-> <<>>]
    /\ pushed = {}

------------------------------------------------------------------------------
(* The database *)

(* One row, and rows written over others. *)
Put(r, v)      == [x \in {r} |-> v]
Over(new, old) == [r \in DOMAIN new \cup DOMAIN old |-> IF r \in DOMAIN new THEN new[r] ELSE old[r]]

Written(o) == DOMAIN own[o]

CanShare(o, rows) == \A p \in Op \ {o} : rows \cap Written(p) = {}
CanWrite(o, rows) == /\ CanShare(o, rows)
                     /\ \A p \in Op \ {o} : rows \cap shared[p] = {}

(* What a statement of o sees. *)
View(o) == Over(own[o], db)

Write(o, change) == /\ CanWrite(o, DOMAIN change)
                    /\ own' = [own EXCEPT ![o] = Over(change, @)]

Share(o, rows) == /\ CanShare(o, rows)
                  /\ shared' = [shared EXCEPT ![o] = @ \cup rows]

Step(o, from, to) == pc[o] = from /\ pc' = [pc EXCEPT ![o] = to]

Release(o) == /\ own' = [own EXCEPT ![o] = <<>>]
              /\ shared' = [shared EXCEPT ![o] = {}]

Stored(d, m) == d[MsgRow(m)].state # "none"

(* ListRecentDescWithFilter: what is not revoked and not deleted by u. *)
Visible(d, u) == {m \in Msg : d[MsgRow(m)].state = "normal" /\ ~d[EraseRow(u, m)]}

(* ListRecentDescWithFilter with limit 1. *)
Newest(d, u) == IF Visible(d, u) = {} THEN NoMsg
                ELSE CHOOSE m \in Visible(d, u) :
                       \A n \in Visible(d, u) : d[MsgRow(n)].seq <= d[MsgRow(m)].seq

------------------------------------------------------------------------------
(* A call begins.  Calls refused before they write anything are left out:  *)
(* revoking a message of somebody else or one that is not there.           *)

MayBegin(k) == \/ \A p \in Op : pc[p] \in Ended
               \/ k \in Overlap /\ \A p \in Op : pc[p] \in Ended \/ op[p].kind \in Overlap

First(k) == IF k = "send" THEN "talk" ELSE "mark"

Begin(o, k, u, m) ==
    /\ pc[o] = "idle" /\ k \in Kinds /\ MayBegin(k)
    /\ k = "revoke" => Stored(db, m) /\ db[MsgRow(m)].by = u
    /\ k = "delete" => Stored(db, m)
    /\ k \in {"clear", "wipe"} => m = NoMsg
    /\ op' = [op EXCEPT ![o] = [kind |-> k, user |-> u, msg |-> m, deliver |-> TRUE]]
    /\ pc' = [pc EXCEPT ![o] = First(k)]
    /\ UNCHANGED <<db, own, shared, plan, pushed>>

------------------------------------------------------------------------------
(* SendMessage *)

(* Mutant: the session of the sender is locked together with the talk. *)
FindTalkAndSession(o) ==
    LET r == SessionRow(op[o].user)
    IN /\ Step(o, "talk", "insert")
       /\ Write(o, Over(Put(TalkRow, Mode), Put(r, View(o)[r])))
       /\ UNCHANGED <<db, shared, op, plan, pushed>>

(* findOrCreateSingleTalk, findOrCreateGroupTalk: the upsert locks the row *)
(* of the talk until the end of the transaction.                           *)
FindTalk(o) == /\ Step(o, "talk", "insert")
               /\ Write(o, Put(TalkRow, Mode))
               /\ UNCHANGED <<db, shared, op, plan, pushed>>

AfterInsert == IF Mode = "single" THEN "mine" ELSE "bump"

(* Mutant: the sequence is taken on a connection of its own. *)
InsertOutside(o) ==
    LET m == op[o].msg
        s == db[SeqRow] + 1
        row(d) == Put(MsgRow(m), [seq |-> s, by |-> op[o].user, state |-> "normal", invalid |-> ~d])
    IN /\ Step(o, "insert", AfterInsert)
       /\ ~Stored(db, m)
       /\ \E d \in IF Strangers /\ Mode = "single" THEN BOOLEAN ELSE {TRUE} :
            /\ Write(o, row(d))
            /\ op' = [op EXCEPT ![o].deliver = d]
       /\ db' = [db EXCEPT ![SeqRow] = s]
       /\ UNCHANGED <<shared, plan, pushed>>

(* Mutant: a message with the same id is overwritten. *)
InsertOver(o) ==
    LET m == op[o].msg
        s == View(o)[SeqRow] + 1
        row(d) == Put(MsgRow(m), [seq |-> s, by |-> op[o].user, state |-> "normal", invalid |-> ~d])
    IN /\ Step(o, "insert", AfterInsert)
       /\ \E d \in IF Strangers /\ Mode = "single" THEN BOOLEAN ELSE {TRUE} :
            /\ Write(o, Over(row(d), Put(SeqRow, s)))
            /\ op' = [op EXCEPT ![o].deliver = d]
       /\ UNCHANGED <<db, shared, plan, pushed>>

(* The answer of the contact service, nextSeq and Create of a new message. *)
Insert(o) ==
    LET m == op[o].msg
        s == View(o)[SeqRow] + 1
        row(d) == Put(MsgRow(m), [seq |-> s, by |-> op[o].user, state |-> "normal", invalid |-> ~d])
    IN /\ Step(o, "insert", AfterInsert)
       /\ ~Stored(db, m)
       /\ \E d \in IF Strangers /\ Mode = "single" THEN BOOLEAN ELSE {TRUE} :
            /\ Write(o, Over(row(d), Put(SeqRow, s)))
            /\ op' = [op EXCEPT ![o].deliver = d]
       /\ UNCHANGED <<db, shared, plan, pushed>>

(* createSession: a new session, or the old one that is restored. *)
Restored(o, u) == Put(SessionRow(u), [View(o)[SessionRow(u)] EXCEPT !.state = "alive"])

SenderSession(o) == /\ Step(o, "mine", IF op[o].deliver THEN "theirs" ELSE "bump")
                    /\ Write(o, Restored(o, op[o].user))
                    /\ UNCHANGED <<db, shared, op, plan, pushed>>

ReceiverSession(o) == /\ Step(o, "theirs", "bump")
                      /\ Write(o, Restored(o, Other(op[o].user)))
                      /\ UNCHANGED <<db, shared, op, plan, pushed>>

(* createSession that fails is only logged. *)
SessionFails(o) == /\ Tolerated
                   /\ \/ Step(o, "mine", IF op[o].deliver THEN "theirs" ELSE "bump")
                      \/ Step(o, "theirs", "bump")
                   /\ UNCHANGED <<db, own, shared, op, plan, pushed>>

Bumped(o, s, u, count) ==
    IF s.state = "alive"
    THEN [s EXCEPT !.last = op[o].msg, !.unread = IF count THEN @ + 1 ELSE @]
    ELSE s

(* MarkUserDelete of a message the receiver must not see. *)
Hidden(o) == IF op[o].deliver THEN <<>> ELSE Put(EraseRow(Other(op[o].user), op[o].msg), TRUE)

SessionsNow(o, u) == View(o)[SessionRow(u)]

(* Mutant: the sender's own message is unread too. *)
BumpAll(o) ==
    /\ Step(o, "bump", "commit")
    /\ Write(o, Over(Hidden(o), [r \in Sessions |->
                    LET u == CHOOSE v \in User : r = SessionRow(v)
                    IN Bumped(o, SessionsNow(o, u), u, TRUE)]))
    /\ UNCHANGED <<db, shared, op, plan, pushed>>

(* bumpOnNewMessage: every session of the talk that is not removed. *)
Bump(o) ==
    /\ Step(o, "bump", "commit")
    /\ Write(o, Over(Hidden(o), [r \in Sessions |->
                    LET u == CHOOSE v \in User : r = SessionRow(v)
                    IN Bumped(o, SessionsNow(o, u), u, u # op[o].user)]))
    /\ UNCHANGED <<db, shared, op, plan, pushed>>

(* Mutant: the message is pushed before the commit. *)
PushEarly(o) ==
    /\ \/ pc[o] = "commit" /\ op[o].kind = "send" /\ UNCHANGED pc
       \/ Step(o, "push", "done")
    /\ LET to == IF Mode = "group" THEN {u \in User : db[SessionRow(u)].state = "alive"}
                 ELSE IF op[o].deliver THEN {Other(op[o].user)} ELSE {}
       IN pushed' = pushed \cup (to \X {op[o].msg})
    /\ UNCHANGED <<db, own, shared, op, plan>>

(* PushImMessage, after the commit: to the receiver of a single talk if it *)
(* may have the message, to everybody with a session in a group.           *)
Push(o) ==
    /\ Step(o, "push", "done")
    /\ LET to == IF Mode = "group" THEN {u \in User : db[SessionRow(u)].state = "alive"}
                 ELSE IF op[o].deliver THEN {Other(op[o].user)} ELSE {}
       IN pushed' = pushed \cup (to \X {op[o].msg})
    /\ UNCHANGED <<db, own, shared, op, plan>>

Send(o) == \/ FindTalk(o) \/ Insert(o) \/ SenderSession(o) \/ ReceiverSession(o)
           \/ SessionFails(o) \/ Bump(o) \/ Push(o)

------------------------------------------------------------------------------
(* RevokeMessage, DeleteMessages, ClearTalkRecords and                     *)
(* DeleteAllMessagesInTalkForUser                                          *)

(* Revoke: is_revoked = 1 for everybody. *)
MarkRevoked(o) ==
    /\ op[o].kind = "revoke" /\ Step(o, "mark", "list")
    /\ Write(o, Put(MsgRow(op[o].msg), [View(o)[MsgRow(op[o].msg)] EXCEPT !.state = "revoked"]))
    /\ UNCHANGED <<db, shared, op, plan, pushed>>

(* MarkUserDelete for the caller; its foreign key share-locks the message. *)
MarkDeleted(o) ==
    /\ op[o].kind = "delete" /\ Step(o, "mark", "list")
    /\ Write(o, Put(EraseRow(op[o].user, op[o].msg), TRUE))
    /\ Share(o, {MsgRow(op[o].msg)})
    /\ UNCHANGED <<db, op, plan, pushed>>

Erased(o) == [r \in {EraseRow(op[o].user, m) : m \in {n \in Msg : Stored(db, n)}} |-> TRUE]

(* Mutant: the messages to delete are selected without locks. *)
MarkUnlocked(o) ==
    /\ op[o].kind \in {"clear", "wipe"} /\ Step(o, "mark", "apply")
    /\ Write(o, Erased(o))
    /\ plan' = [plan EXCEPT ![o] = Put(op[o].user, NoMsg)]
    /\ UNCHANGED <<db, shared, op, pushed>>

(* MarkAllMessagesDeletedByUserInTalk: INSERT ... SELECT share-locks every *)
(* message of the talk and the gaps between them.                          *)
MarkAll(o) ==
    /\ op[o].kind \in {"clear", "wipe"} /\ Step(o, "mark", "apply")
    /\ Write(o, Erased(o))
    /\ Share(o, Messages)
    /\ plan' = [plan EXCEPT ![o] = Put(op[o].user, NoMsg)]
    /\ UNCHANGED <<db, op, pushed>>

(* Delete: the newest message left for the caller.  Revoke:                *)
(* listUsersByLastMsg and, for each, the newest message left.  The first   *)
(* SELECT of the transaction fixes what all of them see.                   *)
List(o) ==
    /\ Step(o, "list", "apply")
    /\ LET users == IF op[o].kind = "delete" THEN {op[o].user}
                    ELSE {u \in User : /\ View(o)[SessionRow(u)].state = "alive"
                                       /\ View(o)[SessionRow(u)].last = op[o].msg}
       IN plan' = [plan EXCEPT ![o] = [u \in users |-> Newest(View(o), u)]]
    /\ UNCHANGED <<db, own, shared, op, pushed>>

(* updateLastMsgForUser of the next user; its foreign key share-locks the  *)
(* message.  DeleteAllMessagesInTalkForUser then removes the session.      *)
Apply(o, u) ==
    /\ pc[o] = "apply" /\ u \in DOMAIN plan[o]
    /\ LET s    == View(o)[SessionRow(u)]
           last == plan[o][u]
           new  == [s EXCEPT !.last = last, !.state = IF op[o].kind = "wipe" THEN "removed" ELSE @]
       IN /\ Write(o, Put(SessionRow(u), IF s.state = "alive" THEN new ELSE s))
          /\ IF last = NoMsg THEN UNCHANGED shared ELSE Share(o, {MsgRow(last)})
    /\ plan' = [plan EXCEPT ![o] = [v \in DOMAIN plan[o] \ {u} |-> plan[o][v]]]
    /\ UNCHANGED <<db, op, pc, pushed>>

Applied(o) == /\ Step(o, "apply", "commit") /\ plan[o] = <<>>
              /\ UNCHANGED <<db, own, shared, op, plan, pushed>>

(* ClearTalkRecords only logs that updateLastMsgForUser failed. *)
ApplyFails(o) == /\ Tolerated /\ op[o].kind = "clear" /\ Step(o, "apply", "commit")
                 /\ plan' = [plan EXCEPT ![o] = <<>>]
                 /\ UNCHANGED <<db, own, shared, op, pushed>>

Remove(o) == \/ ApplyFails(o)
             \/ MarkRevoked(o) \/ MarkDeleted(o) \/ MarkAll(o) \/ List(o) \/ Applied(o)
             \/ \E u \in User : Apply(o, u)

------------------------------------------------------------------------------
(* The end of a transaction *)

(* COMMIT succeeds. *)
Commit(o) == /\ Step(o, "commit", IF op[o].kind = "send" THEN "push" ELSE "done")
             /\ db' = Over(own[o], db)
             /\ Release(o)
             /\ UNCHANGED <<op, plan, pushed>>

Rollback(o) == /\ pc' = [pc EXCEPT ![o] = "failed"]
               /\ plan' = [plan EXCEPT ![o] = <<>>]
               /\ Release(o)
               /\ UNCHANGED <<db, op, pushed>>

(* A statement or the COMMIT fails, the server breaks a deadlock, or a     *)
(* lock is waited for too long: rollback, and an error for the caller.     *)
Fail(o) == pc[o] \notin Ended \cup {"push"} /\ Rollback(o)

(* The answer of a COMMIT that succeeded is lost: the caller gets an error, *)
(* and nothing is pushed.                                                  *)
CommitLost(o) == /\ Step(o, "commit", "failed")
                 /\ db' = Over(own[o], db)
                 /\ Release(o)
                 /\ UNCHANGED <<op, plan, pushed>>

(* A message id that is in use violates the primary key. *)
Duplicate(o) == pc[o] = "insert" /\ Stored(db, op[o].msg) /\ Rollback(o)

------------------------------------------------------------------------------
(* Single statements of talk_service_impl.cpp, each a transaction of its   *)
(* own.                                                                    *)

Single(o, k) == /\ pc[o] = "idle" /\ k \in Kinds
                /\ MayBegin(k)
                /\ pc' = [pc EXCEPT ![o] = "done"]
                /\ UNCHANGED <<own, shared, op, plan, pushed>>

Alone(o, u) == CanWrite(o, {SessionRow(u)})

(* clearSessionUnreadNum *)
ClearUnread(o, u) ==
    /\ Single(o, "read") /\ Alone(o, u) /\ db[SessionRow(u)].state = "alive"
    /\ db' = [db EXCEPT ![SessionRow(u)].unread = 0]

(* deleteSession *)
RemoveSession(o, u) ==
    /\ Single(o, "remove") /\ Alone(o, u) /\ db[SessionRow(u)].state = "alive"
    /\ db' = [db EXCEPT ![SessionRow(u)].state = "removed"]

(* createSession of the talk service, which upserts the talk too. *)
OpenSession(o, u) ==
    /\ Single(o, "open") /\ Alone(o, u) /\ CanWrite(o, {TalkRow})
    /\ db' = [db EXCEPT ![SessionRow(u)].state = "alive"]

------------------------------------------------------------------------------

Proceed(o) == Send(o) \/ Duplicate(o) \/ Remove(o) \/ Commit(o)

Next == \E o \in Op :
            \/ \E u \in User : \/ ClearUnread(o, u) \/ RemoveSession(o, u) \/ OpenSession(o, u)
                               \/ \E k \in {"send", "revoke", "delete"}, m \in Msg : Begin(o, k, u, m)
                               \/ \E k \in {"clear", "wipe"} : Begin(o, k, u, NoMsg)
            \/ Proceed(o)
            \/ Fail(o) \/ CommitLost(o)

Spec == Init /\ [][Next]_vars

------------------------------------------------------------------------------
(* Properties *)

(* Every row keeps its type, written or committed, counters never go below *)
(* zero, and only a running call has locks.                                *)
TypeOK ==
    /\ DOMAIN db = Row
    /\ \A d \in {db} \cup {own[o] : o \in Op} : \A r \in DOMAIN d :
            /\ r \in Messages => d[r] \in Message
            /\ r \in Sessions => d[r] \in Session
            /\ r \in Erases   => d[r] \in BOOLEAN
            /\ r = TalkRow  => d[r] \in Modes
            /\ r = SeqRow   => d[r] \in Nat
    /\ \A o \in Op : /\ Written(o) \cup shared[o] \subseteq Row
                     /\ pc[o] \in Ended \cup {"push"} => Written(o) = {} /\ shared[o] = {}
    /\ pushed \subseteq User \X Msg

(* The sequence numbers of a talk are 1, 2, 3, ... without a gap and       *)
(* without a duplicate, whatever calls run at the same time and fail       *)
(* (nextSeq; migrations/040_message.sql).                                  *)
NoGaps ==
    LET at(s) == {m \in Msg : Stored(db, m) /\ db[MsgRow(m)].seq = s}
    IN /\ \A s \in 1..db[SeqRow] : \E m \in Msg : at(s) = {m}
       /\ \A m \in Msg : Stored(db, m) => db[MsgRow(m)].seq \in 1..db[SeqRow]

(* What a session in the list of a user shows is the newest message the    *)
(* user can see in the talk (bumpOnNewMessage, updateLastMsgForUser).      *)
NewestShown == \A u \in User : db[SessionRow(u)].state = "alive" =>
    LET last == db[SessionRow(u)].last
        seen == {m \in Msg : db[MsgRow(m)].state = "normal" /\ ~db[EraseRow(u, m)]}
    IN IF seen = {} THEN last = NoMsg
       ELSE last \in seen /\ \A m \in seen : db[MsgRow(m)].seq <= db[MsgRow(last)].seq

(* An unread counter never counts more than the messages others sent.      *)
UnreadIsBacked == \A u \in User : db[SessionRow(u)].unread <=
        Cardinality({m \in Msg : Stored(db, m) /\ db[MsgRow(m)].by # u})

(* A client is told of a message only after it is stored for good, and     *)
(* never of one it must not see (PushImMessage after the commit).          *)
PushedIsVisible == \A u \in User, m \in Msg : <<u, m>> \in pushed =>
        /\ Stored(db, m)
        /\ ~db[MsgRow(m)].invalid \/ db[MsgRow(m)].by = u

(* The talk its users rely on: the committed rows, read by number. *)
At(s) == CHOOSE m \in Msg : Stored(db, m) /\ db[MsgRow(m)].seq = s

Entry(m) == [id |-> m, by |-> db[MsgRow(m)].by, refused |-> db[MsgRow(m)].invalid]

Talk == INSTANCE TalkLog
        WITH mode    <- Mode,
             log     <- [s \in 1..db[SeqRow] |-> Entry(At(s))],
             revoked <- {m \in Msg : db[MsgRow(m)].state = "revoked"},
             erased  <- {e \in User \X Msg : db[EraseRow(e[1], e[2])]},
             session <- [u \in User |-> db[SessionRow(u)].state],
             unread  <- [u \in User |-> db[SessionRow(u)].unread],
             told    <- pushed

(* Each call is one step of the talk, taken when its transaction commits,  *)
(* whatever statements it consists of, whatever runs at the same time and  *)
(* whichever of its statements fail: the log only grows, a call that is    *)
(* refused leaves nothing behind, and who is told of a message, whose      *)
(* counter goes up and what a clear deletes is what the log says then.     *)
KeepsTalk == Talk!Spec

(* A message leaves the talk of a user only by a call: one that was        *)
(* revoked or that the user deleted never comes back, nor does its number  *)
(* change (no call clears is_revoked or im_message_user_delete).           *)
GoneForGood == [][ \A m \in Msg :
        /\ db[MsgRow(m)].state = "revoked" => db'[MsgRow(m)].state = "revoked"
        /\ \A u \in User : db[EraseRow(u, m)] => db'[EraseRow(u, m)]
        /\ Stored(db, m) => db'[MsgRow(m)].seq = db[MsgRow(m)].seq ]_vars

(* The next statement of o gets the locks it needs. *)
Free(o) ==
    LET u == op[o].user
        m == op[o].msg
    IN \/ pc[o] \in {"list", "commit", "push"}
       \/ pc[o] = "talk" /\ CanWrite(o, {TalkRow})
       \/ pc[o] = "insert" /\ (Stored(db, m) \/ CanWrite(o, {MsgRow(m), SeqRow}))
       \/ pc[o] = "mine" /\ CanWrite(o, {SessionRow(u)})
       \/ pc[o] = "theirs" /\ CanWrite(o, {SessionRow(Other(u))})
       \/ pc[o] = "bump" /\ CanWrite(o, DOMAIN Hidden(o) \cup Sessions)
       \/ /\ pc[o] = "mark"
          /\ \/ op[o].kind = "revoke" /\ CanWrite(o, {MsgRow(m)})
             \/ op[o].kind = "delete" /\ CanWrite(o, {EraseRow(u, m)}) /\ CanShare(o, {MsgRow(m)})
             \/ op[o].kind \in {"clear", "wipe"} /\ CanWrite(o, DOMAIN Erased(o)) /\ CanShare(o, Messages)
       \/ /\ pc[o] = "apply"
          /\ \/ DOMAIN plan[o] = {}
             \/ \E v \in DOMAIN plan[o] :
                  /\ CanWrite(o, {SessionRow(v)})
                  /\ plan[o][v] # NoMsg => CanShare(o, {MsgRow(plan[o][v])})

(* Sends, deletions, clears and reads never block each other for ever: the *)
(* locks of their transactions are taken in an order that has no cycle, so *)
(* that as long as some of them run one of them gets its next lock.        *)
(* Revocations take them in another order, and are left to the server.     *)
NoDeadlock ==
    LET running == {o \in Op : pc[o] \notin Ended}
    IN running # {} /\ (\A o \in running : op[o].kind # "revoke") =>
           \E o \in running : Free(o)
=============================================================================
