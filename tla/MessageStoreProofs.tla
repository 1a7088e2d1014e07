-------------------------- MODULE MessageStoreProofs --------------------------
(***************************************************************************)
(* Proofs about MessageStore for any users, messages and calls.            *)
(***************************************************************************)
EXTENDS MessageStore, FiniteSetTheorems, SequenceTheorems, TLAPS

------------------------------------------------------------------------------
(* Rows *)

(* Rows written over others. *)
LEMMA OverIs ==
  ASSUME NEW new, NEW old
  PROVE  /\ DOMAIN Over(new, old) = DOMAIN new \cup DOMAIN old
         /\ \A r \in DOMAIN new : Over(new, old)[r] = new[r]
         /\ \A r \in DOMAIN old \ DOMAIN new : Over(new, old)[r] = old[r]
BY DEF Over

LEMMA PutIs == ASSUME NEW r, NEW v PROVE DOMAIN Put(r, v) = {r} /\ Put(r, v)[r] = v
BY DEF Put

(* Each row comes from one of the two. *)
LEMMA OverFrom ==
  ASSUME NEW new, NEW old
  PROVE  \A r \in DOMAIN Over(new, old) :
            (r \in DOMAIN new /\ Over(new, old)[r] = new[r])
         \/ (r \in DOMAIN old /\ r \notin DOMAIN new /\ Over(new, old)[r] = old[r])
BY DEF Over

LEMMA NothingIs == DOMAIN <<>> = {}
OBVIOUS

(* The rows of different tables, messages and users differ. *)
LEMMA RowsDiffer ==
  /\ \A m, n : MsgRow(m) = MsgRow(n) => m = n
  /\ \A u, v : SessionRow(u) = SessionRow(v) => u = v
  /\ \A u, v, m, n : EraseRow(u, m) = EraseRow(v, n) => u = v /\ m = n
  /\ \A u, m : MsgRow(m) \notin {TalkRow, SeqRow} /\ SessionRow(u) \notin {TalkRow, SeqRow}
  /\ \A u, m, n : EraseRow(u, m) \notin {TalkRow, SeqRow, MsgRow(n)}
  /\ \A u, v, m : SessionRow(u) \notin {MsgRow(m), EraseRow(v, m)}
  /\ TalkRow # SeqRow
BY DEF MsgRow, SessionRow, EraseRow, TalkRow, SeqRow

LEMMA RowIs ==
  /\ TalkRow \in Row /\ SeqRow \in Row
  /\ Messages \subseteq Row /\ Sessions \subseteq Row /\ Erases \subseteq Row
  /\ \A m \in Msg : MsgRow(m) \in Messages
  /\ \A u \in User : SessionRow(u) \in Sessions
  /\ \A u \in User, m \in Msg : EraseRow(u, m) \in Erases
  /\ \A r \in Messages : \E m \in Msg : r = MsgRow(m)
  /\ \A r \in Sessions : \E u \in User : r = SessionRow(u)
  /\ \A r \in Erases : \E u \in User, m \in Msg : r = EraseRow(u, m)
  /\ \A r \in Row : r \in {TalkRow, SeqRow} \/ r \in Messages \/ r \in Sessions \/ r \in Erases
BY DEF Row, Messages, Sessions, Erases

(* Each row belongs to one table. *)
LEMMA TablesDiffer ==
  /\ TalkRow \notin Messages \cup Sessions \cup Erases
  /\ SeqRow \notin Messages \cup Sessions \cup Erases
  /\ Messages \cap Sessions = {} /\ Messages \cap Erases = {} /\ Sessions \cap Erases = {}
BY RowsDiffer, RowIs
------------------------------------------------------------------------------
(* Types *)

Places == Ended \cup {"talk", "insert", "mine", "theirs", "bump", "push",
                      "mark", "list", "apply", "commit"}
Call   == [kind : {"none", "send", "revoke", "delete", "clear", "wipe"}, user : User,
           msg : Msg \cup {NoMsg}, deliver : BOOLEAN]

There(d) == {m \in Msg : MsgRow(m) \in DOMAIN d /\ Stored(d, m)}

(* Rows with values of their types, finitely many messages among them. *)
Typed(d) ==
  /\ DOMAIN d \subseteq Row
  /\ IsFiniteSet(There(d))
  /\ \A r \in DOMAIN d : /\ r \in Messages => d[r] \in Message
                         /\ r \in Sessions => d[r] \in Session
                         /\ r \in Erases   => d[r] \in BOOLEAN
                         /\ r = TalkRow  => d[r] \in Modes
                         /\ r = SeqRow   => d[r] \in Nat

(* What a call is at each place: a message that is sent, revoked or        *)
(* deleted, and a receiver in a single talk only.                          *)
About(o) ==
  /\ op[o].kind \in {"send", "revoke", "delete"} => op[o].msg \in Msg
  /\ pc[o] \in {"talk", "insert", "mine", "theirs", "bump", "push"} => op[o].kind = "send"
  /\ pc[o] \in {"mark", "apply"} => op[o].kind \in {"revoke", "delete", "clear", "wipe"}
  /\ pc[o] = "list" => op[o].kind \in {"revoke", "delete"}
  /\ pc[o] \in {"mine", "theirs"} \/ ~op[o].deliver => Mode = "single"
  /\ TalkRow \in Written(o) => own[o][TalkRow] = Mode

(* The rows to write are those of users. *)
Planned(o) == /\ DOMAIN plan[o] \subseteq User
              /\ \A u \in DOMAIN plan[o] : plan[o][u] \in Msg \cup {NoMsg}

(* A call that is not in a transaction has no locks. *)
Unlocked(o) == pc[o] \in Ended \cup {"push", "talk", "mark"} => Written(o) = {} /\ shared[o] = {}

TypeInv ==
  /\ DOMAIN db = Row /\ Typed(db)
  /\ DOMAIN own = Op /\ DOMAIN plan = Op
  /\ shared \in [Op -> SUBSET Row]
  /\ op \in [Op -> Call] /\ pc \in [Op -> Places]
  /\ \A o \in Op : Typed(own[o]) /\ About(o) /\ Planned(o) /\ Unlocked(o)
  /\ pushed \subseteq User \X Msg

(* The rows to begin with. *)
LEMMA InitRows ==
  ASSUME Init
  PROVE  /\ DOMAIN db = Row
         /\ \A r \in Messages : db[r] \in Message /\ db[r].state = "none"
         /\ \A r \in Sessions : db[r] \in Session /\ db[r].unread = 0 /\ db[r].last = NoMsg
         /\ \A r \in Erases : db[r] = FALSE
         /\ db[TalkRow] \in Modes /\ db[SeqRow] = 0
<1> USE DEF Init
<1>1. PICK mode \in Modes :
        LET someone == CHOOSE u \in User : TRUE
            blank   == [seq |-> 0, by |-> someone, state |-> "none", invalid |-> FALSE]
            fresh   == [state |-> IF mode = "group" THEN "alive" ELSE "none",
                        last |-> NoMsg, unread |-> 0]
        IN db = [r \in Row |-> CASE r \in Messages -> blank
                                 [] r \in Sessions -> fresh
                                 [] r \in Erases   -> FALSE
                                 [] r = TalkRow    -> mode
                                 [] r = SeqRow     -> 0]
  OBVIOUS
<1>2. (CHOOSE u \in User : TRUE) \in User
  BY UserAssumption
<1>3. DOMAIN db = Row
  BY <1>1
<1>4. \A r \in Messages : db[r] \in Message /\ db[r].state = "none"
  BY <1>1, <1>2, RowIs, TablesDiffer DEF Message
<1>5. \A r \in Sessions : db[r] \in Session /\ db[r].unread = 0 /\ db[r].last = NoMsg
  BY <1>1, RowIs, TablesDiffer DEF Session
<1>6. \A r \in Erases : db[r] = FALSE
  BY <1>1, RowIs, TablesDiffer
<1>7. db[TalkRow] \in Modes /\ db[SeqRow] = 0
  BY <1>1, RowIs, TablesDiffer, RowsDiffer
<1> QED BY <1>3, <1>4, <1>5, <1>6, <1>7

LEMMA TypeInit == Init => TypeInv
<1> SUFFICES ASSUME Init PROVE TypeInv
  OBVIOUS
<1>1. DOMAIN db = Row /\ db[TalkRow] \in Modes /\ db[SeqRow] = 0
  BY InitRows
<1>2. (CHOOSE u \in User : TRUE) \in User
  BY UserAssumption
<1>8. Typed(db)
  <2>1. There(db) = {}
    BY InitRows, RowIs DEF There, Stored
  <2>2. \A r \in Erases : db[r] \in BOOLEAN
    BY InitRows
  <2> QED BY <1>1, <2>1, <2>2, InitRows, FS_EmptySet DEF Typed
<1>9. \A o \in Op : own[o] = <<>> /\ shared[o] = {} /\ plan[o] = <<>> /\ pc[o] = "idle"
  BY DEF Init
<1>10. op \in [Op -> Call] /\ \A o \in Op : op[o].kind = "none" /\ op[o].deliver
  BY <1>2 DEF Init, Call
<1>11. \A o \in Op : Typed(own[o]) /\ About(o) /\ Planned(o) /\ Unlocked(o)
  <2>1. Typed(<<>>)
    BY NothingIs, FS_EmptySet DEF Typed, There
  <2> QED BY <2>1, <1>9, <1>10, NothingIs DEF About, Planned, Unlocked, Written
<1>12. pc \in [Op -> Places] /\ shared \in [Op -> SUBSET Row] /\ DOMAIN own = Op /\ DOMAIN plan = Op
  BY DEF Init, Places, Ended
<1>13. pushed = {}
  BY DEF Init
<1> QED BY <1>1, <1>8, <1>10, <1>11, <1>12, <1>13 DEF TypeInv

(* In a single talk a user has a peer. *)
LEMMA OtherIs == ASSUME Mode = "single", Mode \in Modes, NEW u \in User PROVE Other(u) \in User
<1>1. Cardinality(User) = 2 /\ IsFiniteSet(User)
  BY UserAssumption
<1>2. User # {u}
  BY <1>1, FS_Singleton
<1> QED BY <1>2 DEF Other

LEMMA OverTyped ==
  ASSUME NEW a, NEW b, Typed(a), Typed(b)
  PROVE  Typed(Over(a, b))
<1>1. \A r \in DOMAIN Over(a, b) : (r \in DOMAIN a /\ Over(a, b)[r] = a[r])
                                  \/ (r \in DOMAIN b /\ Over(a, b)[r] = b[r])
  BY OverFrom
<1>2. DOMAIN Over(a, b) \subseteq Row
  BY OverIs DEF Typed
<1>3. IsFiniteSet(There(Over(a, b)))
  <2>1. There(Over(a, b)) \subseteq There(a) \cup There(b)
    BY <1>1 DEF There, Stored
  <2>2. IsFiniteSet(There(a) \cup There(b))
    BY FS_Union DEF Typed
  <2> QED BY <2>1, <2>2, FS_Subset
<1> QED BY <1>1, <1>2, <1>3 DEF Typed

(* What a statement sees is typed. *)
LEMMA ViewTyped ==
  ASSUME TypeInv, NEW o \in Op
  PROVE  /\ DOMAIN View(o) = Row /\ Typed(View(o))
         /\ \A m \in Msg : View(o)[MsgRow(m)] \in Message
         /\ \A u \in User : View(o)[SessionRow(u)] \in Session
         /\ View(o)[SeqRow] \in Nat
<1> DEFINE mine == own[o]
           base == db
           seen == Over(mine, base)
<1>1. DOMAIN mine \subseteq Row /\ DOMAIN base = Row /\ Typed(mine) /\ Typed(base)
  BY DEF TypeInv, Typed
<1>2. View(o) = seen
  BY DEF View
<1> HIDE DEF mine, base
<1>3. DOMAIN seen = Row
  BY <1>1, OverIs
<1>4. Typed(seen)
  BY <1>1, OverTyped
<1> HIDE DEF seen
<1> QED BY <1>2, <1>3, <1>4, RowIs DEF Typed

(* A statement that writes rows. *)
LEMMA WriteTyped ==
  ASSUME TypeInv, NEW o \in Op, NEW change, Typed(change), Write(o, change)
  PROVE  /\ DOMAIN own' = Op
         /\ own'[o] = Over(change, own[o])
         /\ \A p \in Op : Typed(own'[p]) /\ (p # o => own'[p] = own[p])
BY OverTyped DEF Write, TypeInv

LEMMA PutTyped ==
  /\ \A m \in Msg : \A v \in Message : Typed(Put(MsgRow(m), v))
  /\ \A u \in User : \A v \in Session : Typed(Put(SessionRow(u), v))
  /\ \A u \in User, m \in Msg : Typed(Put(EraseRow(u, m), TRUE))
  /\ \A v \in Nat : Typed(Put(SeqRow, v))
  /\ \A v \in Modes : Typed(Put(TalkRow, v))
  /\ Typed(<<>>)
<1>1. ASSUME NEW r \in Row, NEW v,
             r \in Messages => v \in Message, r \in Sessions => v \in Session,
             r \in Erases => v \in BOOLEAN, r = TalkRow => v \in Modes, r = SeqRow => v \in Nat
      PROVE  Typed(Put(r, v))
  <2>1. DOMAIN Put(r, v) = {r} /\ Put(r, v)[r] = v
    BY PutIs
  <2>2. IsFiniteSet(There(Put(r, v)))
    <3>1. ASSUME NEW m \in There(Put(r, v)), NEW n \in There(Put(r, v)) PROVE m = n
      BY <2>1, RowsDiffer DEF There
    <3>2. There(Put(r, v)) = {} \/ \E m : There(Put(r, v)) = {m}
      BY <3>1
    <3> QED BY <3>2, FS_EmptySet, FS_Singleton
  <2> QED BY <1>1, <2>1, <2>2 DEF Typed
<1>2. \A m \in Msg : \A v \in Message : Typed(Put(MsgRow(m), v))
  BY <1>1, RowIs, TablesDiffer
<1>3. \A u \in User : \A v \in Session : Typed(Put(SessionRow(u), v))
  BY <1>1, RowIs, TablesDiffer
<1>4. \A u \in User, m \in Msg : Typed(Put(EraseRow(u, m), TRUE))
  BY <1>1, RowIs, TablesDiffer
<1>5. \A v \in Nat : Typed(Put(SeqRow, v))
  BY <1>1, RowIs, TablesDiffer, RowsDiffer
<1>6. \A v \in Modes : Typed(Put(TalkRow, v))
  BY <1>1, RowIs, TablesDiffer, RowsDiffer
<1>7. Typed(<<>>)
  BY NothingIs, FS_EmptySet DEF Typed, There
<1> QED BY <1>2, <1>3, <1>4, <1>5, <1>6, <1>7

(* A step of the call o leaves the other calls alone. *)
Others(o) ==
  /\ DOMAIN own' = Op /\ DOMAIN plan' = Op
  /\ \A p \in Op \ {o} : own'[p] = own[p] /\ plan'[p] = plan[p]
  /\ shared' = [shared EXCEPT ![o] = shared'[o]]
  /\ op' = [op EXCEPT ![o] = op'[o]]
  /\ pc' = [pc EXCEPT ![o] = pc'[o]]

LEMMA TypeByCall ==
  ASSUME TypeInv, NEW o \in Op, Others(o),
         DOMAIN db' = Row, Typed(db'), db'[TalkRow] = db[TalkRow], pushed' \subseteq User \X Msg,
         Typed(own'[o]), shared'[o] \subseteq Row, op'[o] \in Call, pc'[o] \in Places,
         About(o)', Planned(o)', Unlocked(o)'
  PROVE  TypeInv'
<1>1. Mode' = Mode
  BY DEF Mode
<1>2. ASSUME NEW p \in Op
      PROVE  /\ shared'[p] \subseteq Row /\ op'[p] \in Call /\ pc'[p] \in Places
             /\ Typed(own'[p]) /\ About(p)' /\ Planned(p)' /\ Unlocked(p)'
  <2>1. CASE p = o
    BY <2>1
  <2>2. CASE p # o
    <3>1. /\ own'[p] = own[p] /\ shared'[p] = shared[p] /\ op'[p] = op[p]
          /\ pc'[p] = pc[p] /\ plan'[p] = plan[p]
      BY <2>2 DEF Others, TypeInv
    <3>2. /\ shared[p] \subseteq Row /\ op[p] \in Call /\ pc[p] \in Places
          /\ Typed(own[p]) /\ About(p) /\ Planned(p) /\ Unlocked(p)
      BY DEF TypeInv
    <3>3. About(p)' /\ Planned(p)' /\ Unlocked(p)'
      BY <1>1, <3>1, <3>2 DEF About, Planned, Unlocked, Written
    <3> QED BY <3>1, <3>2, <3>3
  <2> QED BY <2>1, <2>2
<1>3. shared' \in [Op -> SUBSET Row] /\ op' \in [Op -> Call] /\ pc' \in [Op -> Places]
  BY <1>2 DEF TypeInv, Others
<1> QED BY <1>2, <1>3 DEF TypeInv, Others

(* A statement that writes some rows or none, and may share-lock others. *)
LEMMA TypeWrites ==
  ASSUME TypeInv, NEW o \in Op, NEW change, Typed(change), Write(o, change), UNCHANGED <<db, pushed>>,
         Others(o), op'[o] \in Call, pc'[o] \in Places \ (Ended \cup {"push", "talk", "mark"}),
         shared'[o] \subseteq Row, Planned(o)',
         op'[o].kind \in {"send", "revoke", "delete"} => op'[o].msg \in Msg,
         pc'[o] \in {"insert", "mine", "theirs", "bump"} => op'[o].kind = "send",
         pc'[o] = "apply" => op'[o].kind \in {"revoke", "delete", "clear", "wipe"},
         pc'[o] = "list" => op'[o].kind \in {"revoke", "delete"},
         pc'[o] \in {"mine", "theirs"} \/ ~op'[o].deliver => Mode = "single",
         TalkRow \in DOMAIN change => change[TalkRow] = Mode
  PROVE  TypeInv'
<1>1. Typed(own'[o]) /\ own'[o] = Over(change, own[o])
  BY WriteTyped
<1>2. TalkRow \in DOMAIN own'[o] => own'[o][TalkRow] = Mode
  <2>1. TalkRow \in Written(o) => own[o][TalkRow] = Mode
    BY DEF TypeInv, About
  <2>2. TalkRow \in DOMAIN own'[o] =>
            (TalkRow \in DOMAIN change /\ own'[o][TalkRow] = change[TalkRow])
         \/ (TalkRow \in Written(o) /\ own'[o][TalkRow] = own[o][TalkRow])
    BY <1>1, OverFrom DEF Written
  <2> QED BY <2>1, <2>2
<1>3. Mode' = Mode
  BY DEF Mode
<1>4. About(o)' /\ Unlocked(o)'
  BY <1>2, <1>3 DEF About, Unlocked, Written
<1>5. DOMAIN db' = Row /\ Typed(db') /\ db'[TalkRow] = db[TalkRow] /\ pushed' \subseteq User \X Msg
  BY DEF TypeInv
<1> QED BY <1>1, <1>4, <1>5, TypeByCall

(* A step that writes nothing. *)
LEMMA TypeReads ==
  ASSUME TypeInv, NEW o \in Op, UNCHANGED <<db, own, shared, op>>, Others(o),
         pc'[o] \in Places, Planned(o)', pushed' \subseteq User \X Msg,
         pc'[o] \in {"insert", "mine", "theirs", "bump", "push"} => op[o].kind = "send",
         pc'[o] = "apply" => op[o].kind \in {"revoke", "delete", "clear", "wipe"},
         pc'[o] \notin {"list", "mark", "talk"},
         pc'[o] \in {"mine", "theirs"} => Mode = "single",
         pc'[o] \in Ended \cup {"push"} => Written(o) = {} /\ shared[o] = {}
  PROVE  TypeInv'
<1>1. Typed(own'[o]) /\ shared'[o] \subseteq Row /\ op'[o] \in Call
  BY DEF TypeInv
<1>2. Mode' = Mode
  BY DEF Mode
<1>3. About(o)' /\ Unlocked(o)'
  <2>1. About(o)
    BY DEF TypeInv
  <2> QED BY <1>2, <2>1 DEF About, Unlocked, Written
<1>5. DOMAIN db' = Row /\ Typed(db') /\ db'[TalkRow] = db[TalkRow]
  BY DEF TypeInv
<1> QED BY <1>1, <1>3, <1>5, TypeByCall

(* The end of a call gives its locks back. *)
LEMMA TypeReleases ==
  ASSUME TypeInv, NEW o \in Op, Release(o), op' = op, Others(o),
         DOMAIN db' = Row, Typed(db'), db'[TalkRow] = db[TalkRow], pushed' = pushed,
         pc'[o] \in Places, Planned(o)',
         pc'[o] = "push" => op[o].kind = "send",
         pc'[o] \in Ended \cup {"push"}
  PROVE  TypeInv'
<1>1. own'[o] = <<>> /\ shared'[o] = {}
  BY DEF Release, TypeInv
<1>2. Mode' = Mode
  BY DEF Mode
<1>3. About(o)' /\ Unlocked(o)'
  <2>1. About(o)
    BY DEF TypeInv
  <2>2. Written(o)' = {}
    BY <1>1, NothingIs DEF Written
  <2> QED BY <1>1, <1>2, <2>1, <2>2 DEF About, Unlocked, Ended
<1>4. Typed(own'[o]) /\ shared'[o] \subseteq Row /\ op'[o] \in Call /\ pushed' \subseteq User \X Msg
  BY <1>1, PutTyped DEF TypeInv
<1> QED BY <1>3, <1>4, TypeByCall

(* A step that changes the place of o, and what it writes and plans. *)
LEMMA OthersAlone ==
  ASSUME TypeInv, NEW o \in Op,
         pc' = [pc EXCEPT ![o] = pc'[o]],
         own' = own \/ own' = [own EXCEPT ![o] = own'[o]],
         shared' = shared \/ shared' = [shared EXCEPT ![o] = shared'[o]],
         op' = op \/ op' = [op EXCEPT ![o] = op'[o]],
         plan' = plan \/ plan' = [plan EXCEPT ![o] = plan'[o]]
  PROVE  Others(o)
<1>1. DOMAIN own' = Op /\ \A p \in Op \ {o} : own'[p] = own[p]
  BY DEF TypeInv
<1>2. DOMAIN plan' = Op /\ \A p \in Op \ {o} : plan'[p] = plan[p]
  BY DEF TypeInv
<1>3. shared' = [shared EXCEPT ![o] = shared'[o]] /\ op' = [op EXCEPT ![o] = op'[o]]
  BY DEF TypeInv
<1> QED BY <1>1, <1>2, <1>3 DEF Others

LEMMA TypeBegin ==
  ASSUME TypeInv, NEW o \in Op, NEW k, NEW u \in User, NEW m,
         \/ k \in {"send", "revoke", "delete"} /\ m \in Msg
         \/ k \in {"clear", "wipe"} /\ m = NoMsg,
         Begin(o, k, u, m)
  PROVE  TypeInv'
<1>1. op'[o] = [kind |-> k, user |-> u, msg |-> m, deliver |-> TRUE] /\ pc'[o] = First(k) /\ pc[o] = "idle"
  BY DEF Begin, TypeInv
<1>2. Others(o)
  <2>1. /\ pc' = [pc EXCEPT ![o] = pc'[o]] /\ op' = [op EXCEPT ![o] = op'[o]]
        /\ own' = own /\ shared' = shared /\ plan' = plan
    BY <1>1 DEF Begin
  <2> QED BY <2>1, OthersAlone
<1>3. db' = db /\ own' = own /\ shared' = shared /\ plan' = plan /\ pushed' = pushed
  BY DEF Begin
<1>4. op'[o] \in Call /\ pc'[o] \in {"talk", "mark"} /\ pc'[o] \in Places /\ (pc'[o] = "talk" => k = "send")
      /\ (pc'[o] = "mark" => k # "send")
  BY <1>1 DEF Call, First, Places
<1>5. About(o) /\ Planned(o) /\ Unlocked(o) /\ Typed(own[o]) /\ shared[o] \subseteq Row
  BY DEF TypeInv
<1>6. Mode' = Mode
  BY <1>3 DEF Mode
<1>7. Written(o) = {} /\ shared[o] = {} /\ Written(o)' = {}
  BY <1>1, <1>3, <1>5 DEF Unlocked, Ended, Written
<1>8. About(o)' /\ Planned(o)' /\ Unlocked(o)'
  BY <1>1, <1>3, <1>4, <1>5, <1>7 DEF About, Planned, Unlocked
<1>9. DOMAIN db' = Row /\ Typed(db') /\ db'[TalkRow] = db[TalkRow] /\ pushed' \subseteq User \X Msg
  BY <1>3 DEF TypeInv
<1> QED BY <1>2, <1>3, <1>4, <1>5, <1>8, <1>9, TypeByCall

LEMMA TypeFindTalk == ASSUME TypeInv, NEW o \in Op, FindTalk(o) PROVE TypeInv'
<1>1. pc[o] = "talk" /\ pc'[o] = "insert" /\ op'[o] = op[o] /\ plan'[o] = plan[o] /\ shared'[o] = shared[o]
  BY DEF FindTalk, Step, TypeInv
<1>2. Others(o)
  <2>1. /\ pc' = [pc EXCEPT ![o] = pc'[o]] /\ op' = op /\ own' = [own EXCEPT ![o] = own'[o]]
        /\ shared' = shared /\ plan' = plan
    BY <1>1 DEF FindTalk, Step, Write, TypeInv
  <2> QED BY <2>1, OthersAlone
<1>3. About(o) /\ Planned(o) /\ shared[o] \subseteq Row /\ op[o] \in Call
  BY DEF TypeInv
<1>4. Mode \in Modes
  BY RowIs DEF Mode, TypeInv, Typed
<1> DEFINE change == Put(TalkRow, Mode)
<1>5. Typed(change) /\ Write(o, change) /\ change[TalkRow] = Mode
  BY <1>4, PutTyped, PutIs DEF FindTalk
<1>6. Planned(o)'
  BY <1>1, <1>3 DEF Planned
<1>7. /\ op[o].kind \in {"send", "revoke", "delete"} => op[o].msg \in Msg
      /\ op[o].kind = "send" /\ (~op[o].deliver => Mode = "single")
  BY <1>1, <1>3 DEF About
<1>8. UNCHANGED <<db, pushed>>
  BY DEF FindTalk
<1>9. pc'[o] \in Places \ (Ended \cup {"push", "talk", "mark"})
  BY <1>1 DEF Places, Ended
<1> HIDE DEF change
<1> QED BY <1>1, <1>2, <1>3, <1>5, <1>6, <1>7, <1>8, <1>9, TypeWrites

LEMMA TypeInsert == ASSUME TypeInv, NEW o \in Op, Insert(o) PROVE TypeInv'
<1> DEFINE m      == op[o].msg
           s      == View(o)[SeqRow] + 1
           row(d) == Put(MsgRow(m), [seq |-> s, by |-> op[o].user, state |-> "normal", invalid |-> ~d])
           change(d) == Over(row(d), Put(SeqRow, s))
<1>1. pc[o] = "insert" /\ pc'[o] = AfterInsert /\ plan'[o] = plan[o] /\ shared'[o] = shared[o]
  BY DEF Insert, Step, TypeInv
<1>2. PICK d \in IF Strangers /\ Mode = "single" THEN BOOLEAN ELSE {TRUE} :
         Write(o, change(d)) /\ op' = [op EXCEPT ![o].deliver = d]
  BY DEF Insert
<1>3. d \in BOOLEAN /\ (~d => Mode = "single")
  BY <1>2
<1>4. About(o) /\ Planned(o) /\ shared[o] \subseteq Row /\ op[o] \in Call
  BY DEF TypeInv
<1>5. op'[o] = [op[o] EXCEPT !.deliver = d] /\ op' = [op EXCEPT ![o] = op'[o]]
  BY <1>2 DEF TypeInv
<1>6. op'[o] \in Call /\ op'[o].kind = "send" /\ op[o].kind = "send" /\ op'[o].deliver = d
      /\ op'[o].msg = m /\ m \in Msg
  <2>1. op[o].kind = "send" /\ m \in Msg
    BY <1>1, <1>4 DEF About
  <2> HIDE DEF m
  <2>2. op'[o].kind = op[o].kind /\ op'[o].deliver = d /\ op'[o].msg = op[o].msg /\ op'[o].user = op[o].user
    BY <1>4, <1>5 DEF Call
  <2>3. op'[o] \in Call
    BY <1>3, <1>4, <1>5 DEF Call
  <2> QED BY <2>1, <2>2, <2>3 DEF m
<1>7. Others(o)
  <2>1. /\ pc' = [pc EXCEPT ![o] = pc'[o]] /\ own' = [own EXCEPT ![o] = own'[o]]
        /\ shared' = shared /\ plan' = plan
    BY <1>1, <1>2 DEF Insert, Step, Write, TypeInv
  <2> QED BY <2>1, <1>5, OthersAlone
<1>8. Typed(change(d)) /\ TalkRow \notin DOMAIN change(d)
  <2>1. s \in Nat /\ op[o].user \in User
    BY <1>4, ViewTyped DEF Call
  <2>2. [seq |-> s, by |-> op[o].user, state |-> "normal", invalid |-> ~d] \in Message
    BY <2>1 DEF Message
  <2>3. Typed(row(d)) /\ Typed(Put(SeqRow, s))
    BY <2>1, <2>2, <1>6, PutTyped
  <2>4. DOMAIN row(d) = {MsgRow(m)} /\ DOMAIN Put(SeqRow, s) = {SeqRow}
    BY PutIs
  <2>5. DOMAIN change(d) = {MsgRow(m)} \cup {SeqRow}
    <3> DEFINE one == row(d)
               two == Put(SeqRow, s)
    <3>1. DOMAIN one = {MsgRow(m)} /\ DOMAIN two = {SeqRow} /\ change(d) = Over(one, two)
      BY <2>4
    <3> HIDE DEF one, two, change, m
    <3> QED BY <3>1, OverIs
  <2>6. TalkRow \notin DOMAIN change(d)
    BY <2>5, RowsDiffer
  <2> QED BY <2>3, <2>6, OverTyped
<1>9. Planned(o)'
  BY <1>1, <1>4 DEF Planned
<1>10. pc'[o] \in {"mine", "bump"} /\ (pc'[o] = "mine" => Mode = "single") /\ pc'[o] \in Places \ (Ended \cup {"push", "talk", "mark"})
  BY <1>1 DEF AfterInsert, Places, Ended
<1>11. UNCHANGED <<db, pushed>>
  BY DEF Insert
<1> HIDE DEF m, change
<1> QED BY <1>1, <1>2, <1>3, <1>4, <1>6, <1>7, <1>8, <1>9, <1>10, <1>11, TypeWrites

(* What Step and Write do to the call o. *)
LEMMA Steps ==
  ASSUME TypeInv, NEW o \in Op, NEW from, NEW to, Step(o, from, to)
  PROVE  pc[o] = from /\ pc'[o] = to /\ pc' = [pc EXCEPT ![o] = pc'[o]]
BY DEF Step, TypeInv

LEMMA Writes ==
  ASSUME TypeInv, NEW o \in Op, NEW change, Write(o, change)
  PROVE  /\ own' = [own EXCEPT ![o] = own'[o]] /\ own'[o] = Over(change, own[o])
         /\ Written(o)' = DOMAIN change \cup Written(o)
         /\ \A r \in DOMAIN change : own'[o][r] = change[r]
         /\ \A r \in Written(o) \ DOMAIN change : own'[o][r] = own[o][r]
<1> DEFINE mine == own[o]
<1>1. own' = [own EXCEPT ![o] = own'[o]] /\ own'[o] = Over(change, mine)
  BY DEF Write, TypeInv
<1>2. Written(o) = DOMAIN mine /\ Written(o)' = DOMAIN own'[o]
  BY DEF Written
<1> HIDE DEF mine
<1>3. /\ DOMAIN Over(change, mine) = DOMAIN change \cup DOMAIN mine
      /\ \A r \in DOMAIN change : Over(change, mine)[r] = change[r]
      /\ \A r \in DOMAIN mine \ DOMAIN change : Over(change, mine)[r] = mine[r]
  BY OverIs
<1> QED BY <1>1, <1>2, <1>3 DEF mine

(* The rows that a call has written, for the steps that need no more. *)
LEMMA WritesRows ==
  ASSUME TypeInv, NEW o \in Op, NEW change, Write(o, change)
  PROVE  Written(o)' = DOMAIN change \cup Written(o)
BY Writes

LEMMA Shares ==
  ASSUME TypeInv, NEW o \in Op, NEW rows, Share(o, rows)
  PROVE  shared' = [shared EXCEPT ![o] = shared'[o]] /\ shared'[o] = shared[o] \cup rows
BY DEF Share, TypeInv

LEMMA TypeSession ==
  ASSUME TypeInv, NEW o \in Op, NEW u \in User, Write(o, Restored(o, u)), UNCHANGED <<db, shared, op, plan, pushed>>,
         pc' = [pc EXCEPT ![o] = pc'[o]], pc'[o] \in {"theirs", "bump"}, op[o].kind = "send",
         pc'[o] = "theirs" => Mode = "single"
  PROVE  TypeInv'
<1> DEFINE change == Restored(o, u)
<1>1. Others(o)
  BY Writes, OthersAlone
<1>2. About(o) /\ Planned(o) /\ shared[o] \subseteq Row /\ op[o] \in Call
  BY DEF TypeInv
<1>3. [View(o)[SessionRow(u)] EXCEPT !.state = "alive"] \in Session
  BY ViewTyped DEF Session
<1>4. Typed(change) /\ TalkRow \notin DOMAIN change
  <2> DEFINE s == [View(o)[SessionRow(u)] EXCEPT !.state = "alive"]
             r == SessionRow(u)
  <2>1. change = Put(r, s) /\ Typed(Put(r, s)) /\ r # TalkRow
    BY <1>3, PutTyped, RowsDiffer DEF Restored
  <2> HIDE DEF change, s, r
  <2>2. DOMAIN Put(r, s) = {r}
    BY PutIs
  <2> QED BY <2>1, <2>2
<1>5. Planned(o)'
  BY <1>2 DEF Planned
<1>6. /\ op[o].kind \in {"send", "revoke", "delete"} => op[o].msg \in Msg
      /\ (~op[o].deliver => Mode = "single")
  BY <1>2 DEF About
<1>7. pc'[o] \in Places \ (Ended \cup {"push", "talk", "mark"})
  BY DEF Places, Ended
<1> HIDE DEF change
<1> QED BY <1>1, <1>2, <1>4, <1>5, <1>6, <1>7, TypeWrites DEF change

LEMMA TypeSenderSession == ASSUME TypeInv, NEW o \in Op, SenderSession(o) PROVE TypeInv'
<1> DEFINE to == IF op[o].deliver THEN "theirs" ELSE "bump"
<1>1. pc[o] = "mine" /\ pc'[o] = to /\ pc' = [pc EXCEPT ![o] = pc'[o]]
  BY Steps DEF SenderSession
<1>2. op[o].kind = "send" /\ op[o].user \in User /\ Mode = "single"
  BY <1>1 DEF TypeInv, About, Call
<1> QED BY <1>1, <1>2, TypeSession DEF SenderSession

LEMMA TypeReceiverSession == ASSUME TypeInv, NEW o \in Op, ReceiverSession(o) PROVE TypeInv'
<1>1. pc[o] = "theirs" /\ pc'[o] = "bump" /\ pc' = [pc EXCEPT ![o] = pc'[o]]
  BY Steps DEF ReceiverSession
<1>2. op[o].kind = "send" /\ op[o].user \in User /\ Mode = "single"
  BY <1>1 DEF TypeInv, About, Call
<1>3. Mode \in Modes
  BY RowIs DEF Mode, TypeInv, Typed
<1>4. Other(op[o].user) \in User
  BY <1>2, <1>3, OtherIs
<1> QED BY <1>1, <1>2, <1>4, TypeSession DEF ReceiverSession

LEMMA TypeSessionFails == ASSUME TypeInv, NEW o \in Op, SessionFails(o) PROVE TypeInv'
<1>1. pc[o] \in {"mine", "theirs"} /\ pc'[o] \in {"theirs", "bump"} /\ pc' = [pc EXCEPT ![o] = pc'[o]]
  BY Steps DEF SessionFails
<1>2. op[o].kind = "send" /\ Mode = "single"
  BY <1>1 DEF TypeInv, About
<1>3. UNCHANGED <<db, own, shared, op, plan, pushed>>
  BY DEF SessionFails
<1>4. Others(o)
  BY <1>1, <1>3, OthersAlone
<1>5. Planned(o)' /\ pushed' \subseteq User \X Msg
  BY <1>3 DEF TypeInv, Planned
<1> QED BY <1>1, <1>2, <1>3, <1>4, <1>5, TypeReads DEF Places, Ended

(* What bumpOnNewMessage writes. *)
Bumps(o) == [r \in Sessions |->
               LET u == CHOOSE v \in User : r = SessionRow(v)
               IN Bumped(o, SessionsNow(o, u), u, u # op[o].user)]

LEMMA BumpsIs ==
  ASSUME NEW o \in Op
  PROVE  /\ DOMAIN Bumps(o) = Sessions
         /\ \A u \in User : Bumps(o)[SessionRow(u)] = Bumped(o, SessionsNow(o, u), u, u # op[o].user)
<1>1. ASSUME NEW u \in User
      PROVE  SessionRow(u) \in Sessions /\ (CHOOSE v \in User : SessionRow(u) = SessionRow(v)) = u
  BY RowIs, RowsDiffer
<1> QED BY <1>1 DEF Bumps

LEMMA BumpedTyped ==
  ASSUME TypeInv, NEW o \in Op, op[o].msg \in Msg, NEW u \in User, NEW count \in BOOLEAN
  PROVE  Bumped(o, SessionsNow(o, u), u, count) \in Session
<1> DEFINE s == SessionsNow(o, u)
<1>1. s \in Session
  BY ViewTyped DEF SessionsNow
<1> HIDE DEF s
<1>2. s.unread \in Nat /\ s.unread + 1 \in Nat
  BY <1>1 DEF Session
<1>3. CASE s.state = "alive"
  <2> DEFINE n == IF count THEN s.unread + 1 ELSE s.unread
  <2>1. n \in Nat
    BY <1>2
  <2>2. Bumped(o, s, u, count) = [s EXCEPT !.last = op[o].msg, !.unread = n]
    BY <1>1, <1>3 DEF Bumped, Session
  <2> HIDE DEF n
  <2>3. [s EXCEPT !.last = op[o].msg, !.unread = n] \in Session
    BY <1>1, <2>1 DEF Session
  <2> QED BY <2>2, <2>3 DEF s
<1>4. CASE s.state # "alive"
  BY <1>1, <1>4 DEF Bumped, s
<1> QED BY <1>3, <1>4

(* What a message that is not delivered writes: rows of the receiver. *)
LEMMA HiddenIs ==
  ASSUME TypeInv, NEW o \in Op, op[o].msg \in Msg
  PROVE  /\ Typed(Hidden(o)) /\ DOMAIN Hidden(o) \subseteq Erases
         /\ \A r \in DOMAIN Hidden(o) : Hidden(o)[r] = TRUE
<1>1. CASE op[o].deliver
  BY <1>1, PutTyped, NothingIs DEF Hidden
<1>2. CASE ~op[o].deliver
  <2>1. Mode = "single" /\ op[o].user \in User
    BY <1>2 DEF TypeInv, About, Call
  <2>2. Other(op[o].user) \in User
    BY <2>1, OtherIs, RowIs DEF Mode, TypeInv, Typed
  <2>3. Hidden(o) = Put(EraseRow(Other(op[o].user), op[o].msg), TRUE)
    BY <1>2 DEF Hidden
  <2> DEFINE r == EraseRow(Other(op[o].user), op[o].msg)
  <2>4. r \in Erases /\ Typed(Put(r, TRUE))
    BY <2>2, RowIs, PutTyped
  <2>5. Hidden(o) = Put(r, TRUE)
    BY <2>3
  <2> HIDE DEF r
  <2>6. DOMAIN Put(r, TRUE) = {r} /\ Put(r, TRUE)[r] = TRUE
    BY PutIs
  <2>7. Typed(Hidden(o)) /\ DOMAIN Hidden(o) = {r}
    BY <2>4, <2>5, <2>6
  <2>8. Hidden(o)[r] = TRUE
    BY <2>5, <2>6
  <2> QED BY <2>4, <2>7, <2>8
<1> QED BY <1>1, <1>2

LEMMA TypeBump == ASSUME TypeInv, NEW o \in Op, Bump(o) PROVE TypeInv'
<1> DEFINE change == Over(Hidden(o), Bumps(o))
<1>1. pc[o] = "bump" /\ pc'[o] = "commit" /\ pc' = [pc EXCEPT ![o] = pc'[o]]
  BY Steps DEF Bump
<1>2. UNCHANGED <<db, shared, op, plan, pushed>> /\ Write(o, change)
  BY DEF Bump, Bumps
<1>3. Others(o)
  BY <1>1, <1>2, Writes, OthersAlone
<1>4. About(o) /\ Planned(o) /\ shared[o] \subseteq Row /\ op[o] \in Call
  BY DEF TypeInv
<1>5. op[o].kind = "send" /\ op[o].msg \in Msg /\ (~op[o].deliver => Mode = "single")
  BY <1>1, <1>4 DEF About
<1>6. Typed(Bumps(o))
  <2>1. \A r \in Sessions : Bumps(o)[r] \in Session
    <3>1. ASSUME NEW u \in User PROVE Bumps(o)[SessionRow(u)] \in Session
      <4>1. (u # op[o].user) \in BOOLEAN
        OBVIOUS
      <4> QED BY <1>5, <4>1, BumpsIs, BumpedTyped
    <3> QED BY <3>1, RowIs
  <2>2. There(Bumps(o)) = {}
    BY BumpsIs, RowIs, TablesDiffer DEF There
  <2> QED BY <2>1, <2>2, BumpsIs, RowIs, TablesDiffer, FS_EmptySet DEF Typed
<1>7. Typed(change)
  BY <1>5, <1>6, HiddenIs, OverTyped
<1>8. TalkRow \notin DOMAIN change
  <2> DEFINE one == Hidden(o)
             two == Bumps(o)
  <2>1. DOMAIN one \subseteq Erases /\ DOMAIN two = Sessions
    BY <1>5, HiddenIs, BumpsIs
  <2> HIDE DEF one, two
  <2>2. DOMAIN Over(one, two) = DOMAIN one \cup DOMAIN two
    BY OverIs
  <2> QED BY <2>1, <2>2, TablesDiffer DEF one, two
<1>9. Planned(o)'
  BY <1>2, <1>4 DEF Planned
<1> HIDE DEF change
<1> QED BY <1>1, <1>2, <1>3, <1>4, <1>5, <1>7, <1>8, <1>9, TypeWrites DEF Places, Ended

LEMMA TypePush == ASSUME TypeInv, NEW o \in Op, Push(o) PROVE TypeInv'
<1>1. pc[o] = "push" /\ pc'[o] = "done" /\ pc' = [pc EXCEPT ![o] = pc'[o]]
  BY Steps DEF Push
<1>2. UNCHANGED <<db, own, shared, op, plan>>
  BY DEF Push
<1>3. Others(o)
  BY <1>1, <1>2, OthersAlone
<1>4. About(o) /\ Unlocked(o) /\ Planned(o) /\ op[o] \in Call /\ pushed \subseteq User \X Msg
  BY DEF TypeInv
<1>5. op[o].msg \in Msg /\ op[o].user \in User
  BY <1>1, <1>4 DEF About, Call
<1>6. Mode \in Modes
  BY RowIs DEF Mode, TypeInv, Typed
<1>7. pushed' \subseteq User \X Msg
  <2>1. Mode = "group" \/ Mode = "single"
    BY <1>6, ModeAssumption
  <2>2. Mode = "single" => Other(op[o].user) \in User
    BY <1>5, <1>6, OtherIs
  <2> QED BY <1>4, <1>5, <2>1, <2>2 DEF Push
<1>8. Planned(o)' /\ Written(o) = {} /\ shared[o] = {}
  BY <1>1, <1>2, <1>4 DEF Planned, Unlocked
<1> QED BY <1>1, <1>2, <1>3, <1>7, <1>8, TypeReads DEF Places, Ended

(* Among finitely many numbered things one has the largest number. *)
LEMMA Largest ==
  ASSUME NEW S, IsFiniteSet(S), S # {}, NEW f \in [S -> Nat]
  PROVE  \E m \in S : \A n \in S : f[n] <= f[m]
<1> DEFINE up(m) == {n \in S : f[m] <= f[n]}
           Ups   == {up(m) : m \in S}
           R     == StrictSubsetOrdering(S)
<1>1. IsWellFoundedOn(R, FiniteSubsetsOf(S))
  BY FS_StrictSubsetOrderingWellFounded
<1>2. Ups \subseteq FiniteSubsetsOf(S) /\ Ups # {}
  <2>1. FiniteSubsetsOf(S) = SUBSET S
    BY FS_FiniteSubsetsOfFinite
  <2>2. \A m \in S : up(m) \in SUBSET S
    OBVIOUS
  <2>3. Ups \subseteq SUBSET S
    BY <2>2
  <2>4. Ups # {}
    <3>1. PICK m \in S : TRUE
      OBVIOUS
    <3>2. up(m) \in Ups
      OBVIOUS
    <3> QED BY <3>2
  <2> QED BY <2>1, <2>3, <2>4
<1>3. PICK x \in Ups : \A y \in Ups : ~(<<y, x>> \in R)
  <2> HIDE DEF Ups, R
  <2> QED BY <1>1, <1>2, WFMin
<1>4. PICK m \in S : x = up(m)
  BY <1>3
<1>5. ASSUME NEW n \in S, ~(f[n] <= f[m]) PROVE FALSE
  <2>1. f[m] \in Nat /\ f[n] \in Nat /\ f[m] < f[n]
    BY <1>5
  <2>2. ASSUME NEW k \in up(n) PROVE k \in up(m)
    <3>1. k \in S /\ f[k] \in Nat /\ f[n] <= f[k]
      BY <2>2
    <3> QED BY <2>1, <3>1
  <2>3. m \in up(m) /\ m \notin up(n)
    BY <2>1
  <2>4. up(n) \in Ups /\ <<up(n), x>> \in R
    BY <1>4, <2>2, <2>3 DEF StrictSubsetOrdering
  <2> QED BY <1>3, <2>4
<1> QED BY <1>5

(* The newest message of a user. *)
LEMMA NewestIs ==
  ASSUME NEW d, Typed(d), DOMAIN d = Row, NEW u \in User
  PROVE  /\ Visible(d, u) = {} => Newest(d, u) = NoMsg
         /\ Visible(d, u) # {} =>
              /\ Newest(d, u) \in Visible(d, u)
              /\ \A n \in Visible(d, u) : d[MsgRow(n)].seq <= d[MsgRow(Newest(d, u))].seq
<1> DEFINE S == Visible(d, u)
           f == [m \in S |-> d[MsgRow(m)].seq]
<1>1. S \subseteq There(d) /\ S \subseteq Msg
  BY RowIs DEF Visible, There, Stored
<1>2. IsFiniteSet(S)
  BY <1>1, FS_Subset DEF Typed
<1>3. f \in [S -> Nat]
  <2>1. \A m \in S : d[MsgRow(m)].seq \in Nat
    BY <1>1, RowIs DEF Typed, Message
  <2> QED BY <2>1
<1>4. S # {} => \E m \in S : \A n \in S : f[n] <= f[m]
  <2> HIDE DEF S, f
  <2> QED BY <1>2, <1>3, Largest
<1>5. S # {} => \E m \in S : \A n \in S : d[MsgRow(n)].seq <= d[MsgRow(m)].seq
  BY <1>4
<1> HIDE DEF f
<1> QED BY <1>5 DEF Newest

LEMMA NewestTyped ==
  ASSUME NEW d, Typed(d), DOMAIN d = Row, NEW u \in User
  PROVE  Newest(d, u) \in Msg \cup {NoMsg}
BY NewestIs DEF Visible

LEMMA TypeMarkRevoked == ASSUME TypeInv, NEW o \in Op, MarkRevoked(o) PROVE TypeInv'
<1> DEFINE m == op[o].msg
           v == [View(o)[MsgRow(m)] EXCEPT !.state = "revoked"]
           r == MsgRow(m)
           change == Put(r, v)
<1>1. pc[o] = "mark" /\ pc'[o] = "list" /\ pc' = [pc EXCEPT ![o] = pc'[o]]
  BY Steps DEF MarkRevoked
<1>2. UNCHANGED <<db, shared, op, plan, pushed>> /\ op[o].kind = "revoke" /\ Write(o, change)
  BY DEF MarkRevoked
<1>3. Others(o)
  BY <1>1, <1>2, Writes, OthersAlone
<1>4. About(o) /\ Planned(o) /\ shared[o] \subseteq Row /\ op[o] \in Call
  BY DEF TypeInv
<1>5. m \in Msg /\ (~op[o].deliver => Mode = "single")
  BY <1>2, <1>4 DEF About
<1>6. v \in Message
  BY <1>5, ViewTyped DEF Message
<1>7. Typed(change) /\ r # TalkRow
  BY <1>5, <1>6, PutTyped, RowsDiffer
<1>8. Planned(o)'
  BY <1>2, <1>4 DEF Planned
<1> HIDE DEF m, v, r
<1>9. TalkRow \notin DOMAIN change
  <2>1. DOMAIN change = {r}
    BY PutIs
  <2> QED BY <1>7, <2>1
<1> HIDE DEF change
<1> QED BY <1>1, <1>2, <1>3, <1>4, <1>5, <1>7, <1>8, <1>9, TypeWrites DEF Places, Ended, m

LEMMA TypeMarkDeleted == ASSUME TypeInv, NEW o \in Op, MarkDeleted(o) PROVE TypeInv'
<1> DEFINE m == op[o].msg
           r == EraseRow(op[o].user, m)
           change == Put(r, TRUE)
<1>1. pc[o] = "mark" /\ pc'[o] = "list" /\ pc' = [pc EXCEPT ![o] = pc'[o]]
  BY Steps DEF MarkDeleted
<1>2. UNCHANGED <<db, op, plan, pushed>> /\ op[o].kind = "delete" /\ Write(o, change) /\ Share(o, {MsgRow(m)})
  BY DEF MarkDeleted
<1>3. Others(o)
  BY <1>1, <1>2, Writes, Shares, OthersAlone
<1>4. About(o) /\ Planned(o) /\ shared[o] \subseteq Row /\ op[o] \in Call
  BY DEF TypeInv
<1>5. m \in Msg /\ op[o].user \in User /\ (~op[o].deliver => Mode = "single")
  BY <1>2, <1>4 DEF About, Call
<1>7. Typed(change) /\ r # TalkRow
  BY <1>5, PutTyped, RowsDiffer
<1>8. Planned(o)' /\ shared'[o] \subseteq Row
  <2>1. shared'[o] = shared[o] \cup {MsgRow(m)}
    BY <1>2, Shares
  <2>2. MsgRow(m) \in Row
    BY <1>5, RowIs
  <2>3. Planned(o)'
    BY <1>2, <1>4 DEF Planned
  <2> QED BY <1>4, <2>1, <2>2, <2>3
<1> HIDE DEF m, r
<1>9. TalkRow \notin DOMAIN change
  <2>1. DOMAIN change = {r}
    BY PutIs
  <2> QED BY <1>7, <2>1
<1> HIDE DEF change
<1> QED BY <1>1, <1>2, <1>3, <1>4, <1>5, <1>7, <1>8, <1>9, TypeWrites DEF Places, Ended, m

LEMMA ErasedIs ==
  ASSUME TypeInv, NEW o \in Op
  PROVE  /\ Typed(Erased(o)) /\ DOMAIN Erased(o) \subseteq Erases
         /\ \A r \in DOMAIN Erased(o) : Erased(o)[r] = TRUE
<1>1. op[o].user \in User
  BY DEF TypeInv, Call
<1>2. DOMAIN Erased(o) \subseteq Erases /\ \A r \in DOMAIN Erased(o) : Erased(o)[r] = TRUE
  BY <1>1 DEF Erased, Erases
<1>3. There(Erased(o)) = {}
  BY <1>2, RowIs, TablesDiffer DEF There
<1>4. Typed(Erased(o))
  BY <1>2, <1>3, RowIs, TablesDiffer, FS_EmptySet DEF Typed
<1> QED BY <1>2, <1>4

LEMMA TypeMarkAll == ASSUME TypeInv, NEW o \in Op, MarkAll(o) PROVE TypeInv'
<1> DEFINE change == Erased(o)
<1>1. pc[o] = "mark" /\ pc'[o] = "apply" /\ pc' = [pc EXCEPT ![o] = pc'[o]]
  BY Steps DEF MarkAll
<1>2. UNCHANGED <<db, op, pushed>> /\ op[o].kind \in {"clear", "wipe"} /\ Write(o, change) /\ Share(o, Messages)
  BY DEF MarkAll
<1>3. plan' = [plan EXCEPT ![o] = plan'[o]] /\ plan'[o] = Put(op[o].user, NoMsg)
  BY DEF MarkAll, TypeInv
<1>4. Others(o)
  BY <1>1, <1>2, <1>3, Writes, Shares, OthersAlone
<1>5. About(o) /\ shared[o] \subseteq Row /\ op[o] \in Call
  BY DEF TypeInv
<1>6. op[o].user \in User /\ (~op[o].deliver => Mode = "single")
  BY <1>2, <1>5 DEF About, Call
<1>7. Typed(change) /\ TalkRow \notin DOMAIN change
  BY ErasedIs, TablesDiffer
<1>8. shared'[o] \subseteq Row
  BY <1>2, <1>5, Shares, RowIs
<1>9. Planned(o)'
  <2> DEFINE u == op[o].user
  <2>1. DOMAIN Put(u, NoMsg) = {u} /\ Put(u, NoMsg)[u] = NoMsg
    BY PutIs
  <2> QED BY <1>3, <1>6, <2>1 DEF Planned
<1> HIDE DEF change
<1> QED BY <1>1, <1>2, <1>4, <1>5, <1>6, <1>7, <1>8, <1>9, TypeWrites DEF Places, Ended

LEMMA TypeList == ASSUME TypeInv, NEW o \in Op, List(o) PROVE TypeInv'
<1>1. pc[o] = "list" /\ pc'[o] = "apply" /\ pc' = [pc EXCEPT ![o] = pc'[o]]
  BY Steps DEF List
<1>2. UNCHANGED <<db, own, shared, op, pushed>>
  BY DEF List
<1> DEFINE users == IF op[o].kind = "delete" THEN {op[o].user}
                    ELSE {u \in User : /\ View(o)[SessionRow(u)].state = "alive"
                                       /\ View(o)[SessionRow(u)].last = op[o].msg}
<1>3. plan' = [plan EXCEPT ![o] = [u \in users |-> Newest(View(o), u)]]
  BY DEF List
<1>4. op[o].user \in User /\ op[o].kind \in {"revoke", "delete"}
  BY <1>1 DEF TypeInv, Call, About
<1>5. users \subseteq User
  BY <1>4
<1> HIDE DEF users
<1>6. plan'[o] = [u \in users |-> Newest(View(o), u)] /\ plan' = [plan EXCEPT ![o] = plan'[o]]
  BY <1>3 DEF TypeInv
<1>7. Others(o)
  BY <1>1, <1>2, <1>6, OthersAlone
<1>8. Planned(o)'
  <2>1. \A u \in User : Newest(View(o), u) \in Msg \cup {NoMsg}
    BY ViewTyped, NewestTyped
  <2> QED BY <1>5, <1>6, <2>1 DEF Planned
<1>9. pushed' \subseteq User \X Msg
  BY <1>2 DEF TypeInv
<1> QED BY <1>1, <1>2, <1>4, <1>7, <1>8, <1>9, TypeReads DEF Places, Ended

LEMMA TypeApply == ASSUME TypeInv, NEW o \in Op, NEW u \in User, Apply(o, u) PROVE TypeInv'
<1> DEFINE s    == View(o)[SessionRow(u)]
           last == plan[o][u]
           new  == [s EXCEPT !.last = last, !.state = IF op[o].kind = "wipe" THEN "removed" ELSE @]
           v    == IF s.state = "alive" THEN new ELSE s
           r    == SessionRow(u)
           change == Put(r, v)
<1>1. pc[o] = "apply" /\ pc' = pc /\ u \in DOMAIN plan[o] /\ UNCHANGED <<db, op, pushed>> /\ Write(o, change)
  BY DEF Apply
<1>2. IF last = NoMsg THEN shared' = shared ELSE Share(o, {MsgRow(last)})
  BY DEF Apply
<1>3. plan' = [plan EXCEPT ![o] = [x \in DOMAIN plan[o] \ {u} |-> plan[o][x]]]
  BY DEF Apply
<1>4. plan'[o] = [x \in DOMAIN plan[o] \ {u} |-> plan[o][x]] /\ plan' = [plan EXCEPT ![o] = plan'[o]]
  BY <1>3 DEF TypeInv
<1>5. About(o) /\ Planned(o) /\ shared[o] \subseteq Row /\ op[o] \in Call
  BY DEF TypeInv
<1>6. last \in Msg \cup {NoMsg} /\ Planned(o)'
  BY <1>1, <1>4, <1>5 DEF Planned
<1>7. shared'[o] \subseteq Row /\ (shared' = shared \/ shared' = [shared EXCEPT ![o] = shared'[o]])
  <2>1. CASE last = NoMsg
    BY <1>2, <1>5, <2>1
  <2>2. CASE last # NoMsg
    <3>1. Share(o, {MsgRow(last)}) /\ MsgRow(last) \in Row
      BY <1>2, <1>6, <2>2, RowIs
    <3>2. shared' = [shared EXCEPT ![o] = shared'[o]] /\ shared'[o] = shared[o] \cup {MsgRow(last)}
      BY <3>1, Shares
    <3> QED BY <1>5, <3>1, <3>2
  <2> QED BY <2>1, <2>2
<1>8. Others(o)
  <2>1. pc' = [pc EXCEPT ![o] = pc'[o]]
    BY <1>1 DEF TypeInv
  <2> QED BY <1>1, <1>4, <1>7, <2>1, Writes, OthersAlone
<1>9. v \in Session
  <2>1. s \in Session
    BY ViewTyped
  <2> HIDE DEF s, last
  <2>2. new \in Session
    BY <1>6, <2>1 DEF Session
  <2> QED BY <2>1, <2>2
<1>10. Typed(change) /\ r # TalkRow
  <2> HIDE DEF v
  <2> QED BY <1>9, PutTyped, RowsDiffer
<1> HIDE DEF v, r
<1>11. TalkRow \notin DOMAIN change
  <2>1. DOMAIN change = {r}
    BY PutIs
  <2> QED BY <1>10, <2>1
<1> HIDE DEF change, last
<1>12. pc'[o] = "apply" /\ op'[o] = op[o]
  BY <1>1
<1> QED BY <1>1, <1>5, <1>6, <1>7, <1>8, <1>10, <1>11, <1>12, TypeWrites DEF Places, Ended, About

LEMMA TypeApplied == ASSUME TypeInv, NEW o \in Op, Applied(o) \/ ApplyFails(o) PROVE TypeInv'
<1>1. pc[o] = "apply" /\ pc'[o] = "commit" /\ pc' = [pc EXCEPT ![o] = pc'[o]]
  BY Steps DEF Applied, ApplyFails
<1>2. UNCHANGED <<db, own, shared, op, pushed>>
  BY DEF Applied, ApplyFails
<1>3. plan' = plan \/ (plan' = [plan EXCEPT ![o] = plan'[o]] /\ plan'[o] = <<>>)
  BY DEF Applied, ApplyFails, TypeInv
<1>4. Others(o)
  BY <1>1, <1>2, <1>3, OthersAlone
<1>5. Planned(o)' /\ pushed' \subseteq User \X Msg
  BY <1>2, <1>3, NothingIs DEF TypeInv, Planned
<1> QED BY <1>1, <1>2, <1>4, <1>5, TypeReads DEF Places, Ended

LEMMA Releases ==
  ASSUME TypeInv, NEW o \in Op, Release(o)
  PROVE  own' = [own EXCEPT ![o] = own'[o]] /\ shared' = [shared EXCEPT ![o] = shared'[o]]
         /\ own'[o] = <<>> /\ shared'[o] = {}
BY DEF Release, TypeInv

(* The rows of a transaction that commits. *)
LEMMA Commits ==
  ASSUME TypeInv, NEW o \in Op
  PROVE  DOMAIN Over(own[o], db) = Row /\ Typed(Over(own[o], db)) /\ Over(own[o], db)[TalkRow] = db[TalkRow]
<1> DEFINE mine == own[o]
           base == db
           next == Over(mine, base)
<1>1. DOMAIN mine \subseteq Row /\ DOMAIN base = Row /\ Typed(mine) /\ Typed(base)
      /\ (TalkRow \in DOMAIN mine => mine[TalkRow] = base[TalkRow])
  BY DEF TypeInv, Typed, About, Written, Mode
<1> HIDE DEF mine, base
<1>2. DOMAIN next = Row
  BY <1>1, OverIs
<1>3. Typed(next)
  BY <1>1, OverTyped
<1>4. next[TalkRow] = base[TalkRow]
  BY <1>1, <1>2, OverFrom, RowIs
<1> QED BY <1>2, <1>3, <1>4 DEF mine, base

LEMMA TypeCommit == ASSUME TypeInv, NEW o \in Op, Commit(o) \/ CommitLost(o) PROVE TypeInv'
<1>1. pc[o] = "commit" /\ pc' = [pc EXCEPT ![o] = pc'[o]] /\ pc'[o] \in {"push", "done", "failed"}
      /\ (pc'[o] = "push" => op[o].kind = "send")
  <2>1. CASE Commit(o)
    <3> DEFINE to == IF op[o].kind = "send" THEN "push" ELSE "done"
    <3>1. pc[o] = "commit" /\ pc'[o] = to /\ pc' = [pc EXCEPT ![o] = pc'[o]]
      BY <2>1, Steps DEF Commit
    <3> QED BY <3>1
  <2>2. CASE CommitLost(o)
    BY <2>2, Steps DEF CommitLost
  <2> QED BY <2>1, <2>2
<1>2. db' = Over(own[o], db) /\ Release(o) /\ UNCHANGED <<op, plan, pushed>>
  BY DEF Commit, CommitLost
<1>3. Others(o)
  BY <1>1, <1>2, Releases, OthersAlone
<1>4. Planned(o)'
  BY <1>2 DEF TypeInv, Planned
<1>5. DOMAIN db' = Row /\ Typed(db') /\ db'[TalkRow] = db[TalkRow]
  BY <1>2, Commits
<1> QED BY <1>1, <1>2, <1>3, <1>4, <1>5, TypeReleases DEF Places, Ended

LEMMA TypeRollback == ASSUME TypeInv, NEW o \in Op, Rollback(o) PROVE TypeInv'
<1>1. pc' = [pc EXCEPT ![o] = pc'[o]] /\ pc'[o] = "failed" /\ plan' = [plan EXCEPT ![o] = plan'[o]] /\ plan'[o] = <<>>
  BY DEF Rollback, TypeInv
<1>2. Release(o) /\ UNCHANGED <<db, op, pushed>>
  BY DEF Rollback
<1>3. Others(o)
  BY <1>1, <1>2, Releases, OthersAlone
<1>4. Planned(o)'
  BY <1>1, NothingIs DEF Planned
<1>5. DOMAIN db' = Row /\ Typed(db') /\ db'[TalkRow] = db[TalkRow]
  BY <1>2 DEF TypeInv
<1> QED BY <1>1, <1>2, <1>3, <1>4, <1>5, TypeReleases DEF Places, Ended

(* A single statement changes the session of one user. *)
Alters(o, u) == \/ ClearUnread(o, u) \/ RemoveSession(o, u) \/ OpenSession(o, u)

LEMMA AltersIs ==
  ASSUME TypeInv, NEW o \in Op, NEW u \in User, Alters(o, u)
  PROVE  /\ pc[o] = "idle" /\ pc'[o] = "done" /\ UNCHANGED <<own, shared, op, plan, pushed>> /\ Others(o)
         /\ Alone(o, u)
         /\ DOMAIN db' = Row /\ \A r \in Row \ {SessionRow(u)} : db'[r] = db[r]
         /\ db'[SessionRow(u)] \in Session
         /\ db'[SessionRow(u)].unread <= db[SessionRow(u)].unread
         /\ db'[SessionRow(u)].last = db[SessionRow(u)].last
<1> DEFINE s == db[SessionRow(u)]
<1>1. pc[o] = "idle" /\ pc' = [pc EXCEPT ![o] = "done"] /\ UNCHANGED <<own, shared, op, plan, pushed>> /\ Alone(o, u)
  BY DEF Alters, ClearUnread, RemoveSession, OpenSession, Single
<1>2. Others(o) /\ pc'[o] = "done"
  BY <1>1, OthersAlone DEF TypeInv
<1>3. s \in Session /\ SessionRow(u) \in DOMAIN db /\ DOMAIN db = Row
  BY RowIs DEF TypeInv, Typed
<1>4. \/ db' = [db EXCEPT ![SessionRow(u)] = [s EXCEPT !.unread = 0]]
      \/ db' = [db EXCEPT ![SessionRow(u)] = [s EXCEPT !.state = "removed"]]
      \/ db' = [db EXCEPT ![SessionRow(u)] = [s EXCEPT !.state = "alive"]]
  BY DEF Alters, ClearUnread, RemoveSession, OpenSession
<1>5. \E v : /\ db' = [db EXCEPT ![SessionRow(u)] = v]
             /\ v \in Session /\ v.unread <= s.unread /\ v.last = s.last
  <2> HIDE DEF s
  <2>1. [s EXCEPT !.unread = 0] \in Session /\ [s EXCEPT !.unread = 0].unread <= s.unread
        /\ [s EXCEPT !.unread = 0].last = s.last
    BY <1>3 DEF Session
  <2>2. [s EXCEPT !.state = "removed"] \in Session /\ [s EXCEPT !.state = "removed"].unread <= s.unread
        /\ [s EXCEPT !.state = "removed"].last = s.last
    BY <1>3 DEF Session
  <2>3. [s EXCEPT !.state = "alive"] \in Session /\ [s EXCEPT !.state = "alive"].unread <= s.unread
        /\ [s EXCEPT !.state = "alive"].last = s.last
    BY <1>3 DEF Session
  <2> QED BY <1>4, <2>1, <2>2, <2>3
<1> QED BY <1>1, <1>2, <1>3, <1>5

LEMMA TypeAlters == ASSUME TypeInv, NEW o \in Op, NEW u \in User, Alters(o, u) PROVE TypeInv'
<1>1. /\ pc[o] = "idle" /\ pc'[o] = "done" /\ UNCHANGED <<own, shared, op, plan, pushed>> /\ Others(o)
      /\ DOMAIN db' = Row /\ \A r \in Row \ {SessionRow(u)} : db'[r] = db[r]
      /\ db'[SessionRow(u)] \in Session
  BY AltersIs
<1>2. Typed(db')
  <2>1. Typed(db) /\ DOMAIN db = Row
    BY DEF TypeInv
  <2>2. There(db') = There(db)
    BY <1>1, <2>1, RowIs, RowsDiffer DEF There, Stored
  <2> QED BY <1>1, <2>1, <2>2, RowIs, TablesDiffer DEF Typed
<1>3. db'[TalkRow] = db[TalkRow]
  BY <1>1, RowIs, RowsDiffer
<1>4. About(o) /\ Planned(o) /\ Unlocked(o) /\ Typed(own[o]) /\ shared[o] \subseteq Row /\ op[o] \in Call
      /\ pushed \subseteq User \X Msg
  BY DEF TypeInv
<1>5. Mode' = Mode
  BY <1>3 DEF Mode
<1>6. About(o)' /\ Planned(o)' /\ Unlocked(o)'
  <2>1. Written(o) = {} /\ shared[o] = {}
    BY <1>1, <1>4 DEF Unlocked, Ended
  <2> QED BY <1>1, <1>4, <1>5, <2>1 DEF About, Planned, Unlocked, Written
<1> QED BY <1>1, <1>2, <1>3, <1>4, <1>6, TypeByCall DEF Places, Ended

LEMMA TypeStutter == ASSUME TypeInv, UNCHANGED vars PROVE TypeInv'
<1>1. db' = db /\ own' = own /\ shared' = shared /\ op' = op /\ pc' = pc /\ plan' = plan /\ pushed' = pushed
  BY DEF vars
<1>2. ASSUME NEW o \in Op PROVE Typed(own[o])' /\ About(o)' /\ Planned(o)' /\ Unlocked(o)'
  <2>1. Typed(own[o]) /\ About(o) /\ Planned(o) /\ Unlocked(o)
    BY DEF TypeInv
  <2> QED BY <1>1, <2>1 DEF About, Planned, Unlocked, Written, Mode
<1> QED BY <1>1, <1>2 DEF TypeInv

(* The steps of a call, in the order of its statements. *)
LEMMA TypeStep == ASSUME TypeInv, [Next]_vars PROVE TypeInv'
<1>1. CASE UNCHANGED vars
  BY <1>1, TypeStutter
<1>2. ASSUME NEW o \in Op, NEW u \in User, Alters(o, u) PROVE TypeInv'
  BY <1>2, TypeAlters
<1>3. ASSUME NEW o \in Op, NEW u \in User,
             \/ \E k \in {"send", "revoke", "delete"}, m \in Msg : Begin(o, k, u, m)
             \/ \E k \in {"clear", "wipe"} : Begin(o, k, u, NoMsg)
      PROVE  TypeInv'
  <2>1. ASSUME NEW k \in {"send", "revoke", "delete"}, NEW m \in Msg, Begin(o, k, u, m) PROVE TypeInv'
    BY <2>1, TypeBegin
  <2>2. ASSUME NEW k \in {"clear", "wipe"}, Begin(o, k, u, NoMsg) PROVE TypeInv'
    BY <2>2, TypeBegin
  <2> QED BY <1>3, <2>1, <2>2
<1>4. ASSUME NEW o \in Op, Send(o) PROVE TypeInv'
  BY <1>4, TypeFindTalk, TypeInsert, TypeSenderSession, TypeReceiverSession, TypeSessionFails, TypeBump, TypePush DEF Send
<1>5. ASSUME NEW o \in Op, Remove(o) PROVE TypeInv'
  BY <1>5, TypeMarkRevoked, TypeMarkDeleted, TypeMarkAll, TypeList, TypeApply, TypeApplied DEF Remove
<1>6. ASSUME NEW o \in Op, Commit(o) \/ CommitLost(o) \/ Fail(o) \/ Duplicate(o) PROVE TypeInv'
  BY <1>6, TypeCommit, TypeRollback DEF Fail, Duplicate
<1> QED BY <1>1, <1>2, <1>3, <1>4, <1>5, <1>6 DEF Next, Proceed, Alters

LEMMA TypeAlways == Spec => []TypeInv
BY TypeInit, TypeStep, PTL DEF Spec

(* Every variable has its type, and only a running call has locks. *)
THEOREM TypeCorrect == Spec => []TypeOK
<1>1. TypeInv => TypeOK
  BY DEF TypeInv, TypeOK, Typed, Unlocked, Written
<1> QED BY <1>1, TypeAlways, PTL

------------------------------------------------------------------------------
(* Transactions *)

(* A new message that is not yet committed. *)
Inserted(o) == op[o].kind = "send" /\ pc[o] \in {"mine", "theirs", "bump", "commit"}

(* A transaction locks what it writes. *)
Locked == \A o \in Op : \A p \in Op \ {o} :
             Written(o) \cap Written(p) = {} /\ Written(o) \cap shared[p] = {}

(* What a transaction has written.  A send: the next number and a message  *)
(* that is not there.  A revocation: a message that is there.  Nobody      *)
(* takes back a deletion.                                                  *)
Numbers(o) ==
  /\ pc[o] = "insert" => Written(o) \subseteq {TalkRow}
  /\ SeqRow \in Written(o) <=> Inserted(o)
  /\ Inserted(o) =>
       /\ MsgRow(op[o].msg) \in Written(o) /\ ~Stored(db, op[o].msg)
       /\ own[o][SeqRow] = db[SeqRow] + 1
       /\ own[o][MsgRow(op[o].msg)] = [seq |-> db[SeqRow] + 1, by |-> op[o].user,
                                       state |-> "normal", invalid |-> ~op[o].deliver]
Marks(o) ==
  /\ \A m \in Msg : MsgRow(m) \in Written(o) /\ ~(Inserted(o) /\ m = op[o].msg) =>
       /\ Stored(db, m)
       /\ own[o][MsgRow(m)] = [db[MsgRow(m)] EXCEPT !.state = "revoked"]
  /\ \A u \in User, m \in Msg : EraseRow(u, m) \in Written(o) => own[o][EraseRow(u, m)]
  /\ op[o].kind \in {"revoke", "delete"} /\ pc[o] # "failed" => Stored(db, op[o].msg)

(* The unread counter a transaction has written: one more for the message  *)
(* of another user.                                                        *)
Counts(o) == \A u \in User : SessionRow(u) \in Written(o) =>
   own[o][SessionRow(u)].unread <=
     IF pc[o] = "commit" /\ op[o].kind = "send" /\ u # op[o].user
     THEN db[SessionRow(u)].unread + 1 ELSE db[SessionRow(u)].unread

(* A message is pushed as it was stored. *)
Announced(o) == pc[o] = "push" => /\ Stored(db, op[o].msg)
                                  /\ db[MsgRow(op[o].msg)].invalid = ~op[o].deliver

Sound(o) == Numbers(o) /\ Marks(o) /\ Counts(o) /\ Announced(o)

Transactions == Locked /\ \A o \in Op : Sound(o)

(* Stored messages stay, with their number and sender, and a revoked one   *)
(* stays revoked.                                                          *)
Grows == \A m \in Msg : Stored(db, m) =>
            /\ Stored(db', m)
            /\ db'[MsgRow(m)].seq = db[MsgRow(m)].seq
            /\ db'[MsgRow(m)].by = db[MsgRow(m)].by
            /\ db'[MsgRow(m)].invalid = db[MsgRow(m)].invalid
            /\ db[MsgRow(m)].state = "revoked" => db'[MsgRow(m)].state = "revoked"

LEMMA TransactionsInit == Init => Transactions
<1> SUFFICES ASSUME Init PROVE Transactions
  OBVIOUS
<1>1. \A o \in Op : own[o] = <<>> /\ pc[o] = "idle" /\ op[o].kind = "none"
  BY DEF Init
<1>2. \A o \in Op : Written(o) = {} /\ ~Inserted(o)
  BY <1>1, NothingIs DEF Written, Inserted
<1> HIDE DEF Init
<1>3. ASSUME NEW o \in Op PROVE Sound(o)
  BY <1>1, <1>2 DEF Sound, Numbers, Marks, Counts, Announced
<1> QED BY <1>2, <1>3 DEF Transactions, Locked

(* The other calls, as long as nobody changes the rows they have locked. *)
LEMMA SoundKept ==
  ASSUME TypeInv, NEW o \in Op, Others(o), NEW p \in Op \ {o}, Sound(p), Grows,
         \A r \in Written(p) : db'[r] = db[r]
  PROVE  Sound(p)'
<1>1. own'[p] = own[p] /\ op'[p] = op[p] /\ pc'[p] = pc[p] /\ Written(p)' = Written(p)
  BY DEF Others, Written, TypeInv
<1>2. Inserted(p)' <=> Inserted(p)
  BY <1>1 DEF Inserted
<1>3. op[p].kind \in {"send", "revoke", "delete"} => op[p].msg \in Msg
  BY DEF TypeInv, About
<1>4. Numbers(p)'
  <2>1. Numbers(p)
    BY DEF Sound
  <2>2. Inserted(p) => Stored(db', op[p].msg) = Stored(db, op[p].msg) /\ db'[SeqRow] = db[SeqRow]
    BY <2>1 DEF Numbers, Stored
  <2> QED BY <1>1, <1>2, <2>1, <2>2 DEF Numbers
<1>5. Marks(p)'
  <2>1. Marks(p)
    BY DEF Sound
  <2>2. \A m \in Msg : Stored(db, m) => Stored(db', m)
    BY DEF Grows
  <2>3. \A m \in Msg : MsgRow(m) \in Written(p) => db'[MsgRow(m)] = db[MsgRow(m)]
    OBVIOUS
  <2> QED BY <1>1, <1>2, <1>3, <2>1, <2>2, <2>3 DEF Marks
<1>6. Counts(p)'
  <2>1. Counts(p)
    BY DEF Sound
  <2> QED BY <1>1, <2>1 DEF Counts
<1>7. Announced(p)'
  <2>1. Announced(p)
    BY DEF Sound
  <2>2. pc[p] = "push" => op[p].msg \in Msg
    BY <1>3 DEF TypeInv, About
  <2> QED BY <1>1, <2>1, <2>2 DEF Announced, Grows
<1> QED BY <1>4, <1>5, <1>6, <1>7 DEF Sound

(* A step that leaves the committed rows as they are. *)
LEMMA SoundByCall ==
  ASSUME TypeInv, Transactions, NEW o \in Op, Others(o), db' = db, Sound(o)', Locked'
  PROVE  Transactions'
<1>1. Grows
  BY DEF Grows
<1>2. ASSUME NEW p \in Op \ {o} PROVE Sound(p)'
  BY <1>1, SoundKept DEF Transactions
<1> QED BY <1>2 DEF Transactions

(* Locks are taken by statements and given back at the end. *)
LEMMA LockedWrites ==
  ASSUME TypeInv, Locked, NEW o \in Op, Others(o), NEW change, Write(o, change),
         NEW rows, CanShare(o, rows), shared'[o] = shared[o] \cup rows
  PROVE  Locked'
<1>1. Written(o)' = DOMAIN change \cup Written(o)
  BY Writes
<1>2. \A p \in Op \ {o} : Written(p)' = Written(p) /\ shared'[p] = shared[p]
  BY DEF Others, Written, TypeInv
<1>3. \A p \in Op \ {o} : /\ DOMAIN change \cap Written(p) = {} /\ DOMAIN change \cap shared[p] = {}
                          /\ rows \cap Written(p) = {}
  BY DEF Write, CanWrite, CanShare
<1>4. ASSUME NEW p \in Op, NEW q \in Op \ {p}
      PROVE  Written(p)' \cap Written(q)' = {} /\ Written(p)' \cap shared'[q] = {}
  <2>1. /\ Written(p) \cap Written(q) = {} /\ Written(p) \cap shared[q] = {}
        /\ Written(q) \cap Written(p) = {} /\ Written(q) \cap shared[p] = {}
    BY DEF Locked
  <2>2. CASE p = o
    BY <1>1, <1>2, <1>3, <2>1, <2>2
  <2>3. CASE q = o
    BY <1>1, <1>2, <1>3, <2>1, <2>3
  <2>4. CASE p # o /\ q # o
    BY <1>2, <2>1, <2>4
  <2> QED BY <2>2, <2>3, <2>4
<1> QED BY <1>4 DEF Locked

LEMMA LockedKept ==
  ASSUME TypeInv, Locked, NEW o \in Op, Others(o),
         Written(o)' \subseteq Written(o), shared'[o] \subseteq shared[o]
  PROVE  Locked'
<1>1. \A p \in Op : Written(p)' \subseteq Written(p) /\ shared'[p] \subseteq shared[p]
  BY DEF Others, Written, TypeInv
<1> QED BY <1>1 DEF Locked

(* How far a transaction may have counted. *)
Allowed(o, u) == IF pc[o] = "commit" /\ op[o].kind = "send" /\ u # op[o].user
                 THEN db[SessionRow(u)].unread + 1 ELSE db[SessionRow(u)].unread

LEMMA AllowedIs ==
  ASSUME TypeInv, NEW o \in Op, NEW u \in User
  PROVE  /\ db[SessionRow(u)].unread \in Nat /\ Allowed(o, u) \in Nat
         /\ db[SessionRow(u)].unread <= Allowed(o, u)
         /\ pc[o] # "commit" => Allowed(o, u) = db[SessionRow(u)].unread
<1>1. db[SessionRow(u)] \in Session
  BY RowIs DEF TypeInv, Typed
<1>2. db[SessionRow(u)].unread \in Nat
  BY <1>1 DEF Session
<1> QED BY <1>2 DEF Allowed

(* A statement that writes sessions and deletions. *)
LEMMA SoundWrites ==
  ASSUME TypeInv, TypeInv', NEW o \in Op, Sound(o), db' = db, op' = op,
         NEW change, Write(o, change), DOMAIN change \subseteq Sessions \cup Erases,
         \A r \in DOMAIN change : r \in Erases => change[r] = TRUE,
         \A u \in User : SessionRow(u) \in DOMAIN change => change[SessionRow(u)].unread <= Allowed(o, u)',
         pc[o] \notin {"commit", "failed"}, pc'[o] \notin {"insert", "push"},
         Inserted(o)' <=> Inserted(o)
  PROVE  Sound(o)'
<1>1. /\ Written(o)' = DOMAIN change \cup Written(o)
      /\ \A r \in DOMAIN change : own'[o][r] = change[r]
      /\ \A r \in Written(o) \ DOMAIN change : own'[o][r] = own[o][r]
  BY Writes
<1>2. SeqRow \notin DOMAIN change /\ \A m \in Msg : MsgRow(m) \notin DOMAIN change
  BY TablesDiffer, RowIs
<1>3. op[o].kind \in {"send", "revoke", "delete"} => op[o].msg \in Msg
  BY DEF TypeInv, About
<1>4. Numbers(o)'
  <2>1. Numbers(o)
    BY DEF Sound
  <2>2. SeqRow \in Written(o)' <=> SeqRow \in Written(o)
    BY <1>1, <1>2
  <2>3. Inserted(o) => op[o].msg \in Msg
    BY <1>3 DEF Inserted
  <2>4. Inserted(o)' => own'[o][SeqRow] = own[o][SeqRow]
                        /\ own'[o][MsgRow(op[o].msg)] = own[o][MsgRow(op[o].msg)]
                        /\ MsgRow(op[o].msg) \in Written(o)'
    BY <1>1, <1>2, <2>1, <2>3 DEF Numbers
  <2> QED BY <2>1, <2>2, <2>4 DEF Numbers, Stored
<1>5. Marks(o)'
  <2>1. Marks(o)
    BY DEF Sound
  <2>2. \A m \in Msg : MsgRow(m) \in Written(o)' =>
           MsgRow(m) \in Written(o) /\ own'[o][MsgRow(m)] = own[o][MsgRow(m)]
    BY <1>1, <1>2
  <2>3. \A u \in User, m \in Msg : EraseRow(u, m) \in Written(o)' => own'[o][EraseRow(u, m)]
    <3>1. ASSUME NEW u \in User, NEW m \in Msg, EraseRow(u, m) \in Written(o)' PROVE own'[o][EraseRow(u, m)]
      <4>1. CASE EraseRow(u, m) \in DOMAIN change
        BY <1>1, <4>1, RowIs
      <4>2. CASE EraseRow(u, m) \in Written(o) \ DOMAIN change
        BY <1>1, <2>1, <4>2 DEF Marks
      <4> QED BY <1>1, <3>1, <4>1, <4>2
    <3> QED BY <3>1
  <2> QED BY <2>1, <2>2, <2>3 DEF Marks, Stored
<1>6. Counts(o)'
  <2>1. Counts(o)
    BY DEF Sound
  <2>2. ASSUME NEW u \in User, SessionRow(u) \in Written(o)'
        PROVE  own'[o][SessionRow(u)].unread <= Allowed(o, u)'
    <3>1. CASE SessionRow(u) \in DOMAIN change
      BY <1>1, <3>1
    <3>2. CASE SessionRow(u) \in Written(o) \ DOMAIN change
      <4>1. own'[o][SessionRow(u)].unread <= db[SessionRow(u)].unread
        BY <1>1, <2>1, <3>2 DEF Counts
      <4>2. own'[o][SessionRow(u)] \in Session
        BY <2>2, RowIs DEF TypeInv, Typed, Written
      <4>3. own'[o][SessionRow(u)].unread \in Nat
        BY <4>2 DEF Session
      <4>4. db'[SessionRow(u)].unread \in Nat /\ Allowed(o, u)' \in Nat /\ db'[SessionRow(u)].unread <= Allowed(o, u)'
        <5>1. db'[SessionRow(u)] \in Session
          BY RowIs DEF TypeInv, Typed
        <5>2. db'[SessionRow(u)].unread \in Nat
          BY <5>1 DEF Session
        <5> QED BY <5>2 DEF Allowed
      <4> QED BY <4>1, <4>3, <4>4
    <3> QED BY <1>1, <2>2, <3>1, <3>2
  <2> QED BY <2>2 DEF Counts, Allowed
<1>7. Announced(o)'
  BY DEF Announced
<1> QED BY <1>4, <1>5, <1>6, <1>7 DEF Sound

(* A step that writes nothing. *)
LEMMA SoundReads ==
  ASSUME TypeInv, TypeInv', NEW o \in Op, Sound(o), db' = db, op' = op, own'[o] = own[o],
         pc[o] \notin {"commit", "failed"}, pc'[o] \notin {"insert", "push"},
         Inserted(o)' <=> Inserted(o)
  PROVE  Sound(o)'
<1>1. Written(o)' = Written(o)
  BY DEF Written
<1>2. Numbers(o)' /\ Marks(o)'
  BY <1>1 DEF Sound, Numbers, Marks, Stored
<1>3. Counts(o)'
  <2>1. ASSUME NEW u \in User, SessionRow(u) \in Written(o)
        PROVE  own[o][SessionRow(u)].unread <= Allowed(o, u)'
    <3>1. own[o][SessionRow(u)].unread <= db[SessionRow(u)].unread
      BY <2>1 DEF Sound, Counts
    <3>2. own[o][SessionRow(u)] \in Session /\ db[SessionRow(u)] \in Session
      BY <2>1, RowIs DEF TypeInv, Typed, Written
    <3>3. own[o][SessionRow(u)].unread \in Nat /\ db[SessionRow(u)].unread \in Nat
      BY <3>2 DEF Session
    <3> QED BY <3>1, <3>3 DEF Allowed
  <2> QED BY <1>1, <2>1 DEF Counts, Allowed
<1> QED BY <1>2, <1>3 DEF Sound, Announced

(* The end of a call. *)
LEMMA SoundEnds ==
  ASSUME TypeInv, NEW o \in Op, op' = op, own'[o] = <<>>, pc'[o] \in Ended \cup {"push"},
         op[o].kind \in {"revoke", "delete"} /\ pc'[o] # "failed" => Stored(db', op[o].msg),
         Announced(o)'
  PROVE  Sound(o)'
<1>1. Written(o)' = {}
  BY NothingIs DEF Written
<1>2. ~Inserted(o)' /\ pc'[o] # "insert"
  BY DEF Inserted, Ended
<1> QED BY <1>1, <1>2 DEF Sound, Numbers, Marks, Counts, Ended

(* The unread counter a statement reads. *)
LEMMA ViewCounts ==
  ASSUME TypeInv, NEW o \in Op, Counts(o), pc[o] # "commit", NEW u \in User
  PROVE  /\ View(o)[SessionRow(u)].unread \in Nat
         /\ View(o)[SessionRow(u)].unread <= db[SessionRow(u)].unread
<1> DEFINE mine == own[o]
           r == SessionRow(u)
<1>1. r \in Row /\ DOMAIN View(o) = Row /\ View(o)[r] \in Session /\ View(o) = Over(mine, db)
  BY RowIs, ViewTyped DEF View
<1>2. View(o)[r].unread \in Nat /\ db[r].unread \in Nat
  BY <1>1, AllowedIs DEF Session
<1>3. r \in DOMAIN mine => mine[r].unread <= db[r].unread
  BY DEF Counts, Written
<1> HIDE DEF mine, r
<1>4. (r \in DOMAIN mine /\ View(o)[r] = mine[r]) \/ View(o)[r] = db[r]
  BY <1>1, OverFrom
<1> QED BY <1>2, <1>3, <1>4 DEF r

(* What a transaction sees, before and after it writes. *)
LEMMA ViewIs ==
  ASSUME TypeInv, NEW o \in Op
  PROVE  /\ \A r \in Written(o) : View(o)[r] = own[o][r]
         /\ \A r \in Row \ Written(o) : View(o)[r] = db[r]
<1> DEFINE mine == own[o]
           base == db
<1>1. Written(o) = DOMAIN mine /\ DOMAIN base = Row /\ View(o) = Over(mine, base)
  BY DEF Written, TypeInv, View
<1> HIDE DEF mine, base
<1>2. /\ \A r \in DOMAIN mine : Over(mine, base)[r] = mine[r]
      /\ \A r \in DOMAIN base \ DOMAIN mine : Over(mine, base)[r] = base[r]
  BY OverIs
<1> QED BY <1>1, <1>2 DEF mine, base

LEMMA ViewWrites ==
  ASSUME TypeInv, NEW o \in Op, db' = db, NEW change, Write(o, change)
  PROVE  /\ \A r \in DOMAIN change : View(o)'[r] = change[r]
         /\ \A r \in Row \ DOMAIN change : View(o)'[r] = View(o)[r]
<1> DEFINE mine == own'[o]
           base == db
<1>1. Written(o)' = DOMAIN mine /\ DOMAIN base = Row /\ View(o)' = Over(mine, base)
  BY DEF Written, TypeInv, View
<1>2. /\ DOMAIN mine = DOMAIN change \cup Written(o)
      /\ \A r \in DOMAIN change : mine[r] = change[r]
      /\ \A r \in Written(o) \ DOMAIN change : mine[r] = own[o][r]
  BY <1>1, Writes
<1>3. /\ \A r \in Written(o) : View(o)[r] = own[o][r]
      /\ \A r \in Row \ Written(o) : View(o)[r] = base[r]
  BY ViewIs
<1> HIDE DEF mine, base
<1>4. /\ \A r \in DOMAIN mine : Over(mine, base)[r] = mine[r]
      /\ \A r \in DOMAIN base \ DOMAIN mine : Over(mine, base)[r] = base[r]
  BY OverIs
<1>5. \A r \in DOMAIN change : View(o)'[r] = change[r]
  BY <1>1, <1>2, <1>4
<1>6. ASSUME NEW r \in Row \ DOMAIN change PROVE View(o)'[r] = View(o)[r]
  <2>1. CASE r \in Written(o)
    BY <1>1, <1>2, <1>3, <1>4, <1>6, <2>1
  <2>2. CASE r \notin Written(o)
    BY <1>1, <1>2, <1>3, <1>4, <1>6, <2>2
  <2> QED BY <2>1, <2>2
<1> QED BY <1>5, <1>6

LEMMA TxBegin ==
  ASSUME TypeInv, Transactions, TypeInv', NEW o \in Op, NEW k, NEW u \in User, NEW m,
         Begin(o, k, u, m)
  PROVE  Transactions'
<1>1. op'[o] = [kind |-> k, user |-> u, msg |-> m, deliver |-> TRUE] /\ pc'[o] = First(k) /\ pc[o] = "idle"
  BY DEF Begin, TypeInv
<1>2. db' = db /\ own' = own /\ shared' = shared /\ plan' = plan
      /\ (k \in {"revoke", "delete"} => Stored(db, m))
  BY DEF Begin
<1>3. Others(o)
  <2>1. pc' = [pc EXCEPT ![o] = pc'[o]] /\ op' = [op EXCEPT ![o] = op'[o]]
    BY <1>1 DEF Begin
  <2> QED BY <1>2, <2>1, OthersAlone
<1>4. Written(o) = {} /\ Written(o)' = {}
  BY <1>1, <1>2 DEF TypeInv, Unlocked, Ended, Written
<1>5. ~Inserted(o)' /\ pc'[o] \in {"talk", "mark"}
  BY <1>1 DEF Inserted, First
<1>6. Numbers(o)' /\ Counts(o)' /\ Announced(o)'
  BY <1>4, <1>5 DEF Numbers, Counts, Announced
<1>7. Marks(o)'
  BY <1>1, <1>2, <1>4, <1>5 DEF Marks, Stored
<1>8. Locked'
  BY <1>2, <1>3, <1>4, LockedKept DEF Transactions
<1> QED BY <1>2, <1>3, <1>6, <1>7, <1>8, SoundByCall DEF Sound

LEMMA TxFindTalk ==
  ASSUME TypeInv, Transactions, TypeInv', NEW o \in Op, FindTalk(o) PROVE Transactions'
<1> DEFINE change == Put(TalkRow, Mode)
<1>1. pc[o] = "talk" /\ pc'[o] = "insert" /\ pc' = [pc EXCEPT ![o] = pc'[o]]
  BY Steps DEF FindTalk
<1>2. UNCHANGED <<db, shared, op, plan, pushed>> /\ Write(o, change)
  BY DEF FindTalk
<1>3. Others(o)
  BY <1>1, <1>2, Writes, OthersAlone
<1>4. Written(o) = {}
  BY <1>1 DEF TypeInv, Unlocked
<1>5. DOMAIN change = {TalkRow}
  BY PutIs
<1> HIDE DEF change
<1>6. Written(o)' = {TalkRow}
  BY <1>2, <1>4, <1>5, Writes
<1>7. Sound(o)'
  <2>1. SeqRow # TalkRow /\ (\A m : MsgRow(m) # TalkRow) /\ (\A u : SessionRow(u) # TalkRow)
        /\ (\A u, m : EraseRow(u, m) # TalkRow)
    BY RowsDiffer
  <2>2. ~Inserted(o)' /\ op[o].kind = "send" /\ op' = op
    BY <1>1, <1>2 DEF Inserted, TypeInv, About
  <2> QED BY <1>1, <1>6, <2>1, <2>2 DEF Sound, Numbers, Marks, Counts, Announced
<1>8. Locked'
  <2>1. CanShare(o, {}) /\ shared'[o] = shared[o] \cup {}
    BY <1>2 DEF CanShare
  <2> QED BY <1>2, <1>3, <2>1, LockedWrites DEF Transactions
<1> QED BY <1>2, <1>3, <1>7, <1>8, SoundByCall

LEMMA TxInsert ==
  ASSUME TypeInv, Transactions, TypeInv', NEW o \in Op, Insert(o) PROVE Transactions'
<1> DEFINE m == op[o].msg
           s == View(o)[SeqRow] + 1
           row(d) == [seq |-> s, by |-> op[o].user, state |-> "normal", invalid |-> ~d]
           change(d) == Over(Put(MsgRow(m), row(d)), Put(SeqRow, s))
<1>1. pc[o] = "insert" /\ pc'[o] = AfterInsert /\ pc' = [pc EXCEPT ![o] = pc'[o]]
  BY Steps DEF Insert
<1>2. PICK d \in BOOLEAN : Write(o, change(d)) /\ op' = [op EXCEPT ![o].deliver = d]
  BY DEF Insert
<1>3. UNCHANGED <<db, shared, plan, pushed>> /\ ~Stored(db, m)
  BY DEF Insert
<1>4. op[o] \in Call /\ op[o].kind = "send" /\ m \in Msg
  BY <1>1 DEF TypeInv, About
<1>5. op'[o] = [op[o] EXCEPT !.deliver = d] /\ op' = [op EXCEPT ![o] = op'[o]]
  BY <1>2 DEF TypeInv
<1>6. op'[o].kind = "send" /\ op'[o].msg = op[o].msg /\ op'[o].user = op[o].user /\ op'[o].deliver = d
  BY <1>4, <1>5 DEF Call
<1>7. Others(o)
  BY <1>1, <1>2, <1>3, <1>5, Writes, OthersAlone
<1>8. pc'[o] \in {"mine", "bump"} /\ Inserted(o)' /\ ~Inserted(o)
  BY <1>1, <1>6 DEF AfterInsert, Inserted
<1>9. Written(o) \subseteq {TalkRow}
  BY <1>1 DEF Transactions, Sound, Numbers
<1>10. s = db[SeqRow] + 1
  <2> DEFINE mine == own[o]
  <2>1. SeqRow \in DOMAIN db /\ SeqRow \notin DOMAIN mine /\ View(o) = Over(mine, db)
    BY <1>9, RowsDiffer, RowIs DEF View, Written, TypeInv
  <2> HIDE DEF mine
  <2>2. \A r \in DOMAIN db \ DOMAIN mine : Over(mine, db)[r] = db[r]
    BY OverIs
  <2>3. View(o)[SeqRow] = db[SeqRow]
    BY <2>1, <2>2
  <2> QED BY <2>3
<1>11. /\ DOMAIN change(d) = {MsgRow(m), SeqRow}
       /\ change(d)[MsgRow(m)] = row(d) /\ change(d)[SeqRow] = s
  <2> DEFINE v   == row(d)
             one == Put(MsgRow(m), v)
             two == Put(SeqRow, s)
  <2>1. change(d) = Over(one, two)
    OBVIOUS
  <2> HIDE DEF s, m, v
  <2>2. DOMAIN one = {MsgRow(m)} /\ one[MsgRow(m)] = v /\ DOMAIN two = {SeqRow} /\ two[SeqRow] = s
    BY PutIs
  <2>3. SeqRow # MsgRow(m)
    BY RowsDiffer
  <2> HIDE DEF one, two
  <2>4. /\ DOMAIN Over(one, two) = {MsgRow(m), SeqRow}
        /\ Over(one, two)[MsgRow(m)] = v /\ Over(one, two)[SeqRow] = s
    <3>1. /\ DOMAIN Over(one, two) = DOMAIN one \cup DOMAIN two
          /\ \A r \in DOMAIN one : Over(one, two)[r] = one[r]
          /\ \A r \in DOMAIN two \ DOMAIN one : Over(one, two)[r] = two[r]
      BY OverIs
    <3> QED BY <2>2, <2>3, <3>1
  <2> HIDE DEF change
  <2> QED BY <2>1, <2>4 DEF v
<1> DEFINE c == change(d)
           new == row(d)
<1>12. /\ Write(o, c) /\ DOMAIN c = {MsgRow(m), SeqRow} /\ c[MsgRow(m)] = new /\ c[SeqRow] = s
       /\ new = [seq |-> s, by |-> op[o].user, state |-> "normal", invalid |-> ~d]
  BY <1>2, <1>11
<1> HIDE DEF c, new, s, m
<1>13. /\ Written(o)' = {MsgRow(m), SeqRow} \cup Written(o)
       /\ own'[o][MsgRow(m)] = new /\ own'[o][SeqRow] = s
  BY <1>12, Writes
<1>14. Numbers(o)'
  BY <1>3, <1>6, <1>8, <1>10, <1>12, <1>13 DEF Numbers, Stored, m
<1>15. Marks(o)'
  BY <1>6, <1>8, <1>9, <1>13, RowsDiffer DEF Marks, m
<1>16. Counts(o)' /\ Announced(o)'
  BY <1>8, <1>9, <1>13, RowsDiffer DEF Counts, Announced
<1>17. Locked'
  <2>1. CanShare(o, {}) /\ shared'[o] = shared[o] \cup {}
    BY <1>3 DEF CanShare
  <2> QED BY <1>7, <1>12, <2>1, LockedWrites DEF Transactions
<1> QED BY <1>3, <1>7, <1>14, <1>15, <1>16, <1>17, SoundByCall DEF Sound

LEMMA TxWrites ==
  ASSUME TypeInv, Transactions, TypeInv', NEW o \in Op, Others(o), db' = db, op' = op,
         NEW change, Write(o, change), DOMAIN change \subseteq Sessions \cup Erases,
         \A r \in DOMAIN change : r \in Erases => change[r] = TRUE,
         \A u \in User : SessionRow(u) \in DOMAIN change => change[SessionRow(u)].unread <= Allowed(o, u)',
         pc[o] \notin {"commit", "failed"}, pc'[o] \notin {"insert", "push"},
         Inserted(o)' <=> Inserted(o),
         NEW rows, CanShare(o, rows), shared'[o] = shared[o] \cup rows
  PROVE  Transactions'
<1>1. Sound(o)'
  BY SoundWrites DEF Transactions
<1>2. Locked'
  BY LockedWrites DEF Transactions
<1> QED BY <1>1, <1>2, SoundByCall

LEMMA TxReads ==
  ASSUME TypeInv, Transactions, TypeInv', NEW o \in Op, Others(o), UNCHANGED <<db, own, shared, op>>,
         pc[o] \notin {"commit", "failed"}, pc'[o] \notin {"insert", "push"},
         Inserted(o)' <=> Inserted(o)
  PROVE  Transactions'
<1>1. Sound(o)'
  BY SoundReads DEF Transactions
<1>2. Locked'
  BY LockedKept DEF Transactions, Written
<1> QED BY <1>1, <1>2, SoundByCall

(* A statement that shares no locks. *)
LEMMA Unshared ==
  ASSUME NEW o \in Op, shared' = shared
  PROVE  CanShare(o, {}) /\ shared'[o] = shared[o] \cup {}
BY DEF CanShare

(* A statement that writes the session of one user. *)
LEMMA TxOneSession ==
  ASSUME TypeInv, Transactions, TypeInv', NEW o \in Op, Others(o), db' = db, op' = op,
         NEW u \in User, NEW v, v.unread = View(o)[SessionRow(u)].unread, Write(o, Put(SessionRow(u), v)),
         pc[o] \notin {"commit", "failed"}, pc'[o] \notin {"insert", "push"},
         Inserted(o)' <=> Inserted(o),
         NEW rows, CanShare(o, rows), shared'[o] = shared[o] \cup rows
  PROVE  Transactions'
<1> DEFINE r == SessionRow(u)
           change == Put(r, v)
<1>1. DOMAIN change = {r} /\ change[r] = v
  BY PutIs
<1>2. r \in Sessions /\ r \notin Erases
  BY RowIs, TablesDiffer
<1>3. v.unread <= Allowed(o, u)'
  <2>1. v.unread \in Nat /\ v.unread <= db[r].unread
    BY ViewCounts DEF Transactions, Sound
  <2>2. db[r].unread \in Nat /\ Allowed(o, u)' \in {db[r].unread, db[r].unread + 1}
    BY AllowedIs DEF Allowed
  <2> QED BY <2>1, <2>2
<1>4. \A w \in User : SessionRow(w) = r => w = u
  BY RowsDiffer
<1>5. Write(o, change)
  OBVIOUS
<1>6. \A w \in User : SessionRow(w) \in DOMAIN change => change[SessionRow(w)].unread <= Allowed(o, w)'
  BY <1>1, <1>3, <1>4
<1>7. DOMAIN change \subseteq Sessions \cup Erases /\ \A x \in DOMAIN change : x \in Erases => change[x] = TRUE
  BY <1>1, <1>2
<1> HIDE DEF r, change
<1> QED BY <1>5, <1>6, <1>7, TxWrites

LEMMA TxSession ==
  ASSUME TypeInv, Transactions, TypeInv', NEW o \in Op, NEW u \in User, Write(o, Restored(o, u)),
         UNCHANGED <<db, shared, op, plan, pushed>>, pc' = [pc EXCEPT ![o] = pc'[o]],
         pc[o] \in {"mine", "theirs"}, pc'[o] \in {"theirs", "bump"}
  PROVE  Transactions'
<1> DEFINE s == View(o)[SessionRow(u)]
           v == [s EXCEPT !.state = "alive"]
<1>1. Others(o)
  BY Writes, OthersAlone
<1>2. v.unread = s.unread
  <2>1. s \in Session
    BY ViewTyped
  <2> HIDE DEF s
  <2> QED BY <2>1 DEF Session
<1>3. Write(o, Put(SessionRow(u), v))
  BY DEF Restored
<1>4. Inserted(o)' <=> Inserted(o)
  BY DEF Inserted
<1>5. CanShare(o, {}) /\ shared'[o] = shared[o] \cup {}
  BY Unshared
<1> HIDE DEF v
<1> QED BY <1>1, <1>2, <1>3, <1>4, <1>5, TxOneSession

LEMMA TxSenderSession ==
  ASSUME TypeInv, Transactions, TypeInv', NEW o \in Op, SenderSession(o) PROVE Transactions'
<1> DEFINE to == IF op[o].deliver THEN "theirs" ELSE "bump"
<1>1. pc[o] = "mine" /\ pc'[o] = to /\ pc' = [pc EXCEPT ![o] = pc'[o]]
  BY Steps DEF SenderSession
<1>2. op[o].user \in User
  BY DEF TypeInv, Call
<1> QED BY <1>1, <1>2, TxSession DEF SenderSession

LEMMA TxReceiverSession ==
  ASSUME TypeInv, Transactions, TypeInv', NEW o \in Op, ReceiverSession(o) PROVE Transactions'
<1>1. pc[o] = "theirs" /\ pc'[o] = "bump" /\ pc' = [pc EXCEPT ![o] = pc'[o]]
  BY Steps DEF ReceiverSession
<1>2. op[o].user \in User /\ Mode = "single" /\ Mode \in Modes
  BY <1>1, RowIs DEF TypeInv, About, Call, Mode, Typed
<1>3. Other(op[o].user) \in User
  BY <1>2, OtherIs
<1> QED BY <1>1, <1>3, TxSession DEF ReceiverSession

LEMMA TxSessionFails ==
  ASSUME TypeInv, Transactions, TypeInv', NEW o \in Op, SessionFails(o) PROVE Transactions'
<1>1. pc[o] \in {"mine", "theirs"} /\ pc'[o] \in {"theirs", "bump"} /\ pc' = [pc EXCEPT ![o] = pc'[o]]
  BY Steps DEF SessionFails
<1>2. UNCHANGED <<db, own, shared, op, plan, pushed>>
  BY DEF SessionFails
<1>3. Others(o)
  BY <1>1, <1>2, OthersAlone
<1> QED BY <1>1, <1>2, <1>3, TxReads DEF Inserted

LEMMA BumpedCounts ==
  ASSUME TypeInv, NEW o \in Op, Counts(o), pc[o] # "commit", NEW u \in User, NEW count \in BOOLEAN
  PROVE  Bumped(o, SessionsNow(o, u), u, count).unread <=
           IF count THEN db[SessionRow(u)].unread + 1 ELSE db[SessionRow(u)].unread
<1> DEFINE s == SessionsNow(o, u)
           n == IF count THEN s.unread + 1 ELSE s.unread
<1>1. s \in Session /\ s.unread \in Nat /\ s.unread <= db[SessionRow(u)].unread /\ db[SessionRow(u)].unread \in Nat
  BY ViewTyped, ViewCounts, AllowedIs DEF SessionsNow
<1> HIDE DEF s
<1>2. CASE s.state = "alive"
  <2>1. Bumped(o, s, u, count) = [s EXCEPT !.last = op[o].msg, !.unread = n]
    BY <1>1, <1>2 DEF Bumped, Session
  <2>2. n <= IF count THEN db[SessionRow(u)].unread + 1 ELSE db[SessionRow(u)].unread
    BY <1>1
  <2> HIDE DEF n
  <2>3. [s EXCEPT !.last = op[o].msg, !.unread = n].unread = n
    BY <1>1 DEF Session
  <2> QED BY <2>1, <2>2, <2>3 DEF s
<1>3. CASE s.state # "alive"
  BY <1>1, <1>3 DEF Bumped, s
<1> QED BY <1>2, <1>3

LEMMA TxBump ==
  ASSUME TypeInv, Transactions, TypeInv', NEW o \in Op, Bump(o) PROVE Transactions'
<1> DEFINE one == Hidden(o)
           two == Bumps(o)
           change == Over(one, two)
<1>1. pc[o] = "bump" /\ pc'[o] = "commit" /\ pc' = [pc EXCEPT ![o] = pc'[o]]
  BY Steps DEF Bump
<1>2. UNCHANGED <<db, shared, op, plan, pushed>> /\ Write(o, change)
  BY DEF Bump, Bumps
<1>3. Others(o)
  BY <1>1, <1>2, Writes, OthersAlone
<1>4. op[o].kind = "send" /\ op[o].msg \in Msg
  BY <1>1 DEF TypeInv, About
<1>5. /\ DOMAIN one \subseteq Erases /\ \A r \in DOMAIN one : one[r] = TRUE
      /\ DOMAIN two = Sessions
  BY <1>4, HiddenIs, BumpsIs
<1>6. \A u \in User : two[SessionRow(u)].unread <= Allowed(o, u)'
  <2>1. ASSUME NEW u \in User PROVE two[SessionRow(u)].unread <= Allowed(o, u)'
    <3> DEFINE count == u # op[o].user
    <3>1. two[SessionRow(u)] = Bumped(o, SessionsNow(o, u), u, count)
      BY BumpsIs
    <3>2. count \in BOOLEAN
      OBVIOUS
    <3>3. Allowed(o, u)' = IF count THEN db[SessionRow(u)].unread + 1 ELSE db[SessionRow(u)].unread
      BY <1>1, <1>2, <1>4 DEF Allowed
    <3> HIDE DEF count, two
    <3> QED BY <1>1, <3>1, <3>2, <3>3, BumpedCounts DEF Transactions, Sound
  <2> QED BY <2>1
<1> HIDE DEF one, two
<1>7. /\ DOMAIN change = DOMAIN one \cup DOMAIN two
      /\ \A r \in DOMAIN one : change[r] = one[r]
      /\ \A r \in DOMAIN two \ DOMAIN one : change[r] = two[r]
  BY OverIs
<1> HIDE DEF change
<1>8. DOMAIN change \subseteq Sessions \cup Erases /\ \A r \in DOMAIN change : r \in Erases => change[r] = TRUE
  BY <1>5, <1>7, TablesDiffer
<1>9. \A u \in User : SessionRow(u) \in DOMAIN change => change[SessionRow(u)].unread <= Allowed(o, u)'
  BY <1>5, <1>6, <1>7, TablesDiffer, RowIs
<1>10. Inserted(o)' <=> Inserted(o)
  BY <1>1, <1>2 DEF Inserted
<1>11. CanShare(o, {}) /\ shared'[o] = shared[o] \cup {}
  BY <1>2, Unshared
<1> QED BY <1>1, <1>2, <1>3, <1>8, <1>9, <1>10, <1>11, TxWrites

LEMMA TxPush ==
  ASSUME TypeInv, Transactions, TypeInv', NEW o \in Op, Push(o) PROVE Transactions'
<1>1. pc[o] = "push" /\ pc'[o] = "done" /\ pc' = [pc EXCEPT ![o] = pc'[o]]
  BY Steps DEF Push
<1>2. UNCHANGED <<db, own, shared, op, plan>>
  BY DEF Push
<1>3. Others(o)
  BY <1>1, <1>2, OthersAlone
<1> QED BY <1>1, <1>2, <1>3, TxReads DEF Inserted

LEMMA TxMarkRevoked ==
  ASSUME TypeInv, Transactions, TypeInv', NEW o \in Op, MarkRevoked(o) PROVE Transactions'
<1> DEFINE m == op[o].msg
           r == MsgRow(m)
           v == [View(o)[r] EXCEPT !.state = "revoked"]
           change == Put(r, v)
<1>1. pc[o] = "mark" /\ pc'[o] = "list" /\ pc' = [pc EXCEPT ![o] = pc'[o]]
  BY Steps DEF MarkRevoked
<1>2. UNCHANGED <<db, shared, op, plan, pushed>> /\ op[o].kind = "revoke" /\ Write(o, change)
  BY DEF MarkRevoked
<1>3. Others(o)
  BY <1>1, <1>2, Writes, OthersAlone
<1>4. m \in Msg /\ Written(o) = {} /\ Stored(db, m)
  BY <1>1, <1>2 DEF TypeInv, About, Unlocked, Transactions, Sound, Marks
<1>5. View(o)[r] = db[r]
  <2> DEFINE mine == own[o]
  <2>1. r \in DOMAIN db /\ r \notin DOMAIN mine /\ View(o) = Over(mine, db)
    BY <1>4, RowIs DEF View, Written, TypeInv
  <2> HIDE DEF mine, r
  <2>2. \A x \in DOMAIN db \ DOMAIN mine : Over(mine, db)[x] = db[x]
    BY OverIs
  <2> QED BY <2>1, <2>2
<1>6. v = [db[r] EXCEPT !.state = "revoked"]
  BY <1>5
<1> HIDE DEF v
<1>7. DOMAIN change = {r} /\ change[r] = v
  BY PutIs
<1> HIDE DEF change
<1>8. Written(o)' = {r} /\ own'[o][r] = v
  BY <1>2, <1>4, <1>7, Writes
<1>9. ~Inserted(o)'
  BY <1>1 DEF Inserted
<1>10. Sound(o)'
  <2>1. SeqRow # r /\ (\A u : SessionRow(u) # r) /\ (\A u, n : EraseRow(u, n) # r) /\ (\A n : MsgRow(n) = r => n = m)
    BY RowsDiffer
  <2>2. Numbers(o)' /\ Counts(o)' /\ Announced(o)'
    BY <1>1, <1>8, <1>9, <2>1 DEF Numbers, Counts, Announced
  <2>3. Marks(o)'
    BY <1>1, <1>2, <1>4, <1>6, <1>8, <1>9, <2>1 DEF Marks, Stored
  <2> QED BY <2>2, <2>3 DEF Sound
<1>11. Locked'
  BY <1>2, <1>3, Unshared, LockedWrites DEF Transactions
<1> QED BY <1>2, <1>3, <1>10, <1>11, SoundByCall

LEMMA TxMarkDeleted ==
  ASSUME TypeInv, Transactions, TypeInv', NEW o \in Op, MarkDeleted(o) PROVE Transactions'
<1> DEFINE r == EraseRow(op[o].user, op[o].msg)
           change == Put(r, TRUE)
           rows   == {MsgRow(op[o].msg)}
<1>1. pc[o] = "mark" /\ pc'[o] = "list" /\ pc' = [pc EXCEPT ![o] = pc'[o]]
  BY Steps DEF MarkDeleted
<1>2. UNCHANGED <<db, op, plan, pushed>> /\ op[o].kind = "delete" /\ Write(o, change)
      /\ Share(o, rows)
  BY DEF MarkDeleted
<1>3. shared'[o] = shared[o] \cup rows /\ CanShare(o, rows) /\ shared' = [shared EXCEPT ![o] = shared'[o]]
  BY <1>2, Shares DEF Share
<1>4. Others(o)
  BY <1>1, <1>2, <1>3, Writes, OthersAlone
<1>5. op[o].msg \in Msg /\ op[o].user \in User
  BY <1>2 DEF TypeInv, About, Call
<1>6. r \in Erases
  BY <1>5, RowIs
<1> HIDE DEF r, rows
<1>7. DOMAIN change = {r} /\ change[r] = TRUE
  BY PutIs
<1> HIDE DEF change
<1>8. \A u \in User : SessionRow(u) \notin DOMAIN change
  BY <1>6, <1>7, RowIs, TablesDiffer
<1>9. Inserted(o)' <=> Inserted(o)
  BY <1>1 DEF Inserted
<1> QED BY <1>1, <1>2, <1>3, <1>4, <1>6, <1>7, <1>8, <1>9, TxWrites

LEMMA TxMarkAll ==
  ASSUME TypeInv, Transactions, TypeInv', NEW o \in Op, MarkAll(o) PROVE Transactions'
<1> DEFINE change == Erased(o)
<1>1. pc[o] = "mark" /\ pc'[o] = "apply" /\ pc' = [pc EXCEPT ![o] = pc'[o]]
  BY Steps DEF MarkAll
<1>2. UNCHANGED <<db, op, pushed>> /\ Write(o, change) /\ Share(o, Messages)
      /\ plan' = [plan EXCEPT ![o] = plan'[o]]
  BY DEF MarkAll, TypeInv
<1>3. shared'[o] = shared[o] \cup Messages /\ CanShare(o, Messages) /\ shared' = [shared EXCEPT ![o] = shared'[o]]
  BY <1>2, Shares DEF Share
<1>4. Others(o)
  BY <1>1, <1>2, <1>3, Writes, OthersAlone
<1>5. DOMAIN change \subseteq Erases /\ \A r \in DOMAIN change : change[r] = TRUE
  BY ErasedIs
<1> HIDE DEF change
<1>6. \A u \in User : SessionRow(u) \notin DOMAIN change
  BY <1>5, RowIs, TablesDiffer
<1>7. Inserted(o)' <=> Inserted(o)
  BY <1>1 DEF Inserted
<1> QED BY <1>1, <1>2, <1>3, <1>4, <1>5, <1>6, <1>7, TxWrites

LEMMA TxList ==
  ASSUME TypeInv, Transactions, TypeInv', NEW o \in Op, List(o) PROVE Transactions'
<1>1. pc[o] = "list" /\ pc'[o] = "apply" /\ pc' = [pc EXCEPT ![o] = pc'[o]]
  BY Steps DEF List
<1>2. UNCHANGED <<db, own, shared, op, pushed>> /\ plan' = [plan EXCEPT ![o] = plan'[o]]
  BY DEF List, TypeInv
<1>3. Others(o)
  BY <1>1, <1>2, OthersAlone
<1> QED BY <1>1, <1>2, <1>3, TxReads DEF Inserted

LEMMA TxApply ==
  ASSUME TypeInv, Transactions, TypeInv', NEW o \in Op, NEW u \in User, Apply(o, u) PROVE Transactions'
<1> DEFINE s    == View(o)[SessionRow(u)]
           last == plan[o][u]
           new  == [s EXCEPT !.last = last, !.state = IF op[o].kind = "wipe" THEN "removed" ELSE @]
           v    == IF s.state = "alive" THEN new ELSE s
           rows == IF last = NoMsg THEN {} ELSE {MsgRow(last)}
<1>1. pc[o] = "apply" /\ pc' = pc /\ UNCHANGED <<db, op, pushed>> /\ Write(o, Put(SessionRow(u), v))
  BY DEF Apply
<1>2. plan' = [plan EXCEPT ![o] = plan'[o]]
  BY DEF Apply, TypeInv
<1>3. CanShare(o, rows) /\ shared'[o] = shared[o] \cup rows
      /\ (shared' = shared \/ shared' = [shared EXCEPT ![o] = shared'[o]])
  <2>1. CASE last = NoMsg
    <3>1. shared' = shared /\ rows = {}
      BY <2>1 DEF Apply
    <3> QED BY <3>1, Unshared
  <2>2. CASE last # NoMsg
    <3>1. Share(o, rows)
      BY <2>2 DEF Apply
    <3> HIDE DEF rows
    <3> QED BY <3>1, Shares DEF Share
  <2> QED BY <2>1, <2>2
<1>4. Others(o)
  <2>1. pc' = [pc EXCEPT ![o] = pc'[o]]
    BY <1>1 DEF TypeInv
  <2> QED BY <1>1, <1>2, <1>3, <2>1, Writes, OthersAlone
<1>5. v.unread = s.unread
  <2>1. s \in Session
    BY ViewTyped
  <2> HIDE DEF s, last
  <2> QED BY <2>1 DEF Session
<1>6. Inserted(o)' <=> Inserted(o)
  BY <1>1 DEF Inserted
<1> HIDE DEF v, rows
<1> QED BY <1>1, <1>3, <1>4, <1>5, <1>6, TxOneSession

LEMMA TxApplied ==
  ASSUME TypeInv, Transactions, TypeInv', NEW o \in Op, Applied(o) \/ ApplyFails(o) PROVE Transactions'
<1>1. pc[o] = "apply" /\ pc'[o] = "commit" /\ pc' = [pc EXCEPT ![o] = pc'[o]]
  BY Steps DEF Applied, ApplyFails
<1>2. UNCHANGED <<db, own, shared, op, pushed>> /\ (plan' = plan \/ plan' = [plan EXCEPT ![o] = plan'[o]])
  BY DEF Applied, ApplyFails, TypeInv
<1>3. Others(o)
  BY <1>1, <1>2, OthersAlone
<1>4. op[o].kind # "send"
  BY <1>1 DEF TypeInv, About
<1> QED BY <1>1, <1>2, <1>3, <1>4, TxReads DEF Inserted

LEMMA TxRollback ==
  ASSUME TypeInv, Transactions, TypeInv', NEW o \in Op, Rollback(o) PROVE Transactions'
<1>1. pc' = [pc EXCEPT ![o] = pc'[o]] /\ pc'[o] = "failed" /\ plan' = [plan EXCEPT ![o] = plan'[o]]
  BY DEF Rollback, TypeInv
<1>2. Release(o) /\ UNCHANGED <<db, op, pushed>>
  BY DEF Rollback
<1>3. Others(o)
  BY <1>1, <1>2, Releases, OthersAlone
<1>4. own'[o] = <<>> /\ shared'[o] = {}
  BY <1>2, Releases
<1>5. Sound(o)'
  BY <1>1, <1>2, <1>4, SoundEnds DEF Ended, Announced
<1>6. Locked'
  <2>1. Written(o)' = {}
    BY <1>4, NothingIs DEF Written
  <2> QED BY <1>3, <1>4, <2>1, LockedKept DEF Transactions
<1> QED BY <1>2, <1>3, <1>5, <1>6, SoundByCall

(* What a commit does to the committed rows. *)
LEMMA CommitRows ==
  ASSUME TypeInv, NEW o \in Op, db' = Over(own[o], db)
  PROVE  /\ \A r \in Written(o) : db'[r] = own[o][r]
         /\ \A r \in Row \ Written(o) : db'[r] = db[r]
<1> DEFINE mine == own[o]
           base == db
<1>1. Written(o) = DOMAIN mine /\ DOMAIN base = Row /\ db' = Over(mine, base)
  BY DEF Written, TypeInv
<1> HIDE DEF mine, base
<1>2. /\ \A r \in DOMAIN mine : Over(mine, base)[r] = mine[r]
      /\ \A r \in DOMAIN base \ DOMAIN mine : Over(mine, base)[r] = base[r]
  BY OverIs
<1> QED BY <1>1, <1>2 DEF mine, base

LEMMA CommitMessages ==
  ASSUME TypeInv, Transactions, NEW o \in Op, db' = Over(own[o], db)
  PROVE  /\ \A m \in Msg : ~(Inserted(o) /\ m = op[o].msg) =>
              (db'[MsgRow(m)] = db[MsgRow(m)]
               \/ (Stored(db, m) /\ db'[MsgRow(m)] = [db[MsgRow(m)] EXCEPT !.state = "revoked"]))
         /\ ~Inserted(o) => db'[SeqRow] = db[SeqRow]
         /\ Inserted(o) =>
              /\ op[o].msg \in Msg /\ ~Stored(db, op[o].msg) /\ db'[SeqRow] = db[SeqRow] + 1
              /\ db'[MsgRow(op[o].msg)] = [seq |-> db[SeqRow] + 1, by |-> op[o].user,
                                           state |-> "normal", invalid |-> ~op[o].deliver]
<1>1. Numbers(o) /\ Marks(o)
  BY DEF Transactions, Sound
<1>2. ASSUME NEW m \in Msg, ~(Inserted(o) /\ m = op[o].msg)
      PROVE  db'[MsgRow(m)] = db[MsgRow(m)]
             \/ (Stored(db, m) /\ db'[MsgRow(m)] = [db[MsgRow(m)] EXCEPT !.state = "revoked"])
  <2>1. CASE MsgRow(m) \in Written(o)
    BY <1>1, <1>2, <2>1, CommitRows DEF Marks
  <2>2. CASE MsgRow(m) \notin Written(o)
    BY <2>2, CommitRows, RowIs
  <2> QED BY <2>1, <2>2
<1>3. ~Inserted(o) => db'[SeqRow] = db[SeqRow]
  BY <1>1, CommitRows, RowIs DEF Numbers
<1>4. Inserted(o) => op[o].msg \in Msg
  BY DEF TypeInv, About, Inserted
<1>5. Inserted(o) => db'[SeqRow] = own[o][SeqRow] /\ db'[MsgRow(op[o].msg)] = own[o][MsgRow(op[o].msg)]
  BY <1>1, CommitRows DEF Numbers
<1>6. Inserted(o) =>
         /\ ~Stored(db, op[o].msg) /\ own[o][SeqRow] = db[SeqRow] + 1
         /\ own[o][MsgRow(op[o].msg)] = [seq |-> db[SeqRow] + 1, by |-> op[o].user,
                                         state |-> "normal", invalid |-> ~op[o].deliver]
  BY <1>1 DEF Numbers
<1> QED BY <1>2, <1>3, <1>4, <1>5, <1>6

LEMMA CommitGrows ==
  ASSUME TypeInv, Transactions, NEW o \in Op, db' = Over(own[o], db)
  PROVE  /\ Grows
         /\ \A m \in Msg : Stored(db', m) <=> Stored(db, m) \/ (Inserted(o) /\ m = op[o].msg)
         /\ \A u \in User, m \in Msg : db[EraseRow(u, m)] => db'[EraseRow(u, m)]
         /\ \A u \in User : db'[SessionRow(u)].unread <= Allowed(o, u)
<1>1. ASSUME NEW m \in Msg, ~(Inserted(o) /\ m = op[o].msg)
      PROVE  /\ db'[MsgRow(m)].seq = db[MsgRow(m)].seq
             /\ db'[MsgRow(m)].by = db[MsgRow(m)].by
             /\ db'[MsgRow(m)].invalid = db[MsgRow(m)].invalid
             /\ db[MsgRow(m)].state = "revoked" => db'[MsgRow(m)].state = "revoked"
             /\ Stored(db', m) <=> Stored(db, m)
  <2> DEFINE old == db[MsgRow(m)]
             new == db'[MsgRow(m)]
  <2>1. old \in Message
    BY RowIs DEF TypeInv, Typed
  <2>2. new = old \/ (old.state # "none" /\ new = [old EXCEPT !.state = "revoked"])
    BY <1>1, CommitMessages DEF Stored
  <2> HIDE DEF old, new
  <2>3. /\ new.seq = old.seq /\ new.by = old.by /\ new.invalid = old.invalid
        /\ (old.state = "revoked" => new.state = "revoked") /\ (new.state # "none" <=> old.state # "none")
    BY <2>1, <2>2 DEF Message
  <2> QED BY <2>3 DEF old, new, Stored
<1>2. Inserted(o) => ~Stored(db, op[o].msg) /\ Stored(db', op[o].msg)
  <2>1. Inserted(o) => /\ ~Stored(db, op[o].msg)
                       /\ db'[MsgRow(op[o].msg)] = [seq |-> db[SeqRow] + 1, by |-> op[o].user,
                                                    state |-> "normal", invalid |-> ~op[o].deliver]
    BY CommitMessages
  <2>2. Inserted(o) => db'[MsgRow(op[o].msg)].state = "normal"
    BY <2>1
  <2> QED BY <2>1, <2>2 DEF Stored
<1>3. Grows
  BY <1>1, <1>2 DEF Grows
<1>4. \A m \in Msg : Stored(db', m) <=> Stored(db, m) \/ (Inserted(o) /\ m = op[o].msg)
  BY <1>1, <1>2
<1>5. \A u \in User, m \in Msg : db[EraseRow(u, m)] => db'[EraseRow(u, m)]
  <2>1. Marks(o)
    BY DEF Transactions, Sound
  <2> QED BY <2>1, CommitRows, RowIs DEF Marks
<1>6. ASSUME NEW u \in User PROVE db'[SessionRow(u)].unread <= Allowed(o, u)
  <2>1. CASE SessionRow(u) \in Written(o)
    BY <2>1, CommitRows DEF Transactions, Sound, Counts, Allowed
  <2>2. CASE SessionRow(u) \notin Written(o)
    BY <2>2, CommitRows, RowIs, AllowedIs
  <2> QED BY <2>1, <2>2
<1> QED BY <1>3, <1>4, <1>5, <1>6

LEMMA TxCommit ==
  ASSUME TypeInv, Transactions, TypeInv', NEW o \in Op, Commit(o) \/ CommitLost(o) PROVE Transactions'
<1>1. pc[o] = "commit" /\ pc' = [pc EXCEPT ![o] = pc'[o]] /\ pc'[o] \in {"push", "done", "failed"}
      /\ (pc'[o] = "push" => op[o].kind = "send")
  <2>1. CASE Commit(o)
    <3> DEFINE to == IF op[o].kind = "send" THEN "push" ELSE "done"
    <3>1. pc[o] = "commit" /\ pc'[o] = to /\ pc' = [pc EXCEPT ![o] = pc'[o]]
      BY <2>1, Steps DEF Commit
    <3> QED BY <3>1
  <2>2. CASE CommitLost(o)
    BY <2>2, Steps DEF CommitLost
  <2> QED BY <2>1, <2>2
<1>2. db' = Over(own[o], db) /\ Release(o) /\ UNCHANGED <<op, plan, pushed>>
  BY DEF Commit, CommitLost
<1>3. Others(o) /\ own'[o] = <<>> /\ shared'[o] = {}
  BY <1>1, <1>2, Releases, OthersAlone
<1>4. Grows
  BY <1>2, CommitGrows
<1>5. ASSUME NEW p \in Op \ {o} PROVE Sound(p)'
  <2>1. Written(p) \cap Written(o) = {} /\ Written(p) \subseteq Row /\ Sound(p)
    BY DEF Transactions, Locked, TypeInv, Typed, Written
  <2>2. \A r \in Written(p) : db'[r] = db[r]
    BY <1>2, <2>1, CommitRows
  <2> QED BY <1>3, <1>4, <2>1, <2>2, SoundKept
<1>6. Sound(o)'
  <2>1. op[o].kind \in {"revoke", "delete"} => op[o].msg \in Msg /\ Stored(db, op[o].msg)
    BY <1>1 DEF TypeInv, About, Transactions, Sound, Marks
  <2>2. op[o].kind \in {"revoke", "delete"} => Stored(db', op[o].msg)
    BY <1>4, <2>1 DEF Grows
  <2>3. Announced(o)'
    <3>1. SUFFICES ASSUME pc'[o] = "push"
                   PROVE  Stored(db', op[o].msg) /\ db'[MsgRow(op[o].msg)].invalid = ~op[o].deliver
      BY <1>2 DEF Announced
    <3>2. Inserted(o)
      BY <1>1, <3>1 DEF Inserted
    <3>3. db'[MsgRow(op[o].msg)] = [seq |-> db[SeqRow] + 1, by |-> op[o].user,
                                    state |-> "normal", invalid |-> ~op[o].deliver]
      BY <1>2, <3>2, CommitMessages
    <3> QED BY <3>3 DEF Stored
  <2> QED BY <1>1, <1>2, <1>3, <2>2, <2>3, SoundEnds DEF Ended
<1>7. Locked'
  <2>1. Written(o)' = {}
    BY <1>3, NothingIs DEF Written
  <2> QED BY <1>3, <2>1, LockedKept DEF Transactions
<1> QED BY <1>5, <1>6, <1>7 DEF Transactions

LEMMA AltersGrows ==
  ASSUME TypeInv, NEW o \in Op, NEW u \in User, Alters(o, u)
  PROVE  /\ Grows /\ db'[SeqRow] = db[SeqRow]
         /\ \A m \in Msg : db'[MsgRow(m)] = db[MsgRow(m)]
         /\ \A v \in User, m \in Msg : db'[EraseRow(v, m)] = db[EraseRow(v, m)]
<1>1. \A r \in Row \ {SessionRow(u)} : db'[r] = db[r]
  BY AltersIs
<1>2. db'[SeqRow] = db[SeqRow] /\ \A m \in Msg : db'[MsgRow(m)] = db[MsgRow(m)]
  BY <1>1, RowIs, RowsDiffer
<1>3. \A v \in User, m \in Msg : db'[EraseRow(v, m)] = db[EraseRow(v, m)]
  BY <1>1, RowIs, RowsDiffer
<1> QED BY <1>2, <1>3 DEF Grows, Stored

LEMMA TxAlters ==
  ASSUME TypeInv, Transactions, TypeInv', NEW o \in Op, NEW u \in User, Alters(o, u) PROVE Transactions'
<1>1. /\ pc[o] = "idle" /\ pc'[o] = "done" /\ UNCHANGED <<own, shared, op, plan, pushed>> /\ Others(o)
      /\ Alone(o, u) /\ \A r \in Row \ {SessionRow(u)} : db'[r] = db[r]
  BY AltersIs
<1>2. Grows
  BY AltersGrows
<1>3. ASSUME NEW p \in Op \ {o} PROVE Sound(p)'
  <2>1. SessionRow(u) \notin Written(p) /\ Written(p) \subseteq Row /\ Sound(p)
    BY <1>1 DEF Alone, CanWrite, CanShare, Transactions, TypeInv, Typed, Written
  <2> QED BY <1>1, <1>2, <2>1, SoundKept
<1>4. Sound(o)'
  <2>1. Written(o) = {} /\ Sound(o)
    BY <1>1 DEF TypeInv, Unlocked, Ended, Transactions
  <2>2. Written(o)' = {} /\ ~Inserted(o)'
    BY <1>1, <2>1 DEF Written, Inserted
  <2>3. op[o].kind \in {"revoke", "delete"} => Stored(db', op[o].msg)
    BY <1>1, <1>2, <2>1 DEF Sound, Marks, Grows, TypeInv, About
  <2> QED BY <1>1, <2>2, <2>3 DEF Sound, Numbers, Marks, Counts, Announced
<1>5. Locked'
  BY <1>1, LockedKept DEF Transactions, Written
<1> QED BY <1>3, <1>4, <1>5 DEF Transactions

LEMMA TxStutter == ASSUME TypeInv, Transactions, UNCHANGED vars PROVE Transactions'
<1>1. db' = db /\ own' = own /\ shared' = shared /\ op' = op /\ pc' = pc
  BY DEF vars
<1>2. ASSUME NEW o \in Op PROVE Sound(o)'
  BY <1>1 DEF Transactions, Sound, Numbers, Marks, Counts, Announced, Inserted, Written
<1> QED BY <1>1, <1>2 DEF Transactions, Locked, Written

LEMMA TxStep == ASSUME TypeInv, Transactions, [Next]_vars PROVE Transactions'
<1>0. TypeInv'
  BY TypeStep
<1>1. CASE UNCHANGED vars
  BY <1>1, TxStutter
<1>2. ASSUME NEW o \in Op, NEW u \in User, Alters(o, u) PROVE Transactions'
  BY <1>0, <1>2, TxAlters
<1>3. ASSUME NEW o \in Op, NEW u \in User,
             \/ \E k \in {"send", "revoke", "delete"}, m \in Msg : Begin(o, k, u, m)
             \/ \E k \in {"clear", "wipe"} : Begin(o, k, u, NoMsg)
      PROVE  Transactions'
  <2>1. ASSUME NEW k \in {"send", "revoke", "delete"}, NEW m \in Msg, Begin(o, k, u, m) PROVE Transactions'
    BY <1>0, <2>1, TxBegin
  <2>2. ASSUME NEW k \in {"clear", "wipe"}, Begin(o, k, u, NoMsg) PROVE Transactions'
    BY <1>0, <2>2, TxBegin
  <2> QED BY <1>3, <2>1, <2>2
<1>4. ASSUME NEW o \in Op, Send(o) PROVE Transactions'
  BY <1>0, <1>4, TxFindTalk, TxInsert, TxSenderSession, TxReceiverSession, TxSessionFails, TxBump, TxPush DEF Send
<1>5. ASSUME NEW o \in Op, Remove(o) PROVE Transactions'
  BY <1>0, <1>5, TxMarkRevoked, TxMarkDeleted, TxMarkAll, TxList, TxApply, TxApplied DEF Remove
<1>6. ASSUME NEW o \in Op, Commit(o) \/ CommitLost(o) \/ Fail(o) \/ Duplicate(o) PROVE Transactions'
  BY <1>0, <1>6, TxCommit, TxRollback DEF Fail, Duplicate
<1> QED BY <1>1, <1>2, <1>3, <1>4, <1>5, <1>6 DEF Next, Proceed, Alters

LEMMA TransactionsAlways == Spec => [](TypeInv /\ Transactions)
BY TypeInit, TypeStep, TransactionsInit, TxStep, PTL DEF Spec

------------------------------------------------------------------------------
(* The committed rows *)

(* Only a commit and a single statement change them. *)
LEMMA DbSteps ==
  ASSUME [Next]_vars
  PROVE  \/ db' = db
         \/ \E o \in Op : pc[o] = "commit" /\ op' = op /\ db' = Over(own[o], db)
         \/ \E o \in Op, u \in User : Alters(o, u)
<1>1. CASE UNCHANGED vars
  BY <1>1 DEF vars
<1>2. ASSUME NEW o \in Op, Send(o) \/ Remove(o) \/ Fail(o) \/ Duplicate(o) PROVE db' = db
  BY <1>2 DEF Send, FindTalk, Insert, SenderSession, ReceiverSession, SessionFails, Bump, Push,
              Remove, MarkRevoked, MarkDeleted, MarkAll, List, Apply, Applied, ApplyFails,
              Fail, Duplicate, Rollback
<1>3. ASSUME NEW o \in Op, NEW k, NEW u, NEW m, Begin(o, k, u, m) PROVE db' = db
  BY <1>3 DEF Begin
<1>4. ASSUME NEW o \in Op, Commit(o) \/ CommitLost(o)
      PROVE  pc[o] = "commit" /\ op' = op /\ db' = Over(own[o], db)
  BY <1>4 DEF Commit, CommitLost, Step
<1> QED BY <1>1, <1>2, <1>3, <1>4 DEF Next, Proceed, Alters

(* Only Push changes what is pushed. *)
LEMMA PushSteps ==
  ASSUME [Next]_vars
  PROVE  pushed' = pushed \/ \E o \in Op : Push(o)
<1>1. CASE UNCHANGED vars
  BY <1>1 DEF vars
<1>2. ASSUME NEW o \in Op, Send(o) PROVE pushed' = pushed \/ Push(o)
  BY <1>2 DEF Send, FindTalk, Insert, SenderSession, ReceiverSession, SessionFails, Bump
<1>3. ASSUME NEW o \in Op, Remove(o) PROVE pushed' = pushed
  BY <1>3 DEF Remove, MarkRevoked, MarkDeleted, MarkAll, List, Apply, Applied, ApplyFails
<1>4. ASSUME NEW o \in Op, Commit(o) \/ CommitLost(o) \/ Fail(o) \/ Duplicate(o) PROVE pushed' = pushed
  BY <1>4 DEF Commit, CommitLost, Fail, Duplicate, Rollback
<1>5. ASSUME NEW o \in Op, NEW u, Alters(o, u) PROVE pushed' = pushed
  BY <1>5 DEF Alters, ClearUnread, RemoveSession, OpenSession, Single
<1>6. ASSUME NEW o \in Op, NEW k, NEW u, NEW m, Begin(o, k, u, m) PROVE pushed' = pushed
  BY <1>6 DEF Begin
<1> QED BY <1>1, <1>2, <1>3, <1>4, <1>5, <1>6 DEF Next, Proceed, Alters

LEMMA NoGapsStep ==
  ASSUME TypeInv, Transactions, NoGaps, [Next]_vars
  PROVE  NoGaps'
<1> DEFINE at(d, s) == {m \in Msg : Stored(d, m) /\ d[MsgRow(m)].seq = s}
           last == db[SeqRow]
<1>1. /\ \A s \in 1..last : \E m \in Msg : at(db, s) = {m}
      /\ \A m \in Msg : Stored(db, m) => db[MsgRow(m)].seq \in 1..last
  BY DEF NoGaps
<1>2. last \in Nat
  BY RowIs DEF TypeInv, Typed
<1>3. ASSUME db'[SeqRow] = last, \A m \in Msg : Stored(db', m) <=> Stored(db, m),
             \A m \in Msg : Stored(db, m) => db'[MsgRow(m)].seq = db[MsgRow(m)].seq
      PROVE  NoGaps'
  <2>1. \A s : at(db', s) = at(db, s)
    BY <1>3
  <2>2. /\ \A s \in 1..db'[SeqRow] : \E m \in Msg : at(db', s) = {m}
        /\ \A m \in Msg : Stored(db', m) => db'[MsgRow(m)].seq \in 1..db'[SeqRow]
    BY <1>1, <1>3, <2>1
  <2> QED BY <2>2 DEF NoGaps, Stored
<1>4. CASE db' = db
  BY <1>3, <1>4
<1>5. ASSUME NEW o \in Op, NEW u \in User, Alters(o, u) PROVE NoGaps'
  <2>1. db'[SeqRow] = db[SeqRow] /\ \A m \in Msg : db'[MsgRow(m)] = db[MsgRow(m)]
    BY <1>5, AltersGrows
  <2> QED BY <1>3, <2>1 DEF Stored
<1>6. ASSUME NEW o \in Op, pc[o] = "commit", db' = Over(own[o], db) PROVE NoGaps'
  <2>1. /\ \A m \in Msg : Stored(db', m) <=> Stored(db, m) \/ (Inserted(o) /\ m = op[o].msg)
        /\ \A m \in Msg : Stored(db, m) => db'[MsgRow(m)].seq = db[MsgRow(m)].seq
    BY <1>6, CommitGrows DEF Grows
  <2>2. CASE ~Inserted(o)
    BY <1>3, <1>6, <2>1, <2>2, CommitMessages
  <2>3. CASE Inserted(o)
    <3> DEFINE n == op[o].msg
    <3>1. n \in Msg /\ ~Stored(db, n) /\ db'[SeqRow] = last + 1
      BY <1>6, <2>3, CommitMessages
    <3>2. db'[MsgRow(n)] = [seq |-> last + 1, by |-> op[o].user, state |-> "normal", invalid |-> ~op[o].deliver]
      BY <1>6, <2>3, CommitMessages
    <3>3. db'[MsgRow(n)].seq = last + 1 /\ Stored(db', n)
      BY <3>2 DEF Stored
    <3> HIDE DEF last
    <3>4. \A m \in Msg : Stored(db', m) <=> Stored(db, m) \/ m = n
      BY <2>1, <2>3
    <3>5. ASSUME NEW s \in 1..last PROVE at(db', s) = at(db, s)
      <4>1. s # last + 1
        BY <1>2
      <4> QED BY <2>1, <3>1, <3>3, <3>4, <4>1
    <3>6. at(db', last + 1) = {n}
      <4>1. ASSUME NEW m \in Msg, Stored(db, m) PROVE db'[MsgRow(m)].seq # last + 1
        <5>1. db'[MsgRow(m)].seq \in 1..last
          BY <1>1, <2>1, <4>1
        <5> QED BY <1>2, <5>1
      <4> QED BY <3>1, <3>3, <3>4, <4>1
    <3>7. ASSUME NEW s \in 1..db'[SeqRow] PROVE \E m \in Msg : at(db', s) = {m}
      <4>1. s \in 1..last \/ s = last + 1
        BY <1>2, <3>1, <3>7
      <4> HIDE DEF at
      <4> QED BY <1>1, <3>1, <3>5, <3>6, <4>1
    <3>8. ASSUME NEW m \in Msg, Stored(db', m) PROVE db'[MsgRow(m)].seq \in 1..db'[SeqRow]
      <4>1. db'[MsgRow(m)].seq \in 1..last \/ db'[MsgRow(m)].seq = last + 1
        BY <1>1, <2>1, <3>3, <3>4, <3>8
      <4> QED BY <1>2, <3>1, <4>1
    <3> QED BY <3>7, <3>8 DEF NoGaps, Stored
  <2> QED BY <2>2, <2>3
<1> QED BY <1>4, <1>5, <1>6, DbSteps

LEMMA NoGapsInit == Init => NoGaps
<1> SUFFICES ASSUME Init PROVE NoGaps
  OBVIOUS
<1>1. db[SeqRow] = 0 /\ \A m \in Msg : ~Stored(db, m)
  BY InitRows, RowIs DEF Stored
<1> QED BY <1>1 DEF NoGaps

(* The messages that count as unread for a user. *)
LEMMA UnreadStep ==
  ASSUME TypeInv, Transactions, UnreadIsBacked, [Next]_vars
  PROVE  UnreadIsBacked'
<1> DEFINE Sent(d, u) == {m \in Msg : Stored(d, m) /\ d[MsgRow(m)].by # u}
<1>1. ASSUME NEW u \in User
      PROVE  /\ IsFiniteSet(Sent(db, u)) /\ Cardinality(Sent(db, u)) \in Nat
             /\ db[SessionRow(u)].unread \in Nat /\ db[SessionRow(u)].unread <= Cardinality(Sent(db, u))
  <2>1. Sent(db, u) \subseteq There(db)
    BY RowIs DEF There, TypeInv
  <2>2. IsFiniteSet(Sent(db, u))
    BY <2>1, FS_Subset DEF TypeInv, Typed
  <2>3. db[SessionRow(u)].unread \in Nat
    <3>1. db[SessionRow(u)] \in Session
      BY RowIs DEF TypeInv, Typed
    <3> QED BY <3>1 DEF Session
  <2>4. Cardinality(Sent(db, u)) \in Nat
    <3> HIDE DEF Sent
    <3> QED BY <2>2, FS_CardinalityType
  <2> QED BY <2>2, <2>3, <2>4 DEF UnreadIsBacked
<1>2. TypeInv'
  BY TypeStep
<1>3. ASSUME NEW u \in User
      PROVE  /\ IsFiniteSet(Sent(db', u)) /\ Cardinality(Sent(db', u)) \in Nat
             /\ db'[SessionRow(u)].unread \in Nat
  <2>1. Sent(db', u) \subseteq There(db')
    BY <1>2, RowIs DEF There, TypeInv
  <2>2. IsFiniteSet(Sent(db', u))
    BY <1>2, <2>1, FS_Subset DEF TypeInv, Typed
  <2>3. db'[SessionRow(u)].unread \in Nat
    <3>1. db'[SessionRow(u)] \in Session
      BY <1>2, RowIs DEF TypeInv, Typed
    <3> QED BY <3>1 DEF Session
  <2>4. Cardinality(Sent(db', u)) \in Nat
    <3> HIDE DEF Sent
    <3> QED BY <2>2, FS_CardinalityType
  <2> QED BY <2>2, <2>3, <2>4
<1>4. ASSUME NEW u \in User, Sent(db, u) \subseteq Sent(db', u),
             db'[SessionRow(u)].unread <= db[SessionRow(u)].unread
      PROVE  db'[SessionRow(u)].unread <= Cardinality(Sent(db', u))
  <2>1. Cardinality(Sent(db, u)) <= Cardinality(Sent(db', u))
    <3> HIDE DEF Sent
    <3> QED BY <1>3, <1>4, FS_Subset
  <2> HIDE DEF Sent
  <2> QED BY <1>1, <1>3, <1>4, <2>1
<1>5. SUFFICES ASSUME NEW u \in User
               PROVE  db'[SessionRow(u)].unread <= Cardinality(Sent(db', u))
  BY DEF UnreadIsBacked, Stored
<1>6. CASE db' = db
  BY <1>1, <1>6
<1>7. ASSUME NEW o \in Op, NEW v \in User, Alters(o, v)
      PROVE  db'[SessionRow(u)].unread <= Cardinality(Sent(db', u))
  <2>1. Sent(db, u) \subseteq Sent(db', u)
    BY <1>7, AltersGrows DEF Grows
  <2>2. db'[SessionRow(u)].unread <= db[SessionRow(u)].unread
    <3>1. /\ \A r \in Row \ {SessionRow(v)} : db'[r] = db[r]
          /\ db'[SessionRow(v)].unread <= db[SessionRow(v)].unread
      BY <1>7, AltersIs
    <3>2. SessionRow(u) \in Row /\ (u # v => SessionRow(u) # SessionRow(v))
      BY RowIs, RowsDiffer
    <3>3. CASE u = v
      BY <3>1, <3>3
    <3>4. CASE u # v
      <4>1. db'[SessionRow(u)] = db[SessionRow(u)]
        BY <3>1, <3>2, <3>4
      <4>2. db[SessionRow(u)].unread \in Nat
        BY <1>1
      <4> QED BY <4>1, <4>2
    <3> QED BY <3>3, <3>4
  <2> QED BY <1>4, <2>1, <2>2
<1>8. ASSUME NEW o \in Op, pc[o] = "commit", db' = Over(own[o], db)
      PROVE  db'[SessionRow(u)].unread <= Cardinality(Sent(db', u))
  <2>1. /\ Grows /\ db'[SessionRow(u)].unread <= Allowed(o, u)
    BY <1>8, CommitGrows
  <2>2. Sent(db, u) \subseteq Sent(db', u)
    BY <2>1 DEF Grows
  <2>3. CASE op[o].kind = "send" /\ u # op[o].user
    <3> DEFINE n == op[o].msg
    <3>1. Inserted(o)
      BY <1>8, <2>3 DEF Inserted
    <3>2. n \in Msg /\ ~Stored(db, n)
      BY <1>8, <3>1, CommitMessages
    <3>3. db'[MsgRow(n)] = [seq |-> db[SeqRow] + 1, by |-> op[o].user, state |-> "normal", invalid |-> ~op[o].deliver]
      BY <1>8, <3>1, CommitMessages
    <3>4. db'[MsgRow(n)].by = op[o].user /\ Stored(db', n)
      BY <3>3 DEF Stored
    <3> HIDE DEF n
    <3>5. Sent(db, u) \cup {n} \subseteq Sent(db', u) /\ n \notin Sent(db, u)
      BY <2>2, <2>3, <3>2, <3>4
    <3> DEFINE S == Sent(db, u)
               T == Sent(db', u)
    <3>6. /\ IsFiniteSet(S) /\ IsFiniteSet(T) /\ S \cup {n} \subseteq T /\ n \notin S
          /\ Cardinality(S) \in Nat /\ Cardinality(T) \in Nat /\ db[SessionRow(u)].unread <= Cardinality(S)
      BY <1>1, <1>3, <3>5
    <3> HIDE DEF S, T
    <3>7. Cardinality(S \cup {n}) = Cardinality(S) + 1 /\ Cardinality(S \cup {n}) <= Cardinality(T)
      BY <3>6, FS_AddElement, FS_Subset
    <3>8. Allowed(o, u) = db[SessionRow(u)].unread + 1
      BY <1>8, <2>3 DEF Allowed
    <3>9. db[SessionRow(u)].unread \in Nat /\ db'[SessionRow(u)].unread \in Nat
      BY <1>1, <1>3
    <3>10. db'[SessionRow(u)].unread <= Cardinality(T)
      BY <2>1, <3>6, <3>7, <3>8, <3>9
    <3> QED BY <3>10 DEF T
  <2>4. CASE ~(op[o].kind = "send" /\ u # op[o].user)
    <3>1. Allowed(o, u) = db[SessionRow(u)].unread
      BY <2>4 DEF Allowed
    <3> QED BY <1>4, <2>1, <2>2, <3>1
  <2> QED BY <2>3, <2>4
<1> QED BY <1>6, <1>7, <1>8, DbSteps

LEMMA UnreadInit == Init => UnreadIsBacked
<1> SUFFICES ASSUME Init, NEW u \in User
             PROVE  db[SessionRow(u)].unread <= Cardinality({m \in Msg : Stored(db, m) /\ db[MsgRow(m)].by # u})
  BY DEF UnreadIsBacked
<1>1. db[SessionRow(u)].unread = 0 /\ \A m \in Msg : ~Stored(db, m)
  BY InitRows, RowIs DEF Stored
<1>2. {m \in Msg : Stored(db, m) /\ db[MsgRow(m)].by # u} = {}
  BY <1>1
<1> QED BY <1>1, <1>2, FS_EmptySet

(* Only what is stored is pushed, to whom it is for. *)
LEMMA PushedStep ==
  ASSUME TypeInv, Transactions, PushedIsVisible, [Next]_vars
  PROVE  PushedIsVisible'
<1> DEFINE Fine(d, u, m) == Stored(d, m) /\ (~d[MsgRow(m)].invalid \/ d[MsgRow(m)].by = u)
<1>1. Grows
  BY DbSteps, CommitGrows, AltersGrows DEF Grows
<1>2. ASSUME NEW u \in User, NEW m \in Msg, Fine(db, u, m) PROVE Fine(db', u, m)
  BY <1>1, <1>2 DEF Grows
<1>3. ASSUME NEW u \in User, NEW m \in Msg, <<u, m>> \in pushed' \ pushed PROVE Fine(db, u, m)
  <2>1. PICK o \in Op : Push(o)
    BY <1>3, PushSteps
  <2>2. pc[o] = "push" /\ op[o].msg \in Msg /\ op[o].user \in User
    BY <2>1 DEF Push, Step, TypeInv, About, Call
  <2>3. m = op[o].msg /\ (Mode = "group" \/ op[o].deliver)
    BY <1>3, <2>1 DEF Push
  <2>4. op[o].deliver
    BY <2>3 DEF TypeInv, About
  <2>5. Stored(db, m) /\ ~db[MsgRow(m)].invalid
    BY <2>2, <2>3, <2>4 DEF Transactions, Sound, Announced
  <2> QED BY <2>5
<1>4. ASSUME NEW u \in User, NEW m \in Msg, <<u, m>> \in pushed' PROVE Fine(db', u, m)
  <2>1. Fine(db, u, m)
    BY <1>3, <1>4 DEF PushedIsVisible
  <2> QED BY <1>2, <2>1
<1> QED BY <1>4 DEF PushedIsVisible, Stored

(* The sequence numbers of a talk are 1, 2, 3, ... without a gap and       *)
(* without a duplicate (nextSeq), for any calls at the same time.          *)
THEOREM NoGapsHolds == Spec => []NoGaps
<1>1. TypeInv /\ Transactions /\ NoGaps /\ [Next]_vars => NoGaps'
  BY NoGapsStep
<1> QED BY <1>1, NoGapsInit, TransactionsAlways, PTL DEF Spec

(* An unread counter never counts more than what others sent               *)
(* (bumpOnNewMessage, clearSessionUnreadNum).                              *)
THEOREM UnreadIsBackedHolds == Spec => []UnreadIsBacked
<1>1. TypeInv /\ Transactions /\ UnreadIsBacked /\ [Next]_vars => UnreadIsBacked'
  BY UnreadStep
<1> QED BY <1>1, UnreadInit, TransactionsAlways, PTL DEF Spec

(* A client is told of a message only after it is stored for good, and     *)
(* never of one it must not see (PushImMessage).                           *)
THEOREM PushedIsVisibleHolds == Spec => []PushedIsVisible
<1>1. TypeInv /\ Transactions /\ PushedIsVisible /\ [Next]_vars => PushedIsVisible'
  BY PushedStep
<1>2. Init => PushedIsVisible
  BY DEF Init, PushedIsVisible
<1> QED BY <1>1, <1>2, TransactionsAlways, PTL DEF Spec

(* What was revoked or deleted never comes back, and the number of a       *)
(* message never changes (Revoke, MarkUserDelete, nextSeq).                *)
THEOREM GoneForGoodHolds == Spec => GoneForGood
<1> DEFINE Gone == \A m \in Msg :
        /\ db[MsgRow(m)].state = "revoked" => db'[MsgRow(m)].state = "revoked"
        /\ \A u \in User : db[EraseRow(u, m)] => db'[EraseRow(u, m)]
        /\ Stored(db, m) => db'[MsgRow(m)].seq = db[MsgRow(m)].seq
<1>1. ASSUME TypeInv, Transactions, [Next]_vars PROVE Gone
  <2>1. Grows /\ \A u \in User, m \in Msg : db[EraseRow(u, m)] => db'[EraseRow(u, m)]
    BY <1>1, DbSteps, CommitGrows, AltersGrows DEF Grows
  <2> QED BY <2>1 DEF Grows, Stored
<1>2. TypeInv /\ Transactions /\ [Next]_vars => [Gone]_vars
  BY <1>1
<1>3. Spec => [][Gone]_vars
  BY <1>2, TransactionsAlways, PTL DEF Spec
<1> QED BY <1>3 DEF GoneForGood

------------------------------------------------------------------------------
(* The order of the locks *)

(* A send has locked the talk.  A deletion or a clear has no session until *)
(* it has nothing left to lock.  What is deleted or shown is stored, so no *)
(* send that runs has it.                                                  *)
Orderly(o) ==
  /\ shared[o] \subseteq Messages
  /\ op[o].kind = "send" /\ pc[o] \notin Ended \cup {"talk", "push"} => TalkRow \in Written(o)
  /\ pc[o] = "list" => Written(o) \cap Sessions = {}
  /\ op[o].kind \in {"delete", "clear", "wipe"} /\ pc[o] = "apply" =>
       /\ DOMAIN plan[o] \subseteq {op[o].user}
       /\ DOMAIN plan[o] = {} \/ Written(o) \cap Sessions = {}
  /\ \A m \in Msg : MsgRow(m) \in Written(o) => op[o].kind = "revoke" \/ (Inserted(o) /\ m = op[o].msg)
  /\ \A u \in User, m \in Msg : EraseRow(u, m) \in Written(o) =>
       Stored(db, m) \/ (Inserted(o) /\ m = op[o].msg)
  /\ \A u \in DOMAIN plan[o] : plan[o][u] # NoMsg => Stored(db, plan[o][u])

Order == \A o \in Op : Orderly(o)

LEMMA OrderInit == Init => Order
<1> SUFFICES ASSUME Init, NEW o \in Op PROVE Orderly(o)
  BY DEF Order
<1>1. own[o] = <<>> /\ shared[o] = {} /\ plan[o] = <<>> /\ pc[o] = "idle"
  BY DEF Init
<1>2. Written(o) = {} /\ DOMAIN plan[o] = {}
  BY <1>1, NothingIs DEF Written
<1> QED BY <1>1, <1>2 DEF Orderly, Ended

(* The committed messages stay. *)
LEMMA MessagesGrow == ASSUME TypeInv, Transactions, [Next]_vars PROVE Grows
BY DbSteps, CommitGrows, AltersGrows DEF Grows

(* The other calls. *)
LEMMA OrderByCall ==
  ASSUME TypeInv, Order, NEW o \in Op, Others(o), Grows, Orderly(o)'
  PROVE  Order'
<1>1. ASSUME NEW p \in Op \ {o} PROVE Orderly(p)'
  <2>1. own'[p] = own[p] /\ op'[p] = op[p] /\ pc'[p] = pc[p] /\ plan'[p] = plan[p] /\ shared'[p] = shared[p]
        /\ Written(p)' = Written(p) /\ (Inserted(p)' <=> Inserted(p))
    BY DEF Others, Written, Inserted, TypeInv
  <2>2. Orderly(p) /\ Planned(p)
    BY DEF Order, TypeInv
  <2>3. \A m \in Msg : Stored(db, m) => Stored(db', m)
    BY DEF Grows
  <2>4. \A u \in DOMAIN plan[p] : plan[p][u] # NoMsg => Stored(db', plan[p][u])
    BY <2>2, <2>3 DEF Orderly, Planned
  <2> QED BY <2>1, <2>2, <2>3, <2>4 DEF Orderly
<1> QED BY <1>1 DEF Order

(* A statement that changes neither the plan nor what is committed. *)
LEMMA OrderlyWrites ==
  ASSUME TypeInv, NEW o \in Op, Orderly(o), UNCHANGED <<db, plan>>, NEW rows,
         Written(o)' = rows \cup Written(o), op'[o].kind = op[o].kind, op'[o].msg = op[o].msg,
         shared'[o] \subseteq Messages,
         op[o].kind = "send" => (TalkRow \in rows \/ TalkRow \in Written(o)),
         pc'[o] = "list" => (rows \cup Written(o)) \cap Sessions = {},
         pc'[o] # "apply", Inserted(o) => Inserted(o)',
         \A m \in Msg : MsgRow(m) \in rows => op[o].kind = "revoke" \/ (Inserted(o)' /\ m = op[o].msg),
         \A u \in User, m \in Msg : EraseRow(u, m) \in rows => Stored(db, m) \/ (Inserted(o)' /\ m = op[o].msg)
  PROVE  Orderly(o)'
<1>1. \A u \in User, m \in Msg : EraseRow(u, m) \in Written(o)' => Stored(db, m) \/ (Inserted(o)' /\ m = op[o].msg)
  BY DEF Orderly
<1>2. \A u \in DOMAIN plan'[o] : plan'[o][u] # NoMsg => Stored(db', plan'[o][u])
  BY DEF Orderly
<1>3. op'[o].kind = "send" => TalkRow \in Written(o)'
  OBVIOUS
<1>4. pc'[o] = "list" => Written(o)' \cap Sessions = {}
  OBVIOUS
<1>5. \A m \in Msg : MsgRow(m) \in Written(o)' => op[o].kind = "revoke" \/ (Inserted(o)' /\ m = op[o].msg)
  BY DEF Orderly
<1> QED BY <1>1, <1>2, <1>3, <1>4, <1>5 DEF Orderly

LEMMA OrderBegin ==
  ASSUME TypeInv, Order, NEW o \in Op, NEW k, NEW u \in User, NEW m, Begin(o, k, u, m)
  PROVE  Orderly(o)' /\ Others(o)
<1>1. op'[o] = [kind |-> k, user |-> u, msg |-> m, deliver |-> TRUE] /\ pc'[o] = First(k) /\ pc[o] = "idle"
  BY DEF Begin, TypeInv
<1>2. db' = db /\ own' = own /\ shared' = shared /\ plan' = plan
  BY DEF Begin
<1>3. Others(o)
  <2>1. pc' = [pc EXCEPT ![o] = pc'[o]] /\ op' = [op EXCEPT ![o] = op'[o]]
    BY <1>1 DEF Begin
  <2> QED BY <1>2, <2>1, OthersAlone
<1>4. Written(o)' = {} /\ shared'[o] = {}
  BY <1>1, <1>2 DEF TypeInv, Unlocked, Ended, Written
<1>5. Orderly(o)
  BY DEF Order
<1>6. pc'[o] \in {"talk", "mark"} /\ (k = "send" => pc'[o] = "talk")
  BY <1>1 DEF First
<1>7. op'[o].kind = k
  BY <1>1
<1>8. \A w \in DOMAIN plan'[o] : plan'[o][w] # NoMsg => Stored(db', plan'[o][w])
  BY <1>2, <1>5 DEF Orderly
<1> QED BY <1>3, <1>4, <1>6, <1>7, <1>8 DEF Orderly

LEMMA OrderFindTalk ==
  ASSUME TypeInv, Order, NEW o \in Op, FindTalk(o) PROVE Orderly(o)' /\ Others(o)
<1> DEFINE change == Put(TalkRow, Mode)
<1>1. pc[o] = "talk" /\ pc'[o] = "insert" /\ pc' = [pc EXCEPT ![o] = pc'[o]]
  BY Steps DEF FindTalk
<1>2. UNCHANGED <<db, shared, op, plan, pushed>> /\ Write(o, change)
  BY DEF FindTalk
<1>3. Others(o) /\ DOMAIN change = {TalkRow}
  BY <1>1, <1>2, Writes, OthersAlone, PutIs
<1> HIDE DEF change
<1>4. Written(o)' = {TalkRow} \cup Written(o)
  BY <1>2, <1>3, WritesRows
<1>5. Orderly(o) /\ shared'[o] \subseteq Messages
  BY <1>2 DEF Order, Orderly
<1>6. \A u, m : EraseRow(u, m) # TalkRow /\ MsgRow(m) # TalkRow
  BY RowsDiffer
<1>7. ~Inserted(o)
  BY <1>1 DEF Inserted
<1> QED BY <1>1, <1>2, <1>3, <1>4, <1>5, <1>6, <1>7, OrderlyWrites

LEMMA OrderInsert ==
  ASSUME TypeInv, Order, NEW o \in Op, Insert(o) PROVE Orderly(o)' /\ Others(o)
<1> DEFINE row(d) == Put(MsgRow(op[o].msg), [seq |-> View(o)[SeqRow] + 1, by |-> op[o].user,
                                             state |-> "normal", invalid |-> ~d])
           two    == Put(SeqRow, View(o)[SeqRow] + 1)
           change(d) == Over(row(d), two)
<1>1. pc[o] = "insert" /\ pc'[o] = AfterInsert /\ pc' = [pc EXCEPT ![o] = pc'[o]]
  BY Steps DEF Insert
<1>2. PICK d \in BOOLEAN : Write(o, change(d)) /\ op' = [op EXCEPT ![o].deliver = d]
  BY DEF Insert
<1>3. UNCHANGED <<db, shared, plan, pushed>>
  BY DEF Insert
<1>4. op'[o].kind = op[o].kind /\ op'[o].msg = op[o].msg /\ op' = [op EXCEPT ![o] = op'[o]] /\ op[o].kind = "send"
  <2>1. op[o] \in Call /\ op'[o] = [op[o] EXCEPT !.deliver = d] /\ op' = [op EXCEPT ![o] = op'[o]]
    BY <1>2 DEF TypeInv
  <2>2. op[o].kind = "send"
    BY <1>1 DEF TypeInv, About
  <2> QED BY <2>1, <2>2 DEF Call
<1>5. Others(o)
  BY <1>1, <1>2, <1>3, <1>4, Writes, OthersAlone
<1>6. DOMAIN change(d) = {MsgRow(op[o].msg), SeqRow}
  <2> DEFINE one == row(d)
  <2>1. DOMAIN one = {MsgRow(op[o].msg)} /\ DOMAIN two = {SeqRow} /\ change(d) = Over(one, two)
    BY PutIs
  <2> HIDE DEF one, two, change
  <2>2. DOMAIN Over(one, two) = DOMAIN one \cup DOMAIN two
    BY OverIs
  <2> QED BY <2>1, <2>2
<1> DEFINE c == change(d)
<1>7. Write(o, c) /\ DOMAIN c = {MsgRow(op[o].msg), SeqRow}
  BY <1>2, <1>6
<1> HIDE DEF c
<1>8. Written(o)' = {MsgRow(op[o].msg), SeqRow} \cup Written(o)
  BY <1>7, WritesRows
<1>9. Orderly(o) /\ shared'[o] \subseteq Messages /\ TalkRow \in Written(o)
  BY <1>1, <1>3, <1>4 DEF Order, Orderly, Ended
<1>10. /\ \A u \in User, m \in Msg : EraseRow(u, m) \notin {MsgRow(op[o].msg), SeqRow}
       /\ \A m \in Msg : MsgRow(m) \in {MsgRow(op[o].msg), SeqRow} => m = op[o].msg
  BY RowsDiffer
<1>11. ~Inserted(o) /\ Inserted(o)' /\ pc'[o] # "list" /\ pc'[o] # "apply"
  BY <1>1, <1>4 DEF Inserted, AfterInsert
<1>12. UNCHANGED <<db, plan>>
  BY <1>3
<1>13. Orderly(o)'
  BY <1>4, <1>8, <1>9, <1>10, <1>11, <1>12, OrderlyWrites
<1> QED BY <1>5, <1>13

LEMMA OrderSession ==
  ASSUME TypeInv, Order, NEW o \in Op, SenderSession(o) \/ ReceiverSession(o) PROVE Orderly(o)' /\ Others(o)
<1> DEFINE u == IF SenderSession(o) THEN op[o].user ELSE Other(op[o].user)
           v == [View(o)[SessionRow(u)] EXCEPT !.state = "alive"]
           r == SessionRow(u)
           change == Put(r, v)
<1>1. pc[o] \in {"mine", "theirs"} /\ pc'[o] \in {"theirs", "bump"} /\ pc' = [pc EXCEPT ![o] = pc'[o]]
  <2>1. CASE SenderSession(o)
    <3> DEFINE to == IF op[o].deliver THEN "theirs" ELSE "bump"
    <3>1. pc[o] = "mine" /\ pc'[o] = to /\ pc' = [pc EXCEPT ![o] = pc'[o]]
      BY <2>1, Steps DEF SenderSession
    <3> QED BY <3>1
  <2>2. CASE ReceiverSession(o)
    BY <2>2, Steps DEF ReceiverSession
  <2> QED BY <2>1, <2>2
<1>2. Write(o, change) /\ UNCHANGED <<db, shared, op, plan, pushed>>
  BY DEF SenderSession, ReceiverSession, Restored
<1>3. Others(o)
  BY <1>1, <1>2, Writes, OthersAlone
<1>4. \A w, m : EraseRow(w, m) # r /\ MsgRow(m) # r
  BY RowsDiffer
<1> HIDE DEF u, v, r
<1>5. DOMAIN change = {r}
  BY PutIs
<1> HIDE DEF change
<1>6. Written(o)' = {r} \cup Written(o)
  BY <1>2, <1>5, WritesRows
<1>7. Orderly(o) /\ shared'[o] \subseteq Messages /\ op[o].kind = "send" /\ TalkRow \in Written(o)
  BY <1>1, <1>2 DEF Order, Orderly, TypeInv, About, Ended
<1>8. Inserted(o)' /\ pc'[o] \notin {"list", "apply"}
  BY <1>1, <1>2, <1>7 DEF Inserted
<1> QED BY <1>2, <1>3, <1>4, <1>6, <1>7, <1>8, OrderlyWrites

LEMMA OrderSessionFails ==
  ASSUME TypeInv, Order, NEW o \in Op, SessionFails(o) PROVE Orderly(o)' /\ Others(o)
<1>1. pc[o] \in {"mine", "theirs"} /\ pc'[o] \in {"theirs", "bump"} /\ pc' = [pc EXCEPT ![o] = pc'[o]]
  BY Steps DEF SessionFails
<1>2. UNCHANGED <<db, own, shared, op, plan, pushed>>
  BY DEF SessionFails
<1>3. Others(o)
  BY <1>1, <1>2, OthersAlone
<1>4. Orderly(o) /\ op[o].kind = "send"
  BY <1>1 DEF Order, TypeInv, About
<1>5. Written(o)' = Written(o) /\ (Inserted(o)' <=> Inserted(o))
  BY <1>1, <1>2 DEF Written, Inserted
<1> QED BY <1>1, <1>2, <1>3, <1>4, <1>5 DEF Orderly, Ended

LEMMA OrderBump ==
  ASSUME TypeInv, Order, NEW o \in Op, Bump(o) PROVE Orderly(o)' /\ Others(o)
<1> DEFINE one == Hidden(o)
           two == Bumps(o)
           change == Over(one, two)
<1>1. pc[o] = "bump" /\ pc'[o] = "commit" /\ pc' = [pc EXCEPT ![o] = pc'[o]]
  BY Steps DEF Bump
<1>2. UNCHANGED <<db, shared, op, plan, pushed>> /\ Write(o, change)
  BY DEF Bump, Bumps
<1>3. Others(o)
  BY <1>1, <1>2, Writes, OthersAlone
<1>4. DOMAIN one \subseteq {EraseRow(Other(op[o].user), op[o].msg)} /\ DOMAIN two = Sessions
  BY BumpsIs, PutIs, NothingIs DEF Hidden
<1> HIDE DEF one, two
<1>5. DOMAIN change = DOMAIN one \cup DOMAIN two
  BY OverIs
<1> HIDE DEF change
<1>6. Written(o)' = (DOMAIN one \cup Sessions) \cup Written(o)
  BY <1>2, <1>4, <1>5, WritesRows
<1>7. Orderly(o) /\ shared'[o] \subseteq Messages /\ op[o].kind = "send" /\ TalkRow \in Written(o)
  BY <1>1, <1>2 DEF Order, Orderly, TypeInv, About, Ended
<1>8. Inserted(o)'
  BY <1>1, <1>2, <1>7 DEF Inserted
<1>9. /\ \A u \in User, m \in Msg : EraseRow(u, m) \in DOMAIN one \cup Sessions => m = op[o].msg
      /\ \A m \in Msg : MsgRow(m) \notin DOMAIN one \cup Sessions
  BY <1>4, RowIs, RowsDiffer, TablesDiffer
<1> QED BY <1>1, <1>2, <1>3, <1>6, <1>7, <1>8, <1>9, OrderlyWrites

LEMMA OrderPush ==
  ASSUME TypeInv, Order, NEW o \in Op, Push(o) PROVE Orderly(o)' /\ Others(o)
<1>1. pc[o] = "push" /\ pc'[o] = "done" /\ pc' = [pc EXCEPT ![o] = pc'[o]]
  BY Steps DEF Push
<1>2. UNCHANGED <<db, own, shared, op, plan>>
  BY DEF Push
<1>3. Others(o)
  BY <1>1, <1>2, OthersAlone
<1>4. Orderly(o) /\ Written(o) = {} /\ Written(o)' = {}
  BY <1>1, <1>2 DEF Order, TypeInv, Unlocked, Written
<1> QED BY <1>1, <1>2, <1>3, <1>4 DEF Orderly, Ended

LEMMA OrderMarkRevoked ==
  ASSUME TypeInv, Order, NEW o \in Op, MarkRevoked(o) PROVE Orderly(o)' /\ Others(o)
<1> DEFINE r == MsgRow(op[o].msg)
           v == [View(o)[r] EXCEPT !.state = "revoked"]
           change == Put(r, v)
<1>1. pc[o] = "mark" /\ pc'[o] = "list" /\ pc' = [pc EXCEPT ![o] = pc'[o]]
  BY Steps DEF MarkRevoked
<1>2. UNCHANGED <<db, shared, op, plan, pushed>> /\ op[o].kind = "revoke" /\ Write(o, change)
  BY DEF MarkRevoked
<1>3. Others(o)
  BY <1>1, <1>2, Writes, OthersAlone
<1>4. Orderly(o) /\ Written(o) = {} /\ shared'[o] = {}
  BY <1>1, <1>2 DEF Order, TypeInv, Unlocked
<1>5. r \notin Sessions /\ \A u \in User, m \in Msg : EraseRow(u, m) # r
  <2>1. op[o].msg \in Msg
    BY <1>2 DEF TypeInv, About
  <2> QED BY <2>1, RowIs, TablesDiffer
<1> HIDE DEF v, r
<1>6. DOMAIN change = {r}
  BY PutIs
<1> HIDE DEF change
<1>7. Written(o)' = {r} \cup Written(o)
  BY <1>2, <1>6, WritesRows
<1>8. ~Inserted(o)
  BY <1>1 DEF Inserted
<1>9. Orderly(o)'
  BY <1>1, <1>2, <1>4, <1>5, <1>7, <1>8, OrderlyWrites
<1> QED BY <1>3, <1>9

LEMMA OrderMarkDeleted ==
  ASSUME TypeInv, Transactions, Order, NEW o \in Op, MarkDeleted(o) PROVE Orderly(o)' /\ Others(o)
<1> DEFINE r == EraseRow(op[o].user, op[o].msg)
           change == Put(r, TRUE)
           rows == {MsgRow(op[o].msg)}
<1>1. pc[o] = "mark" /\ pc'[o] = "list" /\ pc' = [pc EXCEPT ![o] = pc'[o]]
  BY Steps DEF MarkDeleted
<1>2. UNCHANGED <<db, op, plan, pushed>> /\ op[o].kind = "delete" /\ Write(o, change) /\ Share(o, rows)
  BY DEF MarkDeleted
<1>3. Others(o) /\ shared'[o] = shared[o] \cup rows
  <2> HIDE DEF rows, change
  <2> QED BY <1>1, <1>2, Writes, Shares, OthersAlone
<1>4. Orderly(o) /\ Written(o) = {} /\ shared[o] = {} /\ op[o].msg \in Msg /\ Stored(db, op[o].msg)
  BY <1>1, <1>2 DEF Order, TypeInv, Unlocked, About, Transactions, Sound, Marks
<1>5. /\ r \notin Sessions /\ \A m \in Msg : MsgRow(m) # r
      /\ \A u \in User, m \in Msg : EraseRow(u, m) = r => m = op[o].msg
  BY RowIs, RowsDiffer
<1>6. shared'[o] \subseteq Messages
  BY <1>3, <1>4, RowIs
<1> HIDE DEF r
<1>7. DOMAIN change = {r}
  BY PutIs
<1> HIDE DEF change
<1>8. Written(o)' = {r} \cup Written(o)
  BY <1>2, <1>7, WritesRows
<1>9. ~Inserted(o)
  BY <1>1 DEF Inserted
<1>10. Orderly(o)'
  BY <1>1, <1>2, <1>4, <1>5, <1>6, <1>8, <1>9, OrderlyWrites
<1> QED BY <1>3, <1>10

LEMMA OrderMarkAll ==
  ASSUME TypeInv, Order, NEW o \in Op, MarkAll(o) PROVE Orderly(o)' /\ Others(o)
<1> DEFINE change == Erased(o)
           u == op[o].user
<1>1. pc[o] = "mark" /\ pc'[o] = "apply" /\ pc' = [pc EXCEPT ![o] = pc'[o]]
  BY Steps DEF MarkAll
<1>2. UNCHANGED <<db, op, pushed>> /\ op[o].kind \in {"clear", "wipe"} /\ Write(o, change) /\ Share(o, Messages)
      /\ plan' = [plan EXCEPT ![o] = plan'[o]] /\ plan'[o] = Put(u, NoMsg)
  BY DEF MarkAll, TypeInv
<1>3. Others(o) /\ shared'[o] = shared[o] \cup Messages
  BY <1>1, <1>2, Writes, Shares, OthersAlone
<1>4. Written(o) = {} /\ shared[o] = {} /\ u \in User
  BY <1>1 DEF TypeInv, Unlocked, Call
<1>5. DOMAIN plan'[o] = {u} /\ plan'[o][u] = NoMsg
  BY <1>2, PutIs
<1>6. DOMAIN change = {EraseRow(u, m) : m \in {n \in Msg : Stored(db, n)}}
  BY DEF Erased
<1> HIDE DEF change
<1>7. Written(o)' = DOMAIN change
  <2>1. Written(o)' = DOMAIN change \cup Written(o)
    BY <1>2, WritesRows
  <2> QED BY <1>4, <2>1
<1>8. DOMAIN change \cap Sessions = {} /\ \A m \in Msg : MsgRow(m) \notin DOMAIN change
  BY <1>6, RowIs, RowsDiffer
<1>9. \A w \in User, m \in Msg : EraseRow(w, m) \in DOMAIN change => Stored(db, m)
  <2>1. ASSUME NEW w \in User, NEW m \in Msg, EraseRow(w, m) \in DOMAIN change PROVE Stored(db, m)
    <3>1. PICK n \in Msg : Stored(db, n) /\ EraseRow(w, m) = EraseRow(u, n)
      BY <1>6, <2>1
    <3> QED BY <3>1, RowsDiffer
  <2> QED BY <2>1
<1> HIDE DEF u
<1>10. DOMAIN plan'[o] \subseteq {op'[o].user} /\ (\A w \in DOMAIN plan'[o] : plan'[o][w] = NoMsg)
  BY <1>2, <1>5 DEF u
<1>11. shared'[o] \subseteq Messages /\ op'[o].kind # "send" /\ db' = db
  BY <1>2, <1>3, <1>4
<1>12. Orderly(o)'
  BY <1>1, <1>7, <1>8, <1>9, <1>10, <1>11 DEF Orderly
<1> QED BY <1>3, <1>12

LEMMA OrderList ==
  ASSUME TypeInv, Transactions, Order, NEW o \in Op, List(o) PROVE Orderly(o)' /\ Others(o)
<1>1. pc[o] = "list" /\ pc'[o] = "apply" /\ pc' = [pc EXCEPT ![o] = pc'[o]]
  BY Steps DEF List
<1>2. UNCHANGED <<db, own, shared, op, pushed>>
  BY DEF List
<1> DEFINE users == IF op[o].kind = "delete" THEN {op[o].user}
                    ELSE {u \in User : /\ View(o)[SessionRow(u)].state = "alive"
                                       /\ View(o)[SessionRow(u)].last = op[o].msg}
<1>3. plan' = [plan EXCEPT ![o] = [u \in users |-> Newest(View(o), u)]]
  BY DEF List
<1>4. op[o].user \in User /\ op[o].kind \in {"revoke", "delete"} /\ ~Inserted(o)
  BY <1>1 DEF TypeInv, Call, About, Inserted
<1>5. users \subseteq User /\ (op[o].kind = "delete" => users = {op[o].user})
  BY <1>4
<1> HIDE DEF users
<1>6. plan'[o] = [u \in users |-> Newest(View(o), u)] /\ plan' = [plan EXCEPT ![o] = plan'[o]]
  BY <1>3 DEF TypeInv
<1>7. Others(o)
  BY <1>1, <1>2, <1>6, OthersAlone
<1>8. ASSUME NEW u \in users, Newest(View(o), u) # NoMsg PROVE Stored(db, Newest(View(o), u))
  <2> DEFINE m == Newest(View(o), u)
  <2>1. m \in Visible(View(o), u)
    BY <1>5, <1>8, ViewTyped, NewestIs
  <2>2. m \in Msg /\ View(o)[MsgRow(m)].state # "none"
    BY <2>1 DEF Visible
  <2> HIDE DEF m
  <2>3. MsgRow(m) \in Written(o) => Stored(db, m)
    BY <1>4, <2>2 DEF Transactions, Sound, Marks
  <2>4. MsgRow(m) \notin Written(o) => Stored(db, m)
    BY <2>2, ViewIs, RowIs DEF Stored
  <2> QED BY <2>3, <2>4 DEF m
<1>9. Orderly(o) /\ Written(o)' = Written(o) /\ ~Inserted(o)'
  BY <1>1, <1>2 DEF Order, Written, Inserted
<1>10. \A u \in DOMAIN plan'[o] : plan'[o][u] # NoMsg => Stored(db', plan'[o][u])
  BY <1>2, <1>6, <1>8
<1>11. op[o].kind = "delete" => DOMAIN plan'[o] \subseteq {op[o].user}
  BY <1>5, <1>6
<1>12. op'[o] = op[o] /\ shared'[o] = shared[o] /\ db' = db
  BY <1>2
<1>13. Orderly(o)'
  BY <1>1, <1>4, <1>9, <1>10, <1>11, <1>12 DEF Orderly
<1> QED BY <1>7, <1>13

LEMMA OrderApply ==
  ASSUME TypeInv, Order, NEW o \in Op, NEW u \in User, Apply(o, u) PROVE Orderly(o)' /\ Others(o)
<1> DEFINE s    == View(o)[SessionRow(u)]
           last == plan[o][u]
           new  == [s EXCEPT !.last = last, !.state = IF op[o].kind = "wipe" THEN "removed" ELSE @]
           v    == IF s.state = "alive" THEN new ELSE s
           r    == SessionRow(u)
           change == Put(r, v)
           rows == IF last = NoMsg THEN {} ELSE {MsgRow(last)}
<1>1. pc[o] = "apply" /\ pc' = pc /\ u \in DOMAIN plan[o] /\ UNCHANGED <<db, op, pushed>> /\ Write(o, change)
  BY DEF Apply
<1>2. plan'[o] = [x \in DOMAIN plan[o] \ {u} |-> plan[o][x]] /\ plan' = [plan EXCEPT ![o] = plan'[o]]
  BY DEF Apply, TypeInv
<1>3. shared'[o] = shared[o] \cup rows /\ (shared' = shared \/ shared' = [shared EXCEPT ![o] = shared'[o]])
  <2>1. CASE last = NoMsg
    BY <2>1 DEF Apply
  <2>2. CASE last # NoMsg
    <3>1. Share(o, rows)
      BY <2>2 DEF Apply
    <3> HIDE DEF rows
    <3> QED BY <3>1, Shares
  <2> QED BY <2>1, <2>2
<1>4. Others(o)
  <2>1. pc' = [pc EXCEPT ![o] = pc'[o]]
    BY <1>1 DEF TypeInv
  <2> HIDE DEF change, rows
  <2> QED BY <1>1, <1>2, <1>3, <2>1, Writes, OthersAlone
<1>5. Orderly(o) /\ op[o].kind \in {"revoke", "delete", "clear", "wipe"} /\ last \in Msg \cup {NoMsg} /\ ~Inserted(o)
  BY <1>1 DEF Order, TypeInv, About, Planned, Inserted
<1>6. rows \subseteq Messages
  BY <1>5, RowIs
<1>7. \A w \in User, m \in Msg : EraseRow(w, m) # r /\ MsgRow(m) # r
  BY RowsDiffer
<1> HIDE DEF v, r, rows
<1>8. DOMAIN change = {r}
  BY PutIs
<1> HIDE DEF change
<1>9. Written(o)' = {r} \cup Written(o) /\ shared'[o] \subseteq Messages
  BY <1>1, <1>3, <1>5, <1>6, <1>8, WritesRows DEF Orderly
<1>10. DOMAIN plan'[o] \subseteq DOMAIN plan[o] \ {u} /\ \A x \in DOMAIN plan'[o] : plan'[o][x] = plan[o][x]
  BY <1>2
<1>11. op[o].kind \in {"delete", "clear", "wipe"} => DOMAIN plan'[o] = {}
  BY <1>1, <1>5, <1>10 DEF Orderly
<1>12. pc'[o] = "apply" /\ op'[o] = op[o] /\ db' = db
  BY <1>1
<1>13. /\ \A w \in User, m \in Msg : EraseRow(w, m) \in Written(o)' => Stored(db, m)
       /\ \A m \in Msg : MsgRow(m) \in Written(o)' => op[o].kind = "revoke"
  BY <1>5, <1>7, <1>9 DEF Orderly
<1>14. \A x \in DOMAIN plan'[o] : plan'[o][x] # NoMsg => Stored(db, plan'[o][x])
  BY <1>5, <1>10 DEF Orderly
<1>15. Orderly(o)'
  BY <1>5, <1>9, <1>11, <1>12, <1>13, <1>14 DEF Orderly
<1> QED BY <1>4, <1>15

LEMMA OrderApplied ==
  ASSUME TypeInv, Order, NEW o \in Op, Applied(o) \/ ApplyFails(o) PROVE Orderly(o)' /\ Others(o)
<1>1. pc[o] = "apply" /\ pc'[o] = "commit" /\ pc' = [pc EXCEPT ![o] = pc'[o]]
  BY Steps DEF Applied, ApplyFails
<1>2. UNCHANGED <<db, own, shared, op, pushed>>
  BY DEF Applied, ApplyFails
<1>3. plan' = plan \/ (plan' = [plan EXCEPT ![o] = plan'[o]] /\ plan'[o] = <<>>)
  BY DEF Applied, ApplyFails, TypeInv
<1>4. Others(o)
  BY <1>1, <1>2, <1>3, OthersAlone
<1>5. Orderly(o) /\ op[o].kind # "send" /\ Written(o)' = Written(o) /\ ~Inserted(o)
  BY <1>1, <1>2 DEF Order, TypeInv, About, Written, Inserted
<1>6. \A x \in DOMAIN plan'[o] : plan'[o][x] # NoMsg => Stored(db, plan'[o][x])
  BY <1>3, <1>5, NothingIs DEF Orderly
<1> QED BY <1>1, <1>2, <1>4, <1>5, <1>6 DEF Orderly

LEMMA OrderEnds ==
  ASSUME TypeInv, Order, NEW o \in Op, Grows, own'[o] = <<>>, shared'[o] = {}, op' = op,
         plan' = plan \/ plan'[o] = <<>>, pc'[o] \in {"push", "done", "failed"}
  PROVE  Orderly(o)'
<1>1. Written(o)' = {}
  BY NothingIs DEF Written
<1>2. Orderly(o) /\ Planned(o)
  BY DEF Order, TypeInv
<1>3. \A x \in DOMAIN plan'[o] : plan'[o][x] # NoMsg => Stored(db', plan'[o][x])
  BY <1>2, NothingIs DEF Orderly, Planned, Grows
<1> QED BY <1>1, <1>3 DEF Orderly, Ended

LEMMA OrderCommit ==
  ASSUME TypeInv, Order, Grows, NEW o \in Op, Commit(o) \/ CommitLost(o) PROVE Orderly(o)' /\ Others(o)
<1>1. pc' = [pc EXCEPT ![o] = pc'[o]] /\ pc'[o] \in {"push", "done", "failed"}
  <2>1. CASE Commit(o)
    <3> DEFINE to == IF op[o].kind = "send" THEN "push" ELSE "done"
    <3>1. pc'[o] = to /\ pc' = [pc EXCEPT ![o] = pc'[o]]
      BY <2>1, Steps DEF Commit
    <3> QED BY <3>1
  <2>2. CASE CommitLost(o)
    BY <2>2, Steps DEF CommitLost
  <2> QED BY <2>1, <2>2
<1>2. Release(o) /\ UNCHANGED <<op, plan, pushed>>
  BY DEF Commit, CommitLost
<1> QED BY <1>1, <1>2, Releases, OthersAlone, OrderEnds

LEMMA OrderRollback ==
  ASSUME TypeInv, Order, NEW o \in Op, Rollback(o) PROVE Orderly(o)' /\ Others(o)
<1>1. pc' = [pc EXCEPT ![o] = pc'[o]] /\ pc'[o] = "failed" /\ plan' = [plan EXCEPT ![o] = plan'[o]] /\ plan'[o] = <<>>
  BY DEF Rollback, TypeInv
<1>2. Release(o) /\ UNCHANGED <<db, op, pushed>>
  BY DEF Rollback
<1>3. Grows
  BY <1>2 DEF Grows
<1> QED BY <1>1, <1>2, <1>3, Releases, OthersAlone, OrderEnds

LEMMA OrderAlters ==
  ASSUME TypeInv, Order, Grows, NEW o \in Op, NEW u \in User, Alters(o, u) PROVE Orderly(o)' /\ Others(o)
<1>1. pc[o] = "idle" /\ pc'[o] = "done" /\ UNCHANGED <<own, shared, op, plan, pushed>> /\ Others(o)
  BY AltersIs
<1>2. Orderly(o) /\ Planned(o) /\ Written(o)' = {} /\ shared'[o] = {}
  BY <1>1 DEF Order, TypeInv, Unlocked, Ended, Written
<1>3. \A x \in DOMAIN plan'[o] : plan'[o][x] # NoMsg => Stored(db', plan'[o][x])
  BY <1>1, <1>2 DEF Orderly, Planned, Grows
<1> QED BY <1>1, <1>2, <1>3 DEF Orderly, Ended

LEMMA OrderStutter == ASSUME Order, UNCHANGED vars PROVE Order'
<1>1. db' = db /\ own' = own /\ shared' = shared /\ op' = op /\ pc' = pc /\ plan' = plan
  BY DEF vars
<1> QED BY <1>1 DEF Order, Orderly, Inserted, Written

LEMMA OrderStep == ASSUME TypeInv, Transactions, Order, [Next]_vars PROVE Order'
<1>0. Grows
  BY MessagesGrow
<1>1. CASE UNCHANGED vars
  BY <1>1, OrderStutter
<1>2. ASSUME NEW o \in Op, NEW u \in User, Alters(o, u) PROVE Order'
  BY <1>0, <1>2, OrderAlters, OrderByCall
<1>3. ASSUME NEW o \in Op, NEW u \in User,
             \/ \E k \in {"send", "revoke", "delete"}, m \in Msg : Begin(o, k, u, m)
             \/ \E k \in {"clear", "wipe"} : Begin(o, k, u, NoMsg)
      PROVE  Order'
  <2>1. ASSUME NEW k, NEW m, Begin(o, k, u, m) PROVE Order'
    BY <1>0, <2>1, OrderBegin, OrderByCall
  <2> QED BY <1>3, <2>1
<1>4. ASSUME NEW o \in Op, Send(o) PROVE Orderly(o)' /\ Others(o)
  BY <1>4, OrderFindTalk, OrderInsert, OrderSession, OrderSessionFails, OrderBump, OrderPush DEF Send
<1>5. ASSUME NEW o \in Op, Remove(o) PROVE Orderly(o)' /\ Others(o)
  BY <1>5, OrderMarkRevoked, OrderMarkDeleted, OrderMarkAll, OrderList, OrderApply, OrderApplied DEF Remove
<1>6. ASSUME NEW o \in Op, Commit(o) \/ CommitLost(o) \/ Fail(o) \/ Duplicate(o) PROVE Orderly(o)' /\ Others(o)
  BY <1>0, <1>6, OrderCommit, OrderRollback DEF Fail, Duplicate
<1>7. ASSUME NEW o \in Op, Orderly(o)', Others(o) PROVE Order'
  BY <1>0, <1>7, OrderByCall
<1> QED BY <1>1, <1>2, <1>3, <1>4, <1>5, <1>6, <1>7 DEF Next, Proceed, Alters

(* Whoever runs while nobody has anything left to lock has its locks: a    *)
(* send that has locked the talk has it alone, and a deletion or a clear   *)
(* waits only for the session such a send has.                             *)
LEMMA OneRuns ==
  ASSUME TypeInv, Transactions, Order,
         NEW R, R = {o \in Op : pc[o] \notin Ended}, R # {}, \A o \in R : op[o].kind # "revoke"
  PROVE  \E o \in R : Free(o)
<1> SUFFICES ASSUME \A o \in R : ~Free(o) PROVE FALSE
  OBVIOUS
<1>1. ASSUME NEW p \in Op, Written(p) # {} \/ shared[p] # {} PROVE p \in R
  BY <1>1 DEF TypeInv, Unlocked
<1>2. ASSUME NEW o \in R
      PROVE  /\ Orderly(o) /\ About(o) /\ Planned(o) /\ Unlocked(o) /\ Numbers(o) /\ op[o].user \in User
             /\ \/ op[o].kind = "send" /\ pc[o] \in {"talk", "insert", "mine", "theirs", "bump"}
                \/ op[o].kind \in {"delete", "clear", "wipe"} /\ pc[o] = "mark"
                \/ op[o].kind \in {"delete", "clear", "wipe"} /\ pc[o] = "apply" /\ DOMAIN plan[o] # {}
  <2>1. pc[o] \notin {"list", "commit", "push"} /\ (pc[o] = "apply" => DOMAIN plan[o] # {})
    BY DEF Free
  <2>2. /\ Orderly(o) /\ About(o) /\ Planned(o) /\ Unlocked(o) /\ Numbers(o) /\ op[o] \in Call
        /\ pc[o] \in Places \ Ended /\ op[o].kind # "revoke"
    BY DEF TypeInv, Order, Transactions, Sound
  <2> QED BY <2>1, <2>2 DEF About, Places, Call
<1>3. ASSUME NEW o \in R, NEW p \in R \ {o},
             op[o].kind = "send", pc[o] # "talk", op[p].kind = "send", pc[p] # "talk"
      PROVE  FALSE
  <2>1. TalkRow \in Written(o) /\ TalkRow \in Written(p)
    BY <1>2, <1>3 DEF Orderly
  <2> QED BY <1>3, <2>1 DEF Transactions, Locked
<1>4. ASSUME NEW o \in R, \A p \in R \ {o} : Written(p) = {} /\ shared[p] = {} PROVE FALSE
  <2>1. \A p \in Op \ {o} : Written(p) = {} /\ shared[p] = {}
    BY <1>1, <1>4
  <2>2. \A rows : CanWrite(o, rows) /\ CanShare(o, rows)
    BY <2>1 DEF CanWrite, CanShare
  <2>3. Free(o)
    <3>1. \A u \in DOMAIN plan[o] : u \in User
      BY <1>2 DEF Planned
    <3> QED BY <1>2, <2>2, <3>1 DEF Free
  <2> QED BY <2>3
<1>5. ASSUME NEW S \in R, op[S].kind = "send", pc[S] # "talk",
             \A p \in R \ {S} : op[p].kind = "send" => pc[p] = "talk",
             \A p \in R \ {S} : Written(p) \cap Sessions = {},
             Written(S) \cap Sessions # {}
      PROVE  FALSE
  <2>0. /\ Numbers(S) /\ About(S) /\ op[S].user \in User /\ ~Free(S) /\ Written(S) \cap Sessions # {}
        /\ pc[S] \in {"insert", "mine", "theirs", "bump"}
    BY <1>2, <1>5
  <2>1. \A rows \in SUBSET Sessions : CanWrite(S, rows)
    <3>1. SUFFICES ASSUME NEW rows \in SUBSET Sessions, NEW p \in Op \ {S}
                   PROVE  rows \cap Written(p) = {} /\ rows \cap shared[p] = {}
      BY DEF CanWrite, CanShare
    <3>2. CASE p \in R
      BY <1>2, <1>5, <3>1, <3>2, TablesDiffer DEF Orderly
    <3>3. CASE p \notin R
      BY <1>1, <3>1, <3>3
    <3> QED BY <3>2, <3>3
  <2>2. op[S].msg \in Msg /\ op[S].user \in User
    BY <1>2, <1>5 DEF About
  <2>3. pc[S] # "insert"
    BY <2>0, TablesDiffer DEF Numbers
  <2>4. pc[S] # "mine"
    <3>1. {SessionRow(op[S].user)} \in SUBSET Sessions
      BY <2>2, RowIs
    <3> QED BY <2>0, <2>1, <3>1 DEF Free
  <2>5. pc[S] # "theirs"
    <3>1. Mode = "single" /\ Mode \in Modes /\ pc[S] = "theirs" => Other(op[S].user) \in User
      BY <2>2, OtherIs
    <3>2. pc[S] = "theirs" => Mode = "single"
      BY <1>2 DEF About
    <3>3. Mode \in Modes
      BY RowIs DEF Mode, TypeInv, Typed
    <3>4. pc[S] = "theirs" => {SessionRow(Other(op[S].user))} \in SUBSET Sessions
      BY <3>1, <3>2, <3>3, RowIs
    <3> QED BY <2>0, <2>1, <3>4 DEF Free
  <2>6. pc[S] = "bump" /\ Inserted(S)
    BY <1>2, <1>5, <2>3, <2>4, <2>5 DEF Inserted
  <2>7. CanWrite(S, DOMAIN Hidden(S))
    <3>1. SUFFICES ASSUME NEW p \in Op \ {S}, NEW r \in DOMAIN Hidden(S)
                   PROVE  r \notin Written(p) /\ r \notin shared[p]
      BY DEF CanWrite, CanShare
    <3>2. DOMAIN Hidden(S) \subseteq Erases
      BY <2>2, HiddenIs
    <3>3. PICK w \in User : r = EraseRow(w, op[S].msg)
      <4>1. r = EraseRow(Other(op[S].user), op[S].msg)
        <5> DEFINE hidden == EraseRow(Other(op[S].user), op[S].msg)
        <5>1. Hidden(S) = IF op[S].deliver THEN <<>> ELSE Put(hidden, TRUE)
          BY DEF Hidden
        <5> HIDE DEF hidden
        <5>2. DOMAIN Put(hidden, TRUE) = {hidden}
          BY PutIs
        <5>3. r = hidden
          BY <5>1, <5>2, NothingIs
        <5> QED BY <5>3 DEF hidden
      <4>2. PICK w \in User, n \in Msg : r = EraseRow(w, n)
        BY <3>2, RowIs
      <4>3. EraseRow(Other(op[S].user), op[S].msg) = EraseRow(w, n)
        BY <4>1, <4>2
      <4>4. n = op[S].msg
        <5> DEFINE a == Other(op[S].user)
                   b == op[S].msg
        <5>1. EraseRow(a, b) = EraseRow(w, n)
          BY <4>3
        <5> HIDE DEF a, b
        <5>2. b = n
          BY <5>1, RowsDiffer
        <5> QED BY <5>2 DEF b
      <4> QED BY <4>2, <4>4
    <3>4. ~Stored(db, op[S].msg)
      BY <1>2, <2>6 DEF Numbers
    <3>5. CASE p \in R
      <4>1. ~Inserted(p)
        BY <1>5, <3>5 DEF Inserted
      <4> QED BY <1>2, <2>2, <3>2, <3>3, <3>4, <3>5, <4>1, TablesDiffer DEF Orderly
    <3>6. CASE p \notin R
      BY <1>1, <3>6
    <3> QED BY <3>5, <3>6
  <2>8. CanWrite(S, DOMAIN Hidden(S) \cup Sessions)
    BY <2>1, <2>7 DEF CanWrite, CanShare
  <2> QED BY <2>6, <2>8 DEF Free
<1>6. ASSUME NEW a \in R, pc[a] = "apply" PROVE FALSE
  <2> DEFINE u == op[a].user
             r == SessionRow(u)
  <2>1. DOMAIN plan[a] = {u} /\ u \in User
    BY <1>2, <1>6 DEF Orderly
  <2>2. ASSUME plan[a][u] # NoMsg PROVE CanShare(a, {MsgRow(plan[a][u])})
    <3>1. SUFFICES ASSUME NEW p \in Op \ {a}, MsgRow(plan[a][u]) \in Written(p) PROVE FALSE
      BY DEF CanShare
    <3>2. plan[a][u] \in Msg /\ Stored(db, plan[a][u])
      BY <1>2, <2>1, <2>2 DEF Planned, Orderly
    <3>3. p \in R
      BY <1>1, <3>1
    <3>4. Inserted(p) /\ plan[a][u] = op[p].msg
      BY <1>2, <3>1, <3>2, <3>3 DEF Orderly
    <3> QED BY <1>2, <3>2, <3>3, <3>4 DEF Numbers
  <2>3. PICK S \in Op \ {a} : r \in Written(S)
    <3>1. \A p \in Op \ {a} : r \notin shared[p]
      BY <1>2, <1>1, <2>1, RowIs, TablesDiffer DEF Orderly
    <3>2. ~CanWrite(a, {r})
      BY <1>6, <2>1, <2>2 DEF Free
    <3> QED BY <3>1, <3>2 DEF CanWrite, CanShare
  <2>4. ASSUME NEW p \in R, op[p].kind # "send" PROVE Written(p) \cap Sessions = {}
    BY <1>2, <2>4 DEF Orderly, Unlocked
  <2>5. S \in R /\ r \in Sessions /\ op[S].kind = "send" /\ pc[S] # "talk"
    <3>1. S \in R /\ r \in Sessions
      BY <1>1, <2>1, <2>3, RowIs
    <3> QED BY <1>2, <2>3, <2>4, <3>1 DEF Unlocked
  <2>6. \A p \in R \ {S} : op[p].kind = "send" => pc[p] = "talk"
    BY <1>3, <2>5
  <2>7. \A p \in R \ {S} : Written(p) \cap Sessions = {}
    BY <1>2, <2>4, <2>6 DEF Unlocked
  <2> QED BY <1>5, <2>3, <2>5, <2>6, <2>7
<1>7. ASSUME NEW o \in R, op[o].kind = "send" /\ pc[o] # "talk" PROVE FALSE
  <2>1. \A p \in R \ {o} : pc[p] \in {"talk", "mark"}
    BY <1>2, <1>3, <1>6, <1>7
  <2> QED BY <1>2, <1>4, <2>1 DEF Unlocked
<1>8. \A p \in R : pc[p] \in {"talk", "mark"}
  BY <1>2, <1>6, <1>7
<1>9. PICK o \in R : TRUE
  OBVIOUS
<1> QED BY <1>2, <1>4, <1>8, <1>9 DEF Unlocked

(* Sends, deletions, clears and reads never block each other for ever, for *)
(* any users, messages and calls: as long as some of them run one of them  *)
(* gets its next lock (SendMessage, DeleteMessages, ClearTalkRecords).     *)
THEOREM NoDeadlockHolds == Spec => []NoDeadlock
<1>1. TypeInv /\ Transactions /\ Order /\ [Next]_vars => Order'
  BY OrderStep
<1>2. TypeInv /\ Transactions /\ Order => NoDeadlock
  BY OneRuns DEF NoDeadlock
<1> QED BY <1>1, <1>2, OrderInit, TransactionsAlways, PTL DEF Spec

------------------------------------------------------------------------------
(* What a commit does to the talk *)

(* One message more for the users who did not send it. *)
Counting(o, u) == op[o].kind = "send" /\ pc[o] = "commit" /\ u # op[o].user

(* What a call may make of the session of u: a send restores it in a single *)
(* talk, the deletion of a talk removes it.                                *)
SessionFrom(o, u, new) ==
  LET old == db[SessionRow(u)]
  IN /\ \/ new.state = old.state
        \/ /\ op[o].kind = "send" /\ Mode = "single" /\ (u = op[o].user \/ op[o].deliver)
           /\ new.state = "alive"
        \/ op[o].kind = "wipe" /\ old.state = "alive" /\ new.state = "removed"
     /\ new.unread = IF Counting(o, u) /\ new.state = "alive" THEN old.unread + 1 ELSE old.unread

SessionsAre(o) == \A u \in User : SessionRow(u) \in Written(o) =>
  /\ SessionFrom(o, u, own[o][SessionRow(u)])
  /\ op[o].kind = "wipe" => u = op[o].user /\ own[o][SessionRow(u)].state # "alive"

(* The deletions a call has written, no more and no less. *)
ErasesAre(o) == \A u \in User, m \in Msg : EraseRow(u, m) \in Written(o) <=>
  \/ op[o].kind = "send" /\ pc[o] = "commit" /\ ~op[o].deliver /\ u # op[o].user /\ m = op[o].msg
  \/ op[o].kind = "delete" /\ pc[o] \in {"list", "apply", "commit"} /\ u = op[o].user /\ m = op[o].msg
  \/ op[o].kind \in {"clear", "wipe"} /\ pc[o] \in {"apply", "commit"} /\ u = op[o].user /\ Stored(db, m)

MessagesAre(o) == \A m \in Msg : MsgRow(m) \in Written(o) <=>
  \/ Inserted(o) /\ m = op[o].msg
  \/ op[o].kind = "revoke" /\ pc[o] \in {"list", "apply", "commit"} /\ m = op[o].msg

Settled(o) ==
  /\ pc[o] = "theirs" => op[o].deliver
  /\ op[o].kind \in {"clear", "wipe"} /\ pc[o] \in {"apply", "commit"} => Messages \subseteq shared[o]
  /\ op[o].kind = "wipe" /\ pc[o] = "apply" =>
       SessionRow(op[o].user) \in Written(o) \/ op[o].user \in DOMAIN plan[o]
  /\ op[o].kind = "wipe" /\ pc[o] = "commit" => SessionRow(op[o].user) \in Written(o)
  /\ op[o].kind = "send" /\ pc[o] = "commit" => Sessions \subseteq Written(o)
  /\ pc[o] = "commit" => op[o].kind # "none"
  /\ op[o].kind = "revoke" /\ pc[o] # "failed" => db[MsgRow(op[o].msg)].by = op[o].user
  /\ pc[o] = "push" => db[MsgRow(op[o].msg)].by = op[o].user

Effect(o) == SessionsAre(o) /\ ErasesAre(o) /\ MessagesAre(o) /\ Settled(o)

Effects == \A o \in Op : Effect(o)

(* A call that is not in a transaction has written nothing. *)
LEMMA EffectOfNothing ==
  ASSUME NEW o \in Op, Written(o) = {}, pc[o] \notin {"theirs", "list", "apply", "commit"}, ~Inserted(o),
         op[o].kind = "revoke" /\ pc[o] # "failed" => db[MsgRow(op[o].msg)].by = op[o].user,
         pc[o] = "push" => db[MsgRow(op[o].msg)].by = op[o].user
  PROVE  Effect(o)
BY DEF Effect, SessionsAre, ErasesAre, MessagesAre, Settled

LEMMA EffectsInit == Init => Effects
<1> SUFFICES ASSUME Init, NEW o \in Op PROVE Effect(o)
  BY DEF Effects
<1>1. own[o] = <<>> /\ pc[o] = "idle" /\ op[o].kind = "none"
  BY DEF Init
<1>2. Written(o) = {} /\ ~Inserted(o)
  BY <1>1, NothingIs DEF Written, Inserted
<1> QED BY <1>1, <1>2, EffectOfNothing

(* The other calls, as long as nobody changes the rows they have locked. *)
LEMMA EffectKept ==
  ASSUME TypeInv, Transactions, NEW o \in Op, Others(o), NEW p \in Op \ {o}, Effect(p), Grows,
         Mode' = Mode, \A r \in Written(p) \cup shared[p] : db'[r] = db[r]
  PROVE  Effect(p)'
<1>1. /\ own'[p] = own[p] /\ op'[p] = op[p] /\ pc'[p] = pc[p] /\ plan'[p] = plan[p]
      /\ shared'[p] = shared[p] /\ Written(p)' = Written(p) /\ (Inserted(p)' <=> Inserted(p))
  BY DEF Others, Written, Inserted, TypeInv
<1>2. SessionsAre(p)'
  <2>1. ASSUME NEW u \in User, SessionRow(u) \in Written(p)
        PROVE  SessionFrom(p, u, own[p][SessionRow(u)])'
    <3>1. db'[SessionRow(u)] = db[SessionRow(u)] /\ (Counting(p, u)' <=> Counting(p, u))
      BY <1>1, <2>1 DEF Counting
    <3>2. SessionFrom(p, u, own[p][SessionRow(u)])
      BY <2>1 DEF Effect, SessionsAre
    <3> QED BY <1>1, <3>1, <3>2 DEF SessionFrom
  <2>2. SessionsAre(p)
    BY DEF Effect
  <2> QED BY <1>1, <2>1, <2>2 DEF SessionsAre
<1>3. ErasesAre(p)'
  <2>1. ASSUME op[p].kind \in {"clear", "wipe"}, pc[p] \in {"apply", "commit"}, NEW m \in Msg
        PROVE  Stored(db', m) <=> Stored(db, m)
    <3>1. MsgRow(m) \in shared[p]
      BY <2>1, RowIs DEF Effect, Settled
    <3> QED BY <3>1 DEF Stored
  <2>2. ErasesAre(p)
    BY DEF Effect
  <2> QED BY <1>1, <2>1, <2>2 DEF ErasesAre
<1>4. MessagesAre(p)'
  BY <1>1 DEF Effect, MessagesAre
<1>5. Settled(p)'
  <2>1. ASSUME (op[p].kind = "revoke" /\ pc[p] # "failed") \/ pc[p] = "push"
        PROVE  db'[MsgRow(op[p].msg)].by = db[MsgRow(op[p].msg)].by
    <3>1. op[p].msg \in Msg /\ Stored(db, op[p].msg)
      BY <2>1 DEF TypeInv, About, Transactions, Sound, Marks, Announced
    <3> QED BY <3>1 DEF Grows
  <2>2. Settled(p)
    BY DEF Effect
  <2> QED BY <1>1, <2>1, <2>2 DEF Settled
<1> QED BY <1>2, <1>3, <1>4, <1>5 DEF Effect

(* What a call sees of a session before it counts. *)
LEMMA SeenFrom ==
  ASSUME TypeInv, NEW o \in Op, Effect(o), pc[o] # "commit", NEW u \in User
  PROVE  /\ View(o)[SessionRow(u)] \in Session
         /\ SessionFrom(o, u, View(o)[SessionRow(u)])
         /\ op[o].kind = "wipe" /\ SessionRow(u) \in Written(o) => View(o)[SessionRow(u)].state # "alive"
<1>1. SessionRow(u) \in Row
  BY RowIs
<1>2. CASE SessionRow(u) \in Written(o)
  <2>1. View(o)[SessionRow(u)] = own[o][SessionRow(u)]
    BY <1>2, ViewIs
  <2> QED BY <1>2, <2>1, ViewTyped DEF Effect, SessionsAre
<1>3. CASE SessionRow(u) \notin Written(o)
  <2>1. View(o)[SessionRow(u)] = db[SessionRow(u)]
    BY <1>1, <1>3, ViewIs
  <2> QED BY <1>3, <2>1, ViewTyped DEF SessionFrom, Counting
<1> QED BY <1>2, <1>3

(* Where a call that has written the session of u goes on, and what it has *)
(* locked and planned by then.                                             *)
Onward(o, u) ==
  /\ pc'[o] = pc[o] \/ (pc[o] \in {"mine", "theirs"} /\ pc'[o] \in {"theirs", "bump"})
  /\ pc'[o] = "theirs" => op[o].deliver
  /\ pc'[o] = "apply" => shared[o] \subseteq shared'[o] /\ DOMAIN plan[o] \subseteq DOMAIN plan'[o] \cup {u}

(* A statement that writes one session, by a call that goes on. *)
LEMMA EffectOfSession ==
  ASSUME TypeInv, NEW o \in Op, Effect(o), NEW u \in User, NEW v, Write(o, Put(SessionRow(u), v)),
         UNCHANGED <<db, op>>, pc[o] # "commit", pc'[o] # "commit",
         SessionFrom(o, u, v), op[o].kind = "wipe" => u = op[o].user /\ v.state # "alive", Onward(o, u)
  PROVE  Effect(o)'
<1> DEFINE r == SessionRow(u)
           change == Put(r, v)
<1>1. DOMAIN change = {r} /\ change[r] = v
  BY PutIs
<1>2. Write(o, change)
  OBVIOUS
<1> HIDE DEF change
<1>3. /\ Written(o)' = {r} \cup Written(o) /\ own'[o][r] = v
      /\ \A x \in Written(o) \ {r} : own'[o][x] = own[o][x]
  BY <1>1, <1>2, Writes
<1>4. /\ op'[o] = op[o] /\ Mode' = Mode /\ (Inserted(o)' <=> Inserted(o))
      /\ \A w : ~Counting(o, w)' /\ ~Counting(o, w)
  BY DEF Mode, Inserted, Counting, Onward
<1>5. \A w, x : SessionFrom(o, w, x)' <=> SessionFrom(o, w, x)
  BY <1>4 DEF SessionFrom
<1>6. SessionsAre(o)'
  <2>1. ASSUME NEW w \in User, SessionRow(w) \in Written(o)'
        PROVE  /\ SessionFrom(o, w, own'[o][SessionRow(w)])
               /\ op[o].kind = "wipe" => w = op[o].user /\ own'[o][SessionRow(w)].state # "alive"
    <3>1. CASE w = u
      BY <1>3, <3>1
    <3>2. CASE w # u
      <4>1. SessionRow(w) \in Written(o) \ {r}
        BY <1>3, <2>1, <3>2, RowsDiffer
      <4> QED BY <1>3, <4>1 DEF Effect, SessionsAre
    <3> QED BY <3>1, <3>2
  <2>2. ASSUME NEW w \in User, SessionRow(w) \in Written(o)'
        PROVE  SessionFrom(o, w, own[o][SessionRow(w)])'
    <3>1. SessionFrom(o, w, own'[o][SessionRow(w)])
      BY <2>1, <2>2
    <3> QED BY <1>4, <3>1 DEF SessionFrom
  <2> QED BY <1>4, <2>1, <2>2 DEF SessionsAre
<1>7. ErasesAre(o)' /\ MessagesAre(o)'
  <2>1. \A w, m : EraseRow(w, m) # r /\ MsgRow(m) # r
    BY RowsDiffer
  <2>2. ErasesAre(o) /\ MessagesAre(o)
    BY DEF Effect
  <2>3. /\ \A w, m : EraseRow(w, m) \in Written(o)' <=> EraseRow(w, m) \in Written(o)
        /\ \A m : MsgRow(m) \in Written(o)' <=> MsgRow(m) \in Written(o)
    BY <1>3, <2>1
  <2>4. pc'[o] = pc[o] \/ ({pc[o], pc'[o]} \cap {"list", "apply", "commit"} = {})
    BY DEF Onward
  <2>5. ErasesAre(o)'
    BY <1>4, <2>2, <2>3, <2>4 DEF ErasesAre
  <2>6. MessagesAre(o)'
    BY <1>4, <2>2, <2>3, <2>4 DEF MessagesAre
  <2> QED BY <2>5, <2>6
<1>8. Settled(o)'
  <2>1. Settled(o)
    BY DEF Effect
  <2>2. pc'[o] = "apply" => pc[o] = "apply"
    BY DEF Onward
  <2>3. op[o].kind = "wipe" /\ pc'[o] = "apply" =>
          SessionRow(op[o].user) \in Written(o)' \/ op[o].user \in DOMAIN plan'[o]
    BY <1>3, <2>1, <2>2 DEF Settled, Onward
  <2>4. op[o].kind \in {"clear", "wipe"} /\ pc'[o] = "apply" => Messages \subseteq shared'[o]
    BY <2>1, <2>2 DEF Settled, Onward
  <2>5. /\ pc'[o] = "theirs" => op[o].deliver
        /\ pc'[o] # "failed" => pc[o] # "failed"
        /\ pc'[o] = "push" => pc[o] = "push"
    BY DEF Onward
  <2> QED BY <1>4, <2>1, <2>3, <2>4, <2>5 DEF Settled
<1> QED BY <1>6, <1>7, <1>8 DEF Effect

LEMMA EffectBegin ==
  ASSUME TypeInv, NEW o \in Op, NEW k, NEW u \in User, NEW m, Begin(o, k, u, m)
  PROVE  Effect(o)'
<1>1. op'[o] = [kind |-> k, user |-> u, msg |-> m, deliver |-> TRUE] /\ pc'[o] = First(k) /\ pc[o] = "idle"
  BY DEF Begin, TypeInv
<1>2. db' = db /\ own' = own /\ (k = "revoke" => db[MsgRow(m)].by = u)
  BY DEF Begin
<1>3. Written(o)' = {}
  BY <1>1, <1>2 DEF TypeInv, Unlocked, Ended, Written
<1>4. pc'[o] \in {"talk", "mark"}
  BY <1>1 DEF First
<1>5. op'[o].kind = k /\ op'[o].msg = m /\ op'[o].user = u
  BY <1>1
<1> QED BY <1>2, <1>3, <1>4, <1>5, EffectOfNothing DEF Effect, SessionsAre, ErasesAre, MessagesAre, Settled, Inserted

LEMMA EffectFindTalk == ASSUME TypeInv, NEW o \in Op, FindTalk(o) PROVE Effect(o)'
<1> DEFINE change == Put(TalkRow, Mode)
<1>1. pc[o] = "talk" /\ pc'[o] = "insert"
  BY Steps DEF FindTalk
<1>2. UNCHANGED <<db, shared, op, plan, pushed>> /\ Write(o, change)
  BY DEF FindTalk
<1>3. Written(o) = {} /\ op[o].kind = "send" /\ DOMAIN change = {TalkRow}
  BY <1>1, PutIs DEF TypeInv, Unlocked, About
<1> HIDE DEF change
<1>4. Written(o)' = {TalkRow} /\ op'[o].kind = "send"
  BY <1>2, <1>3, WritesRows
<1>5. \A u, m : EraseRow(u, m) # TalkRow /\ MsgRow(m) # TalkRow /\ SessionRow(u) # TalkRow
  BY RowsDiffer
<1> QED BY <1>1, <1>4, <1>5 DEF Effect, SessionsAre, ErasesAre, MessagesAre, Settled, Inserted

LEMMA EffectInsert ==
  ASSUME TypeInv, Transactions, NEW o \in Op, Insert(o) PROVE Effect(o)'
<1> DEFINE row(d) == Put(MsgRow(op[o].msg), [seq |-> View(o)[SeqRow] + 1, by |-> op[o].user,
                                             state |-> "normal", invalid |-> ~d])
           two    == Put(SeqRow, View(o)[SeqRow] + 1)
           change(d) == Over(row(d), two)
<1>1. pc[o] = "insert" /\ pc'[o] \in {"mine", "bump"}
  BY Steps DEF Insert, AfterInsert
<1>2. PICK d \in BOOLEAN : Write(o, change(d)) /\ op' = [op EXCEPT ![o].deliver = d]
  BY DEF Insert
<1>3. op'[o].kind = op[o].kind /\ op'[o].msg = op[o].msg /\ op[o].kind = "send"
  <2>1. op[o] \in Call /\ op'[o] = [op[o] EXCEPT !.deliver = d]
    BY <1>2 DEF TypeInv
  <2>2. op[o].kind = "send"
    BY <1>1 DEF TypeInv, About
  <2> QED BY <2>1, <2>2 DEF Call
<1>4. DOMAIN change(d) = {MsgRow(op[o].msg), SeqRow}
  <2> DEFINE one == row(d)
  <2>1. DOMAIN one = {MsgRow(op[o].msg)} /\ DOMAIN two = {SeqRow} /\ change(d) = Over(one, two)
    BY PutIs
  <2> HIDE DEF one, two, change
  <2>2. DOMAIN Over(one, two) = DOMAIN one \cup DOMAIN two
    BY OverIs
  <2> QED BY <2>1, <2>2
<1> DEFINE c == change(d)
<1>5. Write(o, c) /\ DOMAIN c = {MsgRow(op[o].msg), SeqRow}
  BY <1>2, <1>4
<1> HIDE DEF c
<1>6. Written(o)' = {MsgRow(op[o].msg), SeqRow} \cup Written(o) /\ Written(o) \subseteq {TalkRow}
  BY <1>1, <1>5, WritesRows DEF Transactions, Sound, Numbers
<1>7. /\ \A m : MsgRow(m) \notin {TalkRow, SeqRow} /\ (MsgRow(m) = MsgRow(op[o].msg) => m = op[o].msg)
      /\ \A u, m : EraseRow(u, m) \notin {TalkRow, SeqRow, MsgRow(op[o].msg)}
      /\ \A u : SessionRow(u) \notin {TalkRow, SeqRow, MsgRow(op[o].msg)}
  BY RowsDiffer
<1>8. Inserted(o)'
  BY <1>1, <1>3 DEF Inserted
<1>9. /\ \A m : MsgRow(m) \in Written(o)' <=> m = op[o].msg
      /\ \A u, m : EraseRow(u, m) \notin Written(o)'
      /\ \A u : SessionRow(u) \notin Written(o)'
  BY <1>6, <1>7
<1>10. SessionsAre(o)' /\ ErasesAre(o)' /\ MessagesAre(o)'
  BY <1>1, <1>3, <1>8, <1>9 DEF SessionsAre, ErasesAre, MessagesAre
<1>11. Settled(o)'
  BY <1>1, <1>3 DEF Settled
<1> QED BY <1>10, <1>11 DEF Effect

LEMMA EffectSession ==
  ASSUME TypeInv, NEW o \in Op, Effect(o), SenderSession(o) \/ ReceiverSession(o) PROVE Effect(o)'
<1> DEFINE u == IF SenderSession(o) THEN op[o].user ELSE Other(op[o].user)
           s == View(o)[SessionRow(u)]
           v == [s EXCEPT !.state = "alive"]
<1>1. /\ pc[o] \in {"mine", "theirs"} /\ pc'[o] \in {"theirs", "bump"}
      /\ SenderSession(o) \/ pc[o] = "theirs"
      /\ pc'[o] = "theirs" => op[o].deliver
  <2>1. CASE SenderSession(o)
    <3> DEFINE to == IF op[o].deliver THEN "theirs" ELSE "bump"
    <3>1. pc[o] = "mine" /\ pc'[o] = to
      BY <2>1, Steps DEF SenderSession
    <3> QED BY <2>1, <3>1
  <2>2. CASE ReceiverSession(o)
    BY <2>2, Steps DEF ReceiverSession
  <2> QED BY <2>1, <2>2
<1>2. Write(o, Put(SessionRow(u), v)) /\ UNCHANGED <<db, shared, op, plan, pushed>>
  BY DEF SenderSession, ReceiverSession, Restored
<1>3. op[o].user \in User /\ op[o].kind = "send" /\ Mode = "single" /\ Mode \in Modes
  BY <1>1, RowIs DEF TypeInv, Call, About, Mode, Typed
<1>4. u \in User
  BY <1>3, OtherIs
<1> HIDE DEF u
<1>5. SessionFrom(o, u, s) /\ s \in Session
  BY <1>1, <1>4, SeenFrom
<1> HIDE DEF s
<1>6. u = op[o].user \/ op[o].deliver
  BY <1>1 DEF u, Effect, Settled
<1>7. v.state = "alive" /\ v.unread = s.unread /\ (s.state = "alive" \/ s.unread = db[SessionRow(u)].unread)
  BY <1>5 DEF Session, SessionFrom
<1>8. ~Counting(o, u)
  BY <1>1 DEF Counting
<1>9. SessionFrom(o, u, v)
  BY <1>3, <1>5, <1>6, <1>7, <1>8 DEF SessionFrom
<1> HIDE DEF v
<1>10. Onward(o, u)
  BY <1>1 DEF Onward
<1> QED BY <1>1, <1>2, <1>3, <1>4, <1>9, <1>10, EffectOfSession

LEMMA EffectSessionFails == ASSUME TypeInv, NEW o \in Op, Effect(o), SessionFails(o) PROVE Effect(o)'
<1>1. pc[o] \in {"mine", "theirs"} /\ pc'[o] \in {"theirs", "bump"} /\ (pc'[o] = "theirs" => op[o].deliver)
  <2>1. CASE Step(o, "mine", IF op[o].deliver THEN "theirs" ELSE "bump")
    BY <2>1, Steps
  <2>2. CASE Step(o, "theirs", "bump")
    BY <2>2, Steps
  <2> QED BY <2>1, <2>2 DEF SessionFails
<1>2. UNCHANGED <<db, own, shared, op, plan, pushed>>
  BY DEF SessionFails
<1>3. Written(o)' = Written(o) /\ (Inserted(o)' <=> Inserted(o)) /\ Mode' = Mode
      /\ \A u : ~Counting(o, u)' /\ ~Counting(o, u)
  BY <1>1, <1>2 DEF Written, Inserted, Mode, Counting
<1>4. SessionsAre(o)'
  BY <1>2, <1>3 DEF Effect, SessionsAre, SessionFrom
<1>5. ErasesAre(o)' /\ MessagesAre(o)' /\ Settled(o)'
  BY <1>1, <1>2, <1>3 DEF Effect, ErasesAre, MessagesAre, Settled
<1> QED BY <1>4, <1>5 DEF Effect

(* In a single talk there is one other user. *)
LEMMA OtherOne ==
  ASSUME Mode = "single", Mode \in Modes, NEW u \in User
  PROVE  User \ {u} = {Other(u)}
<1>1. Cardinality(User) = 2 /\ IsFiniteSet(User)
  BY UserAssumption
<1>2. IsFiniteSet(User \ {u}) /\ Cardinality(User \ {u}) = 1
  BY <1>1, FS_RemoveElement
<1>3. PICK v : User \ {u} = {v}
  BY <1>2, FS_Singleton
<1>4. Other(u) \in User \ {u}
  BY <1>3 DEF Other
<1> QED BY <1>3, <1>4

LEMMA EffectBump == ASSUME TypeInv, NEW o \in Op, Effect(o), Bump(o) PROVE Effect(o)'
<1> DEFINE one == Hidden(o)
           two == Bumps(o)
           change == Over(one, two)
<1>1. pc[o] = "bump" /\ pc'[o] = "commit"
  BY Steps DEF Bump
<1>2. UNCHANGED <<db, shared, op, plan, pushed>> /\ Write(o, change)
  BY DEF Bump, Bumps
<1>3. op[o].kind = "send" /\ op[o].user \in User /\ op[o].msg \in Msg /\ Mode \in Modes
      /\ (~op[o].deliver => Mode = "single")
  BY <1>1, RowIs DEF TypeInv, Call, About, Mode, Typed
<1>4. \A u \in User, m \in Msg : EraseRow(u, m) \in DOMAIN one <=>
         ~op[o].deliver /\ u # op[o].user /\ m = op[o].msg
  <2>1. CASE op[o].deliver
    BY <2>1, NothingIs DEF Hidden
  <2>2. CASE ~op[o].deliver
    <3> DEFINE r == EraseRow(Other(op[o].user), op[o].msg)
    <3>1. DOMAIN Put(r, TRUE) = {r}
      BY PutIs
    <3>2. one = Put(r, TRUE)
      BY <2>2 DEF Hidden
    <3>3. \A u \in User : u # op[o].user <=> u = Other(op[o].user)
      BY <1>3, <2>2, OtherOne
    <3>4. \A u, m : EraseRow(u, m) = r <=> u = Other(op[o].user) /\ m = op[o].msg
      BY RowsDiffer
    <3> HIDE DEF r, one
    <3> QED BY <2>2, <3>1, <3>2, <3>3, <3>4
  <2> QED BY <2>1, <2>2
<1>5. /\ DOMAIN one \subseteq Erases /\ DOMAIN two = Sessions
      /\ \A u \in User : two[SessionRow(u)] = Bumped(o, SessionsNow(o, u), u, u # op[o].user)
  BY <1>3, HiddenIs, BumpsIs
<1> HIDE DEF one, two
<1>6. /\ DOMAIN change = DOMAIN one \cup Sessions
      /\ \A r \in Sessions : change[r] = two[r]
  <2>1. /\ DOMAIN change = DOMAIN one \cup DOMAIN two
        /\ \A r \in DOMAIN two \ DOMAIN one : change[r] = two[r]
    BY OverIs
  <2>2. Sessions \cap DOMAIN one = {}
    BY <1>5, TablesDiffer
  <2> HIDE DEF change
  <2> QED BY <1>5, <2>1, <2>2
<1> HIDE DEF change
<1>7. /\ Written(o)' = (DOMAIN one \cup Sessions) \cup Written(o)
      /\ \A r \in Sessions : own'[o][r] = two[r]
  BY <1>2, <1>6, Writes
<1>8. op'[o] = op[o] /\ (Inserted(o)' <=> Inserted(o)) /\ Mode' = Mode /\ db' = db
      /\ \A u : Counting(o, u)' <=> u # op[o].user
  BY <1>1, <1>2, <1>3 DEF Inserted, Mode, Counting
<1>9. SessionsAre(o)'
  <2>1. ASSUME NEW u \in User PROVE SessionFrom(o, u, own[o][SessionRow(u)])'
    <3> DEFINE s == SessionsNow(o, u)
               b == Bumped(o, s, u, u # op[o].user)
    <3>1. own'[o][SessionRow(u)] = b
      BY <1>5, <1>7, RowIs
    <3>2. s \in Session /\ SessionFrom(o, u, s) /\ ~Counting(o, u)
      BY <1>1, SeenFrom DEF SessionsNow, Counting
    <3> HIDE DEF s
    <3>3. /\ b.state = s.state
          /\ b.unread = IF s.state = "alive" /\ u # op[o].user THEN s.unread + 1 ELSE s.unread
      BY <3>2 DEF Bumped, Session
    <3>4. s.unread = db[SessionRow(u)].unread
      BY <3>2 DEF SessionFrom
    <3> HIDE DEF b
    <3> QED BY <1>3, <1>8, <3>1, <3>2, <3>3, <3>4 DEF SessionFrom
  <2> QED BY <1>3, <1>8, <2>1 DEF SessionsAre
<1>10. ErasesAre(o)'
  <2>1. \A u \in User, m \in Msg : EraseRow(u, m) \notin Sessions /\ EraseRow(u, m) \notin Written(o)
    BY <1>1, <1>3, RowIs, TablesDiffer DEF Effect, ErasesAre
  <2> QED BY <1>1, <1>3, <1>4, <1>7, <1>8, <2>1 DEF ErasesAre
<1>11. MessagesAre(o)'
  <2>1. \A m \in Msg : MsgRow(m) \notin Sessions /\ MsgRow(m) \notin DOMAIN one
    BY <1>5, RowIs, TablesDiffer
  <2> QED BY <1>1, <1>3, <1>7, <1>8, <2>1 DEF Effect, MessagesAre
<1>12. Settled(o)'
  BY <1>1, <1>3, <1>7, <1>8 DEF Settled
<1> QED BY <1>9, <1>10, <1>11, <1>12 DEF Effect

LEMMA EffectPush == ASSUME TypeInv, NEW o \in Op, Effect(o), Push(o) PROVE Effect(o)'
<1>1. pc[o] = "push" /\ pc'[o] = "done"
  BY Steps DEF Push
<1>2. UNCHANGED <<db, own, shared, op, plan>>
  BY DEF Push
<1>3. Written(o)' = {} /\ op[o].kind = "send"
  BY <1>1, <1>2 DEF TypeInv, Unlocked, Written, About
<1> QED BY <1>1, <1>2, <1>3 DEF Effect, SessionsAre, ErasesAre, MessagesAre, Settled, Inserted

LEMMA EffectMarkRevoked == ASSUME TypeInv, NEW o \in Op, Effect(o), MarkRevoked(o) PROVE Effect(o)'
<1> DEFINE r == MsgRow(op[o].msg)
           v == [View(o)[r] EXCEPT !.state = "revoked"]
           change == Put(r, v)
<1>1. pc[o] = "mark" /\ pc'[o] = "list"
  BY Steps DEF MarkRevoked
<1>2. UNCHANGED <<db, shared, op, plan, pushed>> /\ op[o].kind = "revoke" /\ Write(o, change)
  BY DEF MarkRevoked
<1>3. Written(o) = {}
  BY <1>1 DEF TypeInv, Unlocked
<1>4. /\ \A m : MsgRow(m) = r <=> m = op[o].msg
      /\ \A u, m : EraseRow(u, m) # r /\ SessionRow(u) # r
  BY RowsDiffer
<1> HIDE DEF v, r
<1>5. DOMAIN change = {r}
  BY PutIs
<1> HIDE DEF change
<1>6. Written(o)' = {r}
  BY <1>2, <1>3, <1>5, WritesRows
<1>7. SessionsAre(o)' /\ ErasesAre(o)'
  BY <1>1, <1>2, <1>4, <1>6 DEF SessionsAre, ErasesAre
<1>8. MessagesAre(o)' /\ Settled(o)'
  BY <1>1, <1>2, <1>4, <1>6 DEF Effect, MessagesAre, Settled, Inserted
<1> QED BY <1>7, <1>8 DEF Effect

LEMMA EffectMarkDeleted == ASSUME TypeInv, NEW o \in Op, MarkDeleted(o) PROVE Effect(o)'
<1> DEFINE r == EraseRow(op[o].user, op[o].msg)
           change == Put(r, TRUE)
<1>1. pc[o] = "mark" /\ pc'[o] = "list"
  BY Steps DEF MarkDeleted
<1>2. UNCHANGED <<db, op, plan, pushed>> /\ op[o].kind = "delete" /\ Write(o, change)
  BY DEF MarkDeleted
<1>3. Written(o) = {}
  BY <1>1 DEF TypeInv, Unlocked
<1>4. /\ \A u, m : EraseRow(u, m) = r <=> u = op[o].user /\ m = op[o].msg
      /\ \A u, m : MsgRow(m) # r /\ SessionRow(u) # r
  BY RowsDiffer
<1> HIDE DEF r
<1>5. DOMAIN change = {r}
  BY PutIs
<1> HIDE DEF change
<1>6. Written(o)' = {r}
  BY <1>2, <1>3, <1>5, WritesRows
<1>7. SessionsAre(o)' /\ ErasesAre(o)'
  BY <1>1, <1>2, <1>4, <1>6 DEF SessionsAre, ErasesAre
<1>8. MessagesAre(o)' /\ Settled(o)'
  BY <1>1, <1>2, <1>4, <1>6 DEF MessagesAre, Settled, Inserted
<1> QED BY <1>7, <1>8 DEF Effect

LEMMA EffectMarkAll == ASSUME TypeInv, NEW o \in Op, MarkAll(o) PROVE Effect(o)'
<1> DEFINE change == Erased(o)
           u == op[o].user
<1>1. pc[o] = "mark" /\ pc'[o] = "apply"
  BY Steps DEF MarkAll
<1>2. UNCHANGED <<db, op, pushed>> /\ op[o].kind \in {"clear", "wipe"} /\ Write(o, change) /\ Share(o, Messages)
      /\ plan'[o] = Put(u, NoMsg)
  BY DEF MarkAll, TypeInv
<1>3. Written(o) = {} /\ u \in User
  BY <1>1 DEF TypeInv, Unlocked, Call
<1>4. DOMAIN plan'[o] = {u} /\ Messages \subseteq shared'[o]
  <2>1. DOMAIN plan'[o] = {u}
    BY <1>2, PutIs
  <2>2. Share(o, Messages)
    BY <1>2
  <2>3. shared'[o] = shared[o] \cup Messages
    BY <2>2, Shares
  <2> QED BY <2>1, <2>3
<1>5. /\ \A w, m : EraseRow(w, m) \in DOMAIN change <=> w = u /\ m \in Msg /\ Stored(db, m)
      /\ \A w, m : MsgRow(m) \notin DOMAIN change /\ SessionRow(w) \notin DOMAIN change
  BY RowsDiffer DEF Erased
<1> HIDE DEF change
<1>6. Written(o)' = DOMAIN change
  <2>1. Written(o)' = DOMAIN change \cup Written(o)
    BY <1>2, WritesRows
  <2> QED BY <1>3, <2>1
<1>7. op'[o] = op[o] /\ db' = db
  BY <1>2
<1>8. SessionsAre(o)' /\ ErasesAre(o)' /\ MessagesAre(o)'
  BY <1>1, <1>2, <1>5, <1>6, <1>7 DEF SessionsAre, ErasesAre, MessagesAre, Inserted
<1>9. Settled(o)'
  BY <1>1, <1>2, <1>4, <1>7 DEF Settled
<1> QED BY <1>8, <1>9 DEF Effect

LEMMA EffectList == ASSUME TypeInv, NEW o \in Op, Effect(o), List(o) PROVE Effect(o)'
<1>1. pc[o] = "list" /\ pc'[o] = "apply"
  BY Steps DEF List
<1>2. UNCHANGED <<db, own, shared, op, pushed>>
  BY DEF List
<1>3. op[o].kind \in {"revoke", "delete"} /\ Written(o)' = Written(o)
  BY <1>1, <1>2 DEF TypeInv, About, Written
<1>4. Mode' = Mode /\ ~Inserted(o) /\ ~Inserted(o)' /\ \A u : ~Counting(o, u)' /\ ~Counting(o, u)
  BY <1>1, <1>2 DEF Mode, Inserted, Counting
<1>5. SessionsAre(o)'
  BY <1>2, <1>3, <1>4 DEF Effect, SessionsAre, SessionFrom
<1>6. ErasesAre(o)' /\ MessagesAre(o)' /\ Settled(o)'
  BY <1>1, <1>2, <1>3, <1>4 DEF Effect, ErasesAre, MessagesAre, Settled
<1> QED BY <1>5, <1>6 DEF Effect

LEMMA EffectApply ==
  ASSUME TypeInv, NEW o \in Op, Orderly(o), Effect(o), NEW u \in User, Apply(o, u) PROVE Effect(o)'
<1> DEFINE s    == View(o)[SessionRow(u)]
           last == plan[o][u]
           new  == [s EXCEPT !.last = last, !.state = IF op[o].kind = "wipe" THEN "removed" ELSE @]
           v    == IF s.state = "alive" THEN new ELSE s
<1>1. pc[o] = "apply" /\ pc' = pc /\ u \in DOMAIN plan[o] /\ UNCHANGED <<db, op, pushed>>
      /\ Write(o, Put(SessionRow(u), v))
  BY DEF Apply
<1>2. DOMAIN plan[o] \subseteq DOMAIN plan'[o] \cup {u}
  BY DEF Apply, TypeInv
<1>3. shared[o] \subseteq shared'[o]
  BY Shares DEF Apply
<1>4. op[o].kind \in {"revoke", "delete", "clear", "wipe"} /\ ~Counting(o, u)
      /\ (op[o].kind = "wipe" => u = op[o].user)
  BY <1>1 DEF TypeInv, About, Orderly, Counting
<1>5. s \in Session /\ SessionFrom(o, u, s)
      /\ (op[o].kind = "wipe" /\ SessionRow(u) \in Written(o) => s.state # "alive")
  BY <1>1, SeenFrom
<1>6. SessionRow(u) \notin Written(o) => s = db[SessionRow(u)]
  BY RowIs, ViewIs
<1> HIDE DEF s, last
<1>7. /\ v.unread = s.unread
      /\ op[o].kind # "wipe" => v.state = s.state
      /\ op[o].kind = "wipe" => v.state # "alive" /\ (v.state = s.state \/ (s.state = "alive" /\ v.state = "removed"))
  BY <1>5 DEF Session
<1> HIDE DEF v
<1>8. SessionFrom(o, u, v)
  <2>1. v.unread = db[SessionRow(u)].unread
    BY <1>4, <1>5, <1>7 DEF SessionFrom
  <2>2. CASE op[o].kind # "wipe"
    BY <1>4, <1>5, <1>7, <2>1, <2>2 DEF SessionFrom
  <2>3. CASE op[o].kind = "wipe"
    BY <1>4, <1>5, <1>6, <1>7, <2>1, <2>3 DEF SessionFrom
  <2> QED BY <2>2, <2>3
<1>9. UNCHANGED <<db, op>> /\ pc[o] # "commit" /\ pc'[o] = pc[o] /\ pc[o] # "theirs"
  BY <1>1
<1>10. Onward(o, u)
  BY <1>2, <1>3, <1>9 DEF Onward
<1> QED BY <1>1, <1>4, <1>7, <1>8, <1>9, <1>10, EffectOfSession

LEMMA EffectApplied ==
  ASSUME TypeInv, NEW o \in Op, Effect(o), Applied(o) \/ ApplyFails(o) PROVE Effect(o)'
<1>1. pc[o] = "apply" /\ pc'[o] = "commit"
  BY Steps DEF Applied, ApplyFails
<1>2. UNCHANGED <<db, own, shared, op, pushed>>
  BY DEF Applied, ApplyFails
<1>3. op[o].kind = "clear" \/ DOMAIN plan[o] = {}
  BY NothingIs DEF Applied, ApplyFails
<1>4. op[o].kind \in {"revoke", "delete", "clear", "wipe"} /\ Written(o)' = Written(o)
  BY <1>1, <1>2 DEF TypeInv, About, Written
<1>5. Mode' = Mode /\ ~Inserted(o) /\ ~Inserted(o)' /\ \A u : ~Counting(o, u)' /\ ~Counting(o, u)
  BY <1>2, <1>4 DEF Mode, Inserted, Counting
<1>6. SessionsAre(o)'
  BY <1>2, <1>4, <1>5 DEF Effect, SessionsAre, SessionFrom
<1>7. ErasesAre(o)' /\ MessagesAre(o)'
  BY <1>1, <1>2, <1>4, <1>5 DEF Effect, ErasesAre, MessagesAre
<1>8. Settled(o)'
  BY <1>1, <1>2, <1>3, <1>4 DEF Effect, Settled
<1> QED BY <1>6, <1>7, <1>8 DEF Effect

LEMMA EffectEnds ==
  ASSUME TypeInv, Transactions, NEW o \in Op, Effect(o), Grows, own'[o] = <<>>, op' = op,
         pc[o] # "failed", pc'[o] \in {"push", "done", "failed"},
         pc'[o] = "push" => db'[MsgRow(op[o].msg)].by = op[o].user
  PROVE  Effect(o)'
<1>1. Written(o)' = {}
  BY NothingIs DEF Written
<1>2. ASSUME op[o].kind = "revoke" PROVE db'[MsgRow(op[o].msg)].by = op[o].user
  <2>1. op[o].msg \in Msg /\ Stored(db, op[o].msg) /\ db[MsgRow(op[o].msg)].by = op[o].user
    BY <1>2 DEF TypeInv, About, Transactions, Sound, Marks, Effect, Settled
  <2> QED BY <2>1 DEF Grows
<1> QED BY <1>1, <1>2 DEF Effect, SessionsAre, ErasesAre, MessagesAre, Settled, Inserted

LEMMA EffectCommit ==
  ASSUME TypeInv, Transactions, NEW o \in Op, Effect(o), Commit(o) \/ CommitLost(o) PROVE Effect(o)'
<1>1. pc[o] = "commit" /\ pc'[o] \in {"push", "done", "failed"} /\ (pc'[o] = "push" => op[o].kind = "send")
  <2>1. CASE Commit(o)
    <3> DEFINE to == IF op[o].kind = "send" THEN "push" ELSE "done"
    <3>1. pc[o] = "commit" /\ pc'[o] = to
      BY <2>1, Steps DEF Commit
    <3> QED BY <3>1
  <2>2. CASE CommitLost(o)
    BY <2>2, Steps DEF CommitLost
  <2> QED BY <2>1, <2>2
<1>2. db' = Over(own[o], db) /\ Release(o) /\ op' = op
  BY DEF Commit, CommitLost
<1>3. pc'[o] = "push" => db'[MsgRow(op[o].msg)].by = op[o].user
  <2>1. SUFFICES ASSUME pc'[o] = "push" PROVE db'[MsgRow(op[o].msg)].by = op[o].user
    OBVIOUS
  <2>2. Inserted(o)
    BY <1>1, <2>1 DEF Inserted
  <2>3. db'[MsgRow(op[o].msg)] = [seq |-> db[SeqRow] + 1, by |-> op[o].user,
                                  state |-> "normal", invalid |-> ~op[o].deliver]
    BY <1>2, <2>2, CommitMessages
  <2> QED BY <2>3
<1>4. Grows /\ own'[o] = <<>>
  BY <1>2, CommitGrows, Releases
<1> QED BY <1>1, <1>2, <1>3, <1>4, EffectEnds

LEMMA EffectRollback ==
  ASSUME TypeInv, Transactions, NEW o \in Op, Effect(o), pc[o] # "failed", Rollback(o) PROVE Effect(o)'
<1>1. pc'[o] = "failed" /\ Release(o) /\ UNCHANGED <<db, op>>
  BY DEF Rollback, TypeInv
<1>2. Grows
  BY <1>1 DEF Grows
<1> QED BY <1>1, <1>2, Releases, EffectEnds

(* A single statement finds no other call in the way. *)
LEMMA EffectAlters ==
  ASSUME TypeInv, NEW o \in Op, Effect(o), NEW u \in User, Alters(o, u) PROVE Effect(o)'
<1>1. pc[o] = "idle" /\ pc'[o] = "done" /\ UNCHANGED <<own, shared, op, plan, pushed>>
  BY AltersIs
<1>2. Written(o)' = {}
  BY <1>1 DEF TypeInv, Unlocked, Ended, Written
<1>3. ASSUME op[o].kind = "revoke" PROVE db'[MsgRow(op[o].msg)].by = op[o].user
  <2>1. op[o].msg \in Msg /\ db[MsgRow(op[o].msg)].by = op[o].user
    BY <1>1, <1>3 DEF TypeInv, About, Effect, Settled
  <2> QED BY <2>1, AltersGrows
<1> QED BY <1>1, <1>2, <1>3 DEF Effect, SessionsAre, ErasesAre, MessagesAre, Settled, Inserted

LEMMA EffectStutter == ASSUME Effects, UNCHANGED vars PROVE Effects'
<1>1. db' = db /\ own' = own /\ shared' = shared /\ op' = op /\ pc' = pc /\ plan' = plan
  BY DEF vars
<1>2. ASSUME NEW o \in Op PROVE Effect(o)'
  <2>1. Written(o)' = Written(o) /\ (Inserted(o)' <=> Inserted(o)) /\ Mode' = Mode
        /\ \A u : Counting(o, u)' <=> Counting(o, u)
    BY <1>1 DEF Written, Inserted, Mode, Counting
  <2>2. Effect(o)
    BY DEF Effects
  <2> QED BY <1>1, <2>1, <2>2 DEF Effect, SessionsAre, SessionFrom, ErasesAre, MessagesAre, Settled
<1> QED BY <1>2 DEF Effects

(* Only Begin, the statements of a call and its end are steps of a call,   *)
(* and none of them changes what another call has locked.                  *)
LEMMA EffectsStep == ASSUME TypeInv, Transactions, Order, Effects, [Next]_vars PROVE Effects'
<1>1. Grows /\ \A p \in Op : Effect(p) /\ Orderly(p)
  BY MessagesGrow DEF Effects, Order
<1>2. ASSUME NEW o \in Op, Others(o), Effect(o)', Mode' = Mode,
             \A p \in Op \ {o} : \A r \in Written(p) \cup shared[p] : db'[r] = db[r]
      PROVE  Effects'
  <2>1. ASSUME NEW p \in Op \ {o} PROVE Effect(p)'
    BY <1>1, <1>2, EffectKept
  <2> QED BY <1>2, <2>1 DEF Effects
<1>3. ASSUME NEW o \in Op, Others(o), Effect(o)', db' = db PROVE Effects'
  BY <1>2, <1>3 DEF Mode
<1>4. CASE UNCHANGED vars
  BY <1>4, EffectStutter
<1>5. ASSUME NEW o \in Op, NEW u \in User, Alters(o, u) PROVE Effects'
  <2>1. Others(o) /\ Alone(o, u) /\ \A r \in Row \ {SessionRow(u)} : db'[r] = db[r]
    BY <1>5, AltersIs
  <2>2. Mode' = Mode
    BY <2>1, RowIs, RowsDiffer DEF Mode
  <2>3. ASSUME NEW p \in Op \ {o}, NEW r \in Written(p) \cup shared[p] PROVE db'[r] = db[r]
    <3>1. Written(p) \subseteq Row /\ shared[p] \subseteq Row
      BY DEF TypeInv, Typed, Written
    <3>2. SessionRow(u) \notin Written(p) \cup shared[p]
      BY <2>1 DEF Alone, CanWrite, CanShare
    <3> QED BY <2>1, <3>1, <3>2
  <2>4. Effect(o)'
    BY <1>1, <1>5, EffectAlters
  <2> QED BY <1>2, <2>1, <2>2, <2>3, <2>4
<1>6. ASSUME NEW o \in Op, Commit(o) \/ CommitLost(o) PROVE Effects'
  <2>1. db' = Over(own[o], db)
    BY <1>6 DEF Commit, CommitLost
  <2>2. Others(o) /\ Effect(o)'
    BY <1>1, <1>6, OrderCommit, EffectCommit
  <2>3. Mode' = Mode
    BY <2>1, Commits DEF Mode
  <2>4. ASSUME NEW p \in Op \ {o}, NEW r \in Written(p) \cup shared[p] PROVE db'[r] = db[r]
    <3>1. Written(p) \subseteq Row /\ shared[p] \subseteq Row
      BY DEF TypeInv, Typed, Written
    <3>2. r \notin Written(o)
      BY DEF Transactions, Locked
    <3> QED BY <2>1, <3>1, <3>2, CommitRows
  <2> QED BY <1>2, <2>2, <2>3, <2>4
<1>7. ASSUME NEW o \in Op, Fail(o) \/ Duplicate(o) PROVE Effects'
  <2>1. Rollback(o) /\ pc[o] # "failed" /\ db' = db
    BY <1>7 DEF Fail, Duplicate, Rollback, Ended
  <2> QED BY <1>1, <1>3, <2>1, OrderRollback, EffectRollback
<1>8. ASSUME NEW o \in Op, NEW u \in User, NEW k, NEW m, Begin(o, k, u, m) PROVE Effects'
  <2>1. db' = db
    BY <1>8 DEF Begin
  <2> QED BY <1>3, <1>8, <2>1, OrderBegin, EffectBegin
<1>9. ASSUME NEW o \in Op, Send(o) PROVE Effects'
  <2>1. db' = db
    BY <1>9 DEF Send, FindTalk, Insert, SenderSession, ReceiverSession, SessionFails, Bump, Push
  <2>2. Others(o)
    BY <1>9, OrderFindTalk, OrderInsert, OrderSession, OrderSessionFails, OrderBump, OrderPush DEF Send
  <2>3. Effect(o)'
    BY <1>1, <1>9, EffectFindTalk, EffectInsert, EffectSession, EffectSessionFails, EffectBump, EffectPush DEF Send
  <2> QED BY <1>3, <2>1, <2>2, <2>3
<1>10. ASSUME NEW o \in Op, Remove(o) PROVE Effects'
  <2>1. db' = db
    BY <1>10 DEF Remove, MarkRevoked, MarkDeleted, MarkAll, List, Apply, Applied, ApplyFails
  <2>2. Others(o)
    BY <1>10, OrderMarkRevoked, OrderMarkDeleted, OrderMarkAll, OrderList, OrderApply, OrderApplied DEF Remove
  <2>3. Effect(o)'
    BY <1>1, <1>10, EffectMarkRevoked, EffectMarkDeleted, EffectMarkAll, EffectList, EffectApply, EffectApplied DEF Remove
  <2> QED BY <1>3, <2>1, <2>2, <2>3
<1> QED BY <1>4, <1>5, <1>6, <1>7, <1>8, <1>9, <1>10 DEF Next, Proceed, Alters

------------------------------------------------------------------------------
(* The calls as steps of a talk *)

(* What TalkLog calls log, revoked, erased, session and unread. *)
Log           == [s \in 1..db[SeqRow] |-> Entry(At(s))]
Revoked       == {m \in Msg : db[MsgRow(m)].state = "revoked"}
Erasures      == {e \in User \X Msg : db[EraseRow(e[1], e[2])]}
SessionStates == [u \in User |-> db[SessionRow(u)].state]
UnreadCounts  == [u \in User |-> db[SessionRow(u)].unread]

(* The messages by their numbers. *)
Nth(d, s) == CHOOSE m \in Msg : Stored(d, m) /\ d[MsgRow(m)].seq = s

Numbered(d) ==
  /\ \A s \in 1..d[SeqRow] : \E m \in Msg : {n \in Msg : Stored(d, n) /\ d[MsgRow(n)].seq = s} = {m}
  /\ \A m \in Msg : Stored(d, m) => d[MsgRow(m)].seq \in 1..d[SeqRow]

LEMMA NthIs ==
  ASSUME NEW d, Numbered(d)
  PROVE  /\ \A s \in 1..d[SeqRow] : Nth(d, s) \in Msg /\ Stored(d, Nth(d, s)) /\ d[MsgRow(Nth(d, s))].seq = s
         /\ \A m \in Msg : Stored(d, m) => d[MsgRow(m)].seq \in 1..d[SeqRow] /\ Nth(d, d[MsgRow(m)].seq) = m
<1>1. ASSUME NEW s \in 1..d[SeqRow]
      PROVE  \E m \in Msg : /\ Stored(d, m) /\ d[MsgRow(m)].seq = s
                            /\ \A n \in Msg : Stored(d, n) /\ d[MsgRow(n)].seq = s => n = m
  <2>1. PICK m \in Msg : {n \in Msg : Stored(d, n) /\ d[MsgRow(n)].seq = s} = {m}
    BY DEF Numbered
  <2> QED BY <2>1
<1>2. ASSUME NEW s \in 1..d[SeqRow]
      PROVE  Nth(d, s) \in Msg /\ Stored(d, Nth(d, s)) /\ d[MsgRow(Nth(d, s))].seq = s
  BY <1>1 DEF Nth
<1>3. ASSUME NEW m \in Msg, Stored(d, m)
      PROVE  d[MsgRow(m)].seq \in 1..d[SeqRow] /\ Nth(d, d[MsgRow(m)].seq) = m
  <2> DEFINE s == d[MsgRow(m)].seq
  <2>1. s \in 1..d[SeqRow]
    BY <1>3 DEF Numbered
  <2>2. Nth(d, s) \in Msg /\ Stored(d, Nth(d, s)) /\ d[MsgRow(Nth(d, s))].seq = s
    BY <1>2, <2>1
  <2>3. Nth(d, s) = m
    BY <1>1, <1>3, <2>1, <2>2
  <2> QED BY <2>1, <2>3
<1> QED BY <1>2, <1>3

(* Without gaps the log has every message once. *)
LEMMA LogIs ==
  ASSUME TypeInv, NoGaps
  PROVE  /\ Numbered(db) /\ db[SeqRow] \in Nat
         /\ Log \in Seq([id : Msg, by : User, refused : BOOLEAN]) /\ Len(Log) = db[SeqRow]
         /\ DOMAIN Log = 1..db[SeqRow]
         /\ \A s \in 1..db[SeqRow] : Log[s] = Entry(Nth(db, s))
         /\ \A m \in Msg : Stored(db, m) =>
              db[MsgRow(m)].seq \in DOMAIN Log /\ Log[db[MsgRow(m)].seq] = Entry(m)
<1>1. Numbered(db)
  BY DEF NoGaps, Numbered
<1>2. db[SeqRow] \in Nat
  BY RowIs DEF TypeInv, Typed
<1>3. \A s \in 1..db[SeqRow] : Log[s] = Entry(Nth(db, s))
  BY DEF Log, At, Nth
<1>4. ASSUME NEW m \in Msg PROVE Entry(m) \in [id : Msg, by : User, refused : BOOLEAN]
  <2>1. db[MsgRow(m)] \in Message
    BY RowIs DEF TypeInv, Typed
  <2> QED BY <2>1 DEF Message, Entry
<1>5. \A s \in 1..db[SeqRow] : Log[s] \in [id : Msg, by : User, refused : BOOLEAN]
  BY <1>1, <1>3, <1>4, NthIs
<1>6. DOMAIN Log = 1..db[SeqRow] /\ Log = [s \in 1..db[SeqRow] |-> Log[s]]
  BY DEF Log
<1>7. Log \in Seq([id : Msg, by : User, refused : BOOLEAN]) /\ Len(Log) = db[SeqRow]
  <2> HIDE DEF Log
  <2> DEFINE E == [id : Msg, by : User, refused : BOOLEAN]
             n == db[SeqRow]
  <2>1. n \in Nat /\ Log \in [1..n -> E]
    BY <1>2, <1>5, <1>6
  <2> HIDE DEF E, n
  <2>2. Log \in Seq(E)
    BY <2>1, SeqDef
  <2>3. Len(Log) = n
    BY <2>1, <2>2, <1>6, LenProperties DEF n
  <2> QED BY <2>2, <2>3 DEF E, n
<1>8. ASSUME NEW m \in Msg, Stored(db, m)
      PROVE  db[MsgRow(m)].seq \in DOMAIN Log /\ Log[db[MsgRow(m)].seq] = Entry(m)
  <2>1. db[MsgRow(m)].seq \in 1..db[SeqRow] /\ Nth(db, db[MsgRow(m)].seq) = m
    BY <1>1, <1>8, NthIs
  <2> HIDE DEF Log
  <2>2. Log[db[MsgRow(m)].seq] = Entry(Nth(db, db[MsgRow(m)].seq))
    BY <1>3, <2>1
  <2> QED BY <1>6, <2>1, <2>2
<1> QED BY <1>1, <1>2, <1>3, <1>6, <1>7, <1>8

LEMMA SentIs == ASSUME TypeInv, NoGaps PROVE Talk!Sent = {m \in Msg : Stored(db, m)}
<1>1. Talk!Sent = {Log[i].id : i \in DOMAIN Log}
  BY DEF Talk!Sent, Log
<1>2. \A m : Entry(m).id = m
  BY DEF Entry
<1>3. ASSUME NEW s \in DOMAIN Log PROVE Log[s].id \in Msg /\ Stored(db, Log[s].id)
  <2>1. Numbered(db) /\ s \in 1..db[SeqRow] /\ Log[s] = Entry(Nth(db, s))
    BY LogIs
  <2>2. Nth(db, s) \in Msg /\ Stored(db, Nth(db, s))
    BY <2>1, NthIs
  <2> QED BY <1>2, <2>1, <2>2
<1>4. ASSUME NEW m \in Msg, Stored(db, m) PROVE \E s \in DOMAIN Log : Log[s].id = m
  <2>1. db[MsgRow(m)].seq \in DOMAIN Log /\ Log[db[MsgRow(m)].seq] = Entry(m)
    BY <1>4, LogIs
  <2> QED BY <1>2, <2>1
<1> QED BY <1>1, <1>3, <1>4

(* What is in the log stays. *)
LEMMA EntriesKept ==
  ASSUME Numbered(db), Numbered(db'), Grows, NEW s \in 1..db[SeqRow]
  PROVE  Nth(db', s) = Nth(db, s) /\ Entry(At(s))' = Entry(At(s))
<1> DEFINE m == Nth(db, s)
<1>1. m \in Msg /\ Stored(db, m) /\ db[MsgRow(m)].seq = s
  BY NthIs
<1> HIDE DEF m
<1>2. Stored(db', m) /\ db'[MsgRow(m)].seq = s /\ db'[MsgRow(m)].by = db[MsgRow(m)].by
      /\ db'[MsgRow(m)].invalid = db[MsgRow(m)].invalid
  BY <1>1 DEF Grows
<1>3. Nth(db', s) = m
  BY <1>1, <1>2, NthIs
<1>4. At(s) = m /\ At(s)' = m
  BY <1>3 DEF At, Nth, m
<1> QED BY <1>2, <1>3, <1>4 DEF Entry, m

LEMMA LogKept ==
  ASSUME Numbered(db), Numbered(db'), Grows, db'[SeqRow] = db[SeqRow]
  PROVE  Log' = Log
BY EntriesKept DEF Log

LEMMA LogGrown ==
  ASSUME TypeInv, NoGaps, Numbered(db'), Grows, NEW n \in Msg, NEW u \in User, NEW refused \in BOOLEAN,
         db'[SeqRow] = db[SeqRow] + 1,
         db'[MsgRow(n)] = [seq |-> db[SeqRow] + 1, by |-> u, state |-> "normal", invalid |-> refused]
  PROVE  Log' = Append(Log, [id |-> n, by |-> u, refused |-> refused])
<1> DEFINE e == [id |-> n, by |-> u, refused |-> refused]
           E == [id : Msg, by : User, refused : BOOLEAN]
           longer == Append(Log, e)
<1>1. PICK last \in Nat : db[SeqRow] = last
  BY LogIs
<1>2. Numbered(db) /\ Log \in Seq(E) /\ Len(Log) = last /\ e \in E
  BY <1>1, LogIs
<1>3. \A s \in 1..last : Log[s] = Entry(At(s))
  BY <1>1 DEF Log
<1>4. Log' = [s \in 1..(last + 1) |-> Entry(At(s))']
  BY <1>1 DEF Log
<1>5. Entry(At(last + 1))' = e
  <2>1. db'[MsgRow(n)].seq = last + 1 /\ Stored(db', n)
    BY <1>1 DEF Stored
  <2>2. Nth(db', last + 1) = n
    BY <2>1, NthIs
  <2>3. At(last + 1)' = n
    BY <2>2 DEF At, Nth
  <2> QED BY <2>3 DEF Entry
<1>6. \A s \in 1..last : Entry(At(s))' = Log[s]
  BY <1>1, <1>2, <1>3, EntriesKept
<1> HIDE DEF Log, e, E
<1>7. longer \in Seq(E) /\ Len(longer) = last + 1 /\ longer[last + 1] = e
      /\ \A s \in 1..last : longer[s] = Log[s]
  BY <1>2, AppendProperties
<1> HIDE DEF longer
<1>8. longer = [s \in 1..(last + 1) |-> longer[s]]
  BY <1>7, LenProperties, SeqDef
<1>9. ASSUME NEW s \in 1..(last + 1) PROVE Entry(At(s))' = longer[s]
  <2>1. s \in 1..last \/ s = last + 1
    OBVIOUS
  <2> QED BY <1>5, <1>6, <1>7, <2>1
<1>10. Log' = longer
  BY <1>4, <1>8, <1>9
<1> QED BY <1>10 DEF longer, e

(* A talk in a state and in the next, by what the rows say. *)
LEMMA ErasuresGrow ==
  ASSUME NEW new \in SUBSET (User \X Msg), DOMAIN db = Row, Typed(db),
         \A u \in User, m \in Msg : db'[EraseRow(u, m)] <=> db[EraseRow(u, m)] \/ <<u, m>> \in new
  PROVE  Erasures' = Erasures \cup new
<1>1. \A u \in User, m \in Msg : <<u, m>> \in Erasures' <=> <<u, m>> \in Erasures \cup new
  BY DEF Erasures
<1>2. Erasures' \subseteq User \X Msg /\ Erasures \cup new \subseteq User \X Msg
  BY DEF Erasures
<1> QED BY <1>1, <1>2

(* What a commit does to the rows of users. *)
LEMMA CommitErases ==
  ASSUME TypeInv, Transactions, NEW o \in Op, db' = Over(own[o], db), NEW u \in User, NEW m \in Msg
  PROVE  db'[EraseRow(u, m)] <=> db[EraseRow(u, m)] \/ EraseRow(u, m) \in Written(o)
<1>1. EraseRow(u, m) \in Row
  BY RowIs
<1>2. EraseRow(u, m) \in Written(o) => own[o][EraseRow(u, m)]
  BY DEF Transactions, Sound, Marks
<1> QED BY <1>1, <1>2, CommitRows

LEMMA CommitSessions ==
  ASSUME TypeInv, NEW o \in Op, Effect(o), db' = Over(own[o], db), NEW u \in User
  PROVE  /\ SessionRow(u) \in Written(o) => SessionFrom(o, u, db'[SessionRow(u)])
         /\ SessionRow(u) \notin Written(o) => db'[SessionRow(u)] = db[SessionRow(u)]
<1>1. SessionRow(u) \in Row
  BY RowIs
<1>2. CASE SessionRow(u) \in Written(o)
  <2>1. db'[SessionRow(u)] = own[o][SessionRow(u)]
    BY <1>2, CommitRows
  <2> QED BY <1>2, <2>1 DEF Effect, SessionsAre
<1>3. CASE SessionRow(u) \notin Written(o)
  BY <1>1, <1>3, CommitRows
<1> QED BY <1>2, <1>3

(* The messages a commit changes: a new one, or one that is revoked. *)
LEMMA CommitRevokes ==
  ASSUME TypeInv, Transactions, NEW o \in Op, Effect(o), pc[o] = "commit", db' = Over(own[o], db)
  PROVE  Revoked' = Revoked \cup (IF op[o].kind = "revoke" THEN {op[o].msg} ELSE {})
<1>1. ASSUME NEW m \in Msg
      PROVE  m \in Revoked' <=> m \in Revoked \/ (op[o].kind = "revoke" /\ m = op[o].msg)
  <2>1. CASE Inserted(o) /\ m = op[o].msg
    <3>1. ~Stored(db, m) /\ db'[MsgRow(m)].state = "normal"
      <4>1. ~Stored(db, op[o].msg)
            /\ db'[MsgRow(op[o].msg)] = [seq |-> db[SeqRow] + 1, by |-> op[o].user,
                                         state |-> "normal", invalid |-> ~op[o].deliver]
        BY <2>1, CommitMessages
      <4> QED BY <2>1, <4>1
    <3>2. op[o].kind # "revoke"
      BY <2>1 DEF Inserted
    <3> QED BY <3>1, <3>2 DEF Revoked, Stored
  <2>2. CASE op[o].kind = "revoke" /\ m = op[o].msg
    <3>1. MsgRow(m) \in Written(o) /\ ~Inserted(o)
      BY <2>2 DEF Effect, MessagesAre, Inserted
    <3>2. own[o][MsgRow(m)] = [db[MsgRow(m)] EXCEPT !.state = "revoked"]
      BY <3>1 DEF Transactions, Sound, Marks
    <3>3. db'[MsgRow(m)].state = "revoked"
      <4>1. db[MsgRow(m)] \in Message
        BY RowIs DEF TypeInv, Typed
      <4> QED BY <3>1, <3>2, <4>1, CommitRows DEF Message
    <3> QED BY <2>2, <3>3 DEF Revoked
  <2>3. CASE ~(Inserted(o) /\ m = op[o].msg) /\ ~(op[o].kind = "revoke" /\ m = op[o].msg)
    <3>1. MsgRow(m) \notin Written(o)
      BY <2>3 DEF Effect, MessagesAre
    <3>2. db'[MsgRow(m)] = db[MsgRow(m)]
      BY <3>1, RowIs, CommitRows
    <3> QED BY <2>3, <3>2 DEF Revoked
  <2> QED BY <2>1, <2>2, <2>3
<1>2. op[o].kind = "revoke" => op[o].msg \in Msg
  BY DEF TypeInv, About
<1>3. Revoked \subseteq Msg /\ Revoked' \subseteq Msg
  BY DEF Revoked
<1> QED BY <1>1, <1>2, <1>3

Ready == TypeInv /\ Transactions /\ NoGaps /\ Effects

(* A commit of o, but for what depends on its kind. *)
LEMMA CommitTalks ==
  ASSUME Ready, NEW o \in Op, pc[o] = "commit", db' = Over(own[o], db), NoGaps'
  PROVE  /\ Mode' = Mode /\ Grows /\ Numbered(db') /\ Effect(o) /\ op[o] \in Call /\ op[o].kind # "none"
         /\ op[o].kind # "send" => Log' = Log
         /\ op[o].kind # "revoke" => Revoked' = Revoked
         /\ op[o].kind \notin {"send", "wipe"} => SessionStates' = SessionStates
         /\ op[o].kind # "send" => UnreadCounts' = UnreadCounts
<1>1. TypeInv /\ Transactions /\ NoGaps /\ Effect(o) /\ op[o] \in Call
  BY DEF Ready, Effects, TypeInv
<1>2. Mode' = Mode /\ Grows /\ op[o].kind # "none"
  BY <1>1, Commits, CommitGrows DEF Mode, Effect, Settled
<1>3. Numbered(db') /\ Numbered(db)
  BY <1>1, LogIs DEF NoGaps, Numbered
<1>4. ASSUME op[o].kind # "send" PROVE Log' = Log
  <2>1. db'[SeqRow] = db[SeqRow]
    BY <1>1, <1>4, CommitMessages DEF Inserted
  <2> QED BY <1>2, <1>3, <2>1, LogKept
<1>5. op[o].kind # "revoke" => Revoked' = Revoked
  BY <1>1, CommitRevokes
<1>6. ASSUME op[o].kind # "send", NEW u \in User
      PROVE  /\ op[o].kind # "wipe" => db'[SessionRow(u)].state = db[SessionRow(u)].state
             /\ db'[SessionRow(u)].unread = db[SessionRow(u)].unread
  <2>1. ~Counting(o, u)
    BY <1>6 DEF Counting
  <2> QED BY <1>1, <1>6, <2>1, CommitSessions DEF SessionFrom
<1>7. op[o].kind \notin {"send", "wipe"} => SessionStates' = SessionStates
  BY <1>6 DEF SessionStates
<1>8. op[o].kind # "send" => UnreadCounts' = UnreadCounts
  BY <1>6 DEF UnreadCounts
<1> QED BY <1>1, <1>2, <1>3, <1>4, <1>5, <1>7, <1>8

LEMMA TalkSend ==
  ASSUME Ready, NEW o \in Op, pc[o] = "commit", op[o].kind = "send", db' = Over(own[o], db), NoGaps',
         pushed' = pushed
  PROVE  Talk!Send(op[o].user, op[o].msg)
<1> DEFINE u == op[o].user
           n == op[o].msg
           refused == ~op[o].deliver
           back == {v \in User : db'[SessionRow(v)].state = "alive" /\ db[SessionRow(v)].state # "alive"}
           e == [id |-> n, by |-> u, refused |-> refused]
<1>1. TypeInv /\ Transactions /\ NoGaps /\ Mode' = Mode /\ Grows /\ Numbered(db') /\ Effect(o)
      /\ u \in User /\ refused \in BOOLEAN /\ Revoked' = Revoked
  BY CommitTalks DEF Ready, Call
<1>2. n \in Msg /\ (refused => Mode = "single")
  BY <1>1 DEF TypeInv, About
<1>3. Inserted(o)
  BY DEF Inserted
<1>4. ~Stored(db, n) /\ db'[SeqRow] = db[SeqRow] + 1
      /\ db'[MsgRow(n)] = [seq |-> db[SeqRow] + 1, by |-> u, state |-> "normal", invalid |-> refused]
  BY <1>1, <1>3, CommitMessages
<1>5. n \notin Talk!Sent
  BY <1>1, <1>4, SentIs
<1>6. Log' = Append(Log, e)
  BY <1>1, <1>2, <1>4, LogGrown
<1> DEFINE new == IF refused THEN (User \ {u}) \X {n} ELSE {}
<1>7. Erasures' = Erasures \cup new
  <2>1. ASSUME NEW w \in User, NEW m \in Msg
        PROVE  db'[EraseRow(w, m)] <=> db[EraseRow(w, m)] \/ <<w, m>> \in new
    <3>1. EraseRow(w, m) \in Written(o) <=> refused /\ w # u /\ m = n
      BY <1>1 DEF Effect, ErasesAre
    <3> QED BY <1>1, <3>1, CommitErases
  <2>2. new \in SUBSET (User \X Msg)
    BY <1>2
  <2> HIDE DEF new
  <2> QED BY <1>1, <2>1, <2>2, ErasuresGrow DEF TypeInv
<1>8. ASSUME NEW v \in User
      PROVE  /\ db'[SessionRow(v)].state = IF v \in back THEN "alive" ELSE db[SessionRow(v)].state
             /\ v \in back => Mode = "single" /\ (v = u \/ ~refused)
             /\ db'[SessionRow(v)].unread = IF v # u /\ db'[SessionRow(v)].state = "alive"
                                             THEN db[SessionRow(v)].unread + 1 ELSE db[SessionRow(v)].unread
  <2>1. SessionFrom(o, v, db'[SessionRow(v)])
    BY <1>1, RowIs, CommitSessions DEF Effect, Settled
  <2>2. Counting(o, v) <=> v # u
    BY DEF Counting
  <2> QED BY <2>1, <2>2 DEF SessionFrom
<1>9. SessionStates' = [v \in User |-> IF v \in back THEN "alive" ELSE SessionStates[v]]
  BY <1>8 DEF SessionStates
<1>10. UnreadCounts' = [v \in User |-> IF v # u /\ SessionStates'[v] = "alive"
                                       THEN UnreadCounts[v] + 1 ELSE UnreadCounts[v]]
  BY <1>8 DEF SessionStates, UnreadCounts
<1>11. back \in SUBSET User /\ (refused => Mode = "single" /\ back \subseteq {u}) /\ (back # {} => Mode = "single")
  BY <1>2, <1>8
<1> HIDE DEF back, u, n
<1>12. /\ \E r \in BOOLEAN, b \in SUBSET User :
            /\ r => Mode = "single" /\ b \subseteq {u}
            /\ b # {} => Mode = "single"
            /\ Log' = Append(Log, [id |-> n, by |-> u, refused |-> r])
            /\ Erasures' = Erasures \cup (IF r THEN (User \ {u}) \X {n} ELSE {})
            /\ SessionStates' = [v \in User |-> IF v \in b THEN "alive" ELSE SessionStates[v]]
  BY <1>1, <1>6, <1>7, <1>9, <1>11
<1> HIDE DEF refused, new, e
<1>13. Talk!Send(u, n)
  BY <1>1, <1>5, <1>10, <1>12
     DEF Talk!Send, Log, Revoked, Erasures, SessionStates, UnreadCounts
<1> QED BY <1>13 DEF u, n

LEMMA TalkRevoke ==
  ASSUME Ready, NEW o \in Op, pc[o] = "commit", op[o].kind = "revoke", db' = Over(own[o], db), NoGaps',
         pushed' = pushed
  PROVE  Talk!Revoke(op[o].user, op[o].msg)
<1> DEFINE u == op[o].user
           n == op[o].msg
<1>1. TypeInv /\ Transactions /\ NoGaps /\ Effect(o)
  BY DEF Ready, Effects
<1>2. Mode' = Mode /\ Log' = Log /\ SessionStates' = SessionStates /\ UnreadCounts' = UnreadCounts
  BY CommitTalks
<1>3. Revoked' = Revoked \cup {n}
  BY <1>1, CommitRevokes
<1>4. Erasures' = Erasures
  <2>1. \A w \in User, m \in Msg : EraseRow(w, m) \notin Written(o)
    BY <1>1 DEF Effect, ErasesAre
  <2>2. \A w \in User, m \in Msg : db'[EraseRow(w, m)] <=> db[EraseRow(w, m)] \/ <<w, m>> \in {}
    BY <1>1, <2>1, CommitErases
  <2>3. Erasures' = Erasures \cup {}
    BY <1>1, <2>2, ErasuresGrow DEF TypeInv
  <2> QED BY <2>3
<1>5. \E i \in DOMAIN Log : Log[i].id = n /\ Log[i].by = u
  <2>1. n \in Msg /\ Stored(db, n) /\ db[MsgRow(n)].by = u
    BY <1>1 DEF TypeInv, About, Transactions, Sound, Marks, Effect, Settled
  <2>2. db[MsgRow(n)].seq \in DOMAIN Log /\ Log[db[MsgRow(n)].seq] = Entry(n)
    BY <1>1, <2>1, LogIs
  <2>3. Entry(n).id = n /\ Entry(n).by = u
    BY <2>1 DEF Entry
  <2> QED BY <2>2, <2>3
<1> HIDE DEF u, n
<1>6. Talk!Revoke(u, n)
  BY <1>2, <1>3, <1>4, <1>5 DEF Talk!Revoke, Log, Revoked, Erasures, SessionStates, UnreadCounts
<1> QED BY <1>6 DEF u, n

LEMMA TalkDelete ==
  ASSUME Ready, NEW o \in Op, pc[o] = "commit", op[o].kind = "delete", db' = Over(own[o], db), NoGaps',
         pushed' = pushed
  PROVE  Talk!Delete(op[o].user, op[o].msg)
<1> DEFINE u == op[o].user
           n == op[o].msg
<1>1. TypeInv /\ Transactions /\ NoGaps /\ Effect(o) /\ u \in User
  BY DEF Ready, Effects, TypeInv, Call
<1>2. Mode' = Mode /\ Log' = Log /\ Revoked' = Revoked /\ SessionStates' = SessionStates
      /\ UnreadCounts' = UnreadCounts
  BY CommitTalks
<1>3. n \in Msg /\ Stored(db, n)
  BY <1>1 DEF TypeInv, About, Transactions, Sound, Marks
<1>4. n \in Talk!Sent
  BY <1>1, <1>3, SentIs
<1>5. Erasures' = Erasures \cup {<<u, n>>}
  <2>1. ASSUME NEW w \in User, NEW m \in Msg
        PROVE  db'[EraseRow(w, m)] <=> db[EraseRow(w, m)] \/ <<w, m>> \in {<<u, n>>}
    <3>1. EraseRow(w, m) \in Written(o) <=> w = u /\ m = n
      BY <1>1 DEF Effect, ErasesAre
    <3> QED BY <1>1, <3>1, CommitErases
  <2>2. {<<u, n>>} \in SUBSET (User \X Msg)
    BY <1>1, <1>3
  <2> QED BY <1>1, <2>1, <2>2, ErasuresGrow DEF TypeInv
<1> HIDE DEF u, n
<1>6. Talk!Delete(u, n)
  BY <1>2, <1>4, <1>5 DEF Talk!Delete, Log, Revoked, Erasures, SessionStates, UnreadCounts
<1> QED BY <1>6 DEF u, n

LEMMA TalkClear ==
  ASSUME Ready, NEW o \in Op, pc[o] = "commit", op[o].kind \in {"clear", "wipe"}, db' = Over(own[o], db), NoGaps',
         pushed' = pushed
  PROVE  (op[o].kind = "clear" /\ Talk!Clear(op[o].user)) \/ (op[o].kind = "wipe" /\ Talk!Wipe(op[o].user))
<1> DEFINE u == op[o].user
           all == {m \in Msg : Stored(db, m)}
<1>1. TypeInv /\ Transactions /\ NoGaps /\ Effect(o) /\ u \in User
  BY DEF Ready, Effects, TypeInv, Call
<1>2. Mode' = Mode /\ Log' = Log /\ Revoked' = Revoked /\ UnreadCounts' = UnreadCounts
      /\ (op[o].kind = "clear" => SessionStates' = SessionStates)
  BY CommitTalks
<1>3. Talk!Sent = all
  BY <1>1, SentIs
<1>4. Erasures' = Erasures \cup ({u} \X Talk!Sent)
  <2>1. ASSUME NEW w \in User, NEW m \in Msg
        PROVE  db'[EraseRow(w, m)] <=> db[EraseRow(w, m)] \/ <<w, m>> \in {u} \X all
    <3>1. EraseRow(w, m) \in Written(o) <=> w = u /\ Stored(db, m)
      BY <1>1 DEF Effect, ErasesAre
    <3> QED BY <1>1, <3>1, CommitErases
  <2>2. {u} \X all \in SUBSET (User \X Msg)
    BY <1>1
  <2>3. Erasures' = Erasures \cup ({u} \X all)
    BY <1>1, <2>1, <2>2, ErasuresGrow DEF TypeInv
  <2> QED BY <1>3, <2>3
<1>5. op[o].kind = "wipe" =>
         SessionStates' = [SessionStates EXCEPT ![u] = IF SessionStates[u] = "alive" THEN "removed" ELSE SessionStates[u]]
  <2>1. SUFFICES ASSUME op[o].kind = "wipe", NEW v \in User
                 PROVE  db'[SessionRow(v)].state = IF v = u /\ db[SessionRow(v)].state = "alive"
                                                   THEN "removed" ELSE db[SessionRow(v)].state
    BY <1>1 DEF SessionStates
  <2>2. CASE v = u
    <3>1. SessionRow(u) \in Written(o)
      BY <1>1, <2>1 DEF Effect, Settled
    <3>2. SessionFrom(o, u, db'[SessionRow(u)])
      BY <1>1, <3>1, CommitSessions
    <3>3. db'[SessionRow(u)].state # "alive"
      BY <1>1, <2>1, <3>1, CommitRows DEF Effect, SessionsAre
    <3> QED BY <2>1, <2>2, <3>2, <3>3 DEF SessionFrom
  <2>3. CASE v # u
    <3>1. SessionRow(v) \notin Written(o)
      BY <1>1, <2>1, <2>3 DEF Effect, SessionsAre
    <3> QED BY <1>1, <2>3, <3>1, CommitSessions
  <2> QED BY <2>2, <2>3
<1> HIDE DEF u, all
<1>6. op[o].kind = "clear" => Talk!Clear(u)
  BY <1>2, <1>4 DEF Talk!Clear, Log, Revoked, Erasures, SessionStates, UnreadCounts
<1>7. op[o].kind = "wipe" => Talk!Wipe(u)
  BY <1>2, <1>4, <1>5 DEF Talk!Wipe, Talk!Close, Log, Revoked, Erasures, SessionStates, UnreadCounts
<1> QED BY <1>6, <1>7 DEF u

(* The single statements. *)
LEMMA TalkAlters ==
  ASSUME Ready, NEW o \in Op, NEW u \in User, Alters(o, u), NoGaps'
  PROVE  Talk!Read(u) \/ Talk!Remove(u) \/ Talk!Open(u)
<1>1. TypeInv /\ NoGaps
  BY DEF Ready
<1>2. pushed' = pushed /\ DOMAIN db = Row /\ \A r \in Row \ {SessionRow(u)} : db'[r] = db[r]
  BY <1>1, AltersIs DEF TypeInv
<1>3. /\ Grows /\ db'[SeqRow] = db[SeqRow] /\ \A m \in Msg : db'[MsgRow(m)] = db[MsgRow(m)]
      /\ \A v \in User, m \in Msg : db'[EraseRow(v, m)] = db[EraseRow(v, m)]
  BY <1>1, AltersGrows
<1>4. Mode' = Mode
  BY <1>2, RowIs, RowsDiffer DEF Mode
<1>5. Log' = Log
  <2>1. Numbered(db) /\ Numbered(db')
    BY <1>1, LogIs DEF NoGaps, Numbered
  <2> QED BY <1>3, <2>1, LogKept
<1>6. Revoked' = Revoked
  BY <1>3 DEF Revoked
<1>7. Erasures' = Erasures
  <2>1. \A e \in User \X Msg : db'[EraseRow(e[1], e[2])] = db[EraseRow(e[1], e[2])]
    BY <1>3
  <2> QED BY <2>1 DEF Erasures
<1>8. ASSUME NEW v \in User, v # u PROVE db'[SessionRow(v)] = db[SessionRow(v)]
  BY <1>2, <1>8, RowIs, RowsDiffer
<1>9. SessionRow(u) \in Row /\ db[SessionRow(u)] \in Session
  BY <1>1, RowIs DEF TypeInv, Typed
<1>10. CASE ClearUnread(o, u)
  <2>1. db' = [db EXCEPT ![SessionRow(u)] = [db[SessionRow(u)] EXCEPT !.unread = 0]]
        /\ db[SessionRow(u)].state = "alive"
    BY <1>10 DEF ClearUnread
  <2>2. db'[SessionRow(u)].unread = 0 /\ db'[SessionRow(u)].state = db[SessionRow(u)].state
    BY <1>2, <1>9, <2>1 DEF Session
  <2>3. SessionStates' = SessionStates /\ SessionStates[u] = "alive"
    BY <1>8, <2>1, <2>2 DEF SessionStates
  <2>4. UnreadCounts' = [UnreadCounts EXCEPT ![u] = 0]
    BY <1>8, <2>2 DEF UnreadCounts
  <2>5. Talk!Read(u)
    BY <1>2, <1>4, <1>5, <1>6, <1>7, <2>3, <2>4
       DEF Talk!Read, Log, Revoked, Erasures, SessionStates, UnreadCounts
  <2> QED BY <2>5
<1>11. ASSUME NEW state, db' = [db EXCEPT ![SessionRow(u)] = [db[SessionRow(u)] EXCEPT !.state = state]]
       PROVE  SessionStates' = [SessionStates EXCEPT ![u] = state] /\ UnreadCounts' = UnreadCounts
  <2>1. db'[SessionRow(u)].unread = db[SessionRow(u)].unread /\ db'[SessionRow(u)].state = state
    BY <1>2, <1>9, <1>11 DEF Session
  <2> QED BY <1>8, <2>1 DEF SessionStates, UnreadCounts
<1>12. CASE RemoveSession(o, u)
  <2>1. db' = [db EXCEPT ![SessionRow(u)] = [db[SessionRow(u)] EXCEPT !.state = "removed"]]
        /\ SessionStates[u] = "alive"
    BY <1>12 DEF RemoveSession, SessionStates
  <2>2. SessionStates' = [SessionStates EXCEPT ![u] = "removed"] /\ UnreadCounts' = UnreadCounts
    BY <1>11, <2>1
  <2>3. SessionStates' = [SessionStates EXCEPT ![u] = IF SessionStates[u] = "alive" THEN "removed" ELSE SessionStates[u]]
    BY <2>1, <2>2
  <2>4. Talk!Remove(u)
    BY <1>2, <1>4, <1>5, <1>6, <1>7, <2>2, <2>3
       DEF Talk!Remove, Talk!Close, Log, Revoked, Erasures, SessionStates, UnreadCounts
  <2> QED BY <2>4
<1>13. CASE OpenSession(o, u)
  <2>1. db' = [db EXCEPT ![SessionRow(u)] = [db[SessionRow(u)] EXCEPT !.state = "alive"]]
    BY <1>13 DEF OpenSession
  <2>2. SessionStates' = [SessionStates EXCEPT ![u] = "alive"] /\ UnreadCounts' = UnreadCounts
    BY <1>11, <2>1
  <2>3. Talk!Open(u)
    BY <1>2, <1>4, <1>5, <1>6, <1>7, <2>2
       DEF Talk!Open, Log, Revoked, Erasures, SessionStates, UnreadCounts
  <2> QED BY <2>3
<1> QED BY <1>10, <1>12, <1>13 DEF Alters

(* Nothing but the pushes changes. *)
LEMMA TalkSame ==
  ASSUME db' = db
  PROVE  /\ Mode' = Mode /\ Log' = Log /\ Revoked' = Revoked /\ Erasures' = Erasures
         /\ SessionStates' = SessionStates /\ UnreadCounts' = UnreadCounts
<1>1. \A s : At(s)' = At(s)
  BY DEF At, Stored
<1>2. Log' = Log
  BY <1>1 DEF Log, Entry
<1> QED BY <1>2 DEF Mode, Revoked, Erasures, SessionStates, UnreadCounts

LEMMA TalkPush ==
  ASSUME Ready, NEW o \in Op, Push(o)
  PROVE  Talk!Tell
<1> DEFINE n == op[o].msg
           to == IF Mode = "group" THEN {u \in User : db[SessionRow(u)].state = "alive"}
                 ELSE IF op[o].deliver THEN {Other(op[o].user)} ELSE {}
<1>1. TypeInv /\ Transactions /\ NoGaps /\ Effect(o) /\ Mode \in Modes
  BY RowIs DEF Ready, Effects, TypeInv, Typed, Mode
<1>2. db' = db /\ pc[o] = "push" /\ pushed' = pushed \cup (to \X {n})
  BY DEF Push, Step
<1>3. n \in Msg /\ Stored(db, n) /\ db[MsgRow(n)].invalid = ~op[o].deliver /\ db[MsgRow(n)].by = op[o].user
      /\ op[o].user \in User /\ op[o].deliver \in BOOLEAN
  BY <1>1, <1>2 DEF TypeInv, About, Call, Transactions, Sound, Announced, Effect, Settled
<1> DEFINE i == db[MsgRow(n)].seq
<1>4. i \in DOMAIN Log /\ Log[i] = Entry(n)
  BY <1>1, <1>3, LogIs
<1>5. Log[i].id = n /\ Log[i].by = op[o].user /\ Log[i].refused = ~op[o].deliver
  BY <1>3, <1>4 DEF Entry
<1>6. \A u \in User : SessionStates[u] = db[SessionRow(u)].state
  BY DEF SessionStates
<1>7. to = IF Mode = "group" THEN {u \in User : SessionStates[u] = "alive"}
           ELSE IF Log[i].refused THEN {} ELSE User \ {Log[i].by}
  <2>1. CASE Mode = "group"
    BY <1>6, <2>1
  <2>2. CASE Mode # "group"
    <3>1. Mode = "single"
      BY <1>1, <2>2, ModeAssumption
    <3>2. User \ {op[o].user} = {Other(op[o].user)}
      BY <1>1, <1>3, <3>1, OtherOne
    <3> QED BY <1>5, <2>2, <3>2
  <2> QED BY <2>1, <2>2
<1> HIDE DEF i, to, n
<1>8. pushed' = pushed \cup (to \X {Log[i].id})
  BY <1>2, <1>5
<1> QED BY <1>2, <1>4, <1>7, <1>8, TalkSame DEF Talk!Tell, Log, Revoked, Erasures, SessionStates, UnreadCounts

LEMMA TalkInit == Init => Talk!Init
<1> SUFFICES ASSUME Init PROVE Talk!Init
  OBVIOUS
<1>1. PICK mode \in Modes :
        LET someone == CHOOSE u \in User : TRUE
            blank   == [seq |-> 0, by |-> someone, state |-> "none", invalid |-> FALSE]
            fresh   == [state |-> IF mode = "group" THEN "alive" ELSE "none",
                        last |-> NoMsg, unread |-> 0]
        IN db = [r \in Row |-> CASE r \in Messages -> blank
                                 [] r \in Sessions -> fresh
                                 [] r \in Erases   -> FALSE
                                 [] r = TalkRow    -> mode
                                 [] r = SeqRow     -> 0]
  BY DEF Init
<1>2. Mode = mode /\ \A u \in User : db[SessionRow(u)] = [state |-> IF mode = "group" THEN "alive" ELSE "none",
                                                          last |-> NoMsg, unread |-> 0]
  BY <1>1, RowIs, TablesDiffer, RowsDiffer DEF Mode
<1>3. /\ db[SeqRow] = 0 /\ \A m \in Msg : db[MsgRow(m)].state = "none"
      /\ \A u \in User, m \in Msg : ~db[EraseRow(u, m)]
      /\ pushed = {}
  BY InitRows, RowIs DEF Init
<1>4. Mode \in {"single", "group"}
  BY <1>2, ModeAssumption
<1>5. Log = <<>>
  <2>1. 1..db[SeqRow] = {}
    BY <1>3
  <2> QED BY <2>1 DEF Log
<1>6. Revoked = {} /\ Erasures = {}
  BY <1>3 DEF Revoked, Erasures
<1>7. SessionStates = [u \in User |-> IF Mode = "group" THEN "alive" ELSE "none"] /\ UnreadCounts = [u \in User |-> 0]
  BY <1>2 DEF SessionStates, UnreadCounts
<1> QED BY <1>3, <1>4, <1>5, <1>6, <1>7 DEF Talk!Init, Log, Revoked, Erasures, SessionStates, UnreadCounts

LEMMA TalkStep == ASSUME Ready, NoGaps', [Next]_vars PROVE [Talk!Next]_Talk!vars
<1>1. ASSUME db' = db PROVE [Talk!Next]_Talk!vars
  <2>1. CASE pushed' = pushed
    <3>1. UNCHANGED Talk!vars
      BY <1>1, <2>1, TalkSame DEF Talk!vars, Log, Revoked, Erasures, SessionStates, UnreadCounts
    <3> QED BY <3>1
  <2>2. ASSUME NEW o \in Op, Push(o) PROVE Talk!Tell
    BY <2>2, TalkPush
  <2> QED BY <2>1, <2>2, PushSteps DEF Talk!Next
<1>2. ASSUME NEW o \in Op, NEW u \in User, Alters(o, u) PROVE Talk!Next
  BY <1>2, TalkAlters DEF Talk!Next
<1>3. ASSUME NEW o \in Op, pc[o] = "commit", db' = Over(own[o], db), pushed' = pushed PROVE Talk!Next
  <2>1. op[o].kind \in {"send", "revoke", "delete", "clear", "wipe"} /\ op[o].user \in User
        /\ (op[o].kind \in {"send", "revoke", "delete"} => op[o].msg \in Msg)
    BY <1>3, CommitTalks DEF Call, Ready, TypeInv, About
  <2> QED BY <1>3, <2>1, TalkSend, TalkRevoke, TalkDelete, TalkClear DEF Talk!Next
<1>4. ASSUME NEW o \in Op, Push(o) PROVE db' = db
  BY <1>4 DEF Push
<1> QED BY <1>1, <1>2, <1>3, <1>4, DbSteps, PushSteps

(* Every call on a talk is one step of TalkLog, whatever its statements    *)
(* are, whatever runs at the same time and whichever of them fail          *)
(* (SendMessage, RevokeMessage, DeleteMessages, ClearTalkRecords,          *)
(* DeleteAllMessagesInTalkForUser, PushImMessage).                         *)
THEOREM TalkImplementation == Spec => KeepsTalk
<1>1. TypeInv /\ Transactions /\ Order /\ Effects /\ [Next]_vars => Effects'
  BY EffectsStep
<1>2. TypeInv /\ Transactions /\ Order /\ [Next]_vars => Order'
  BY OrderStep
<1>3. Spec => [](Order /\ Effects)
  BY <1>1, <1>2, OrderInit, EffectsInit, TransactionsAlways, PTL DEF Spec
<1>4. TypeInv /\ Transactions /\ NoGaps /\ Effects /\ NoGaps' /\ [Next]_vars => [Talk!Next]_Talk!vars
  BY TalkStep DEF Ready
<1> QED BY <1>3, <1>4, TalkInit, TransactionsAlways, NoGapsHolds, PTL DEF Spec, KeepsTalk, Talk!Spec

------------------------------------------------------------------------------
(* What the lists of the users show *)

(* The calls the code gets right: between friends, no session is restored  *)
(* by hand, no failure is only logged, and revocations and deletions run   *)
(* alone.                                                                  *)
Plain == ~Strangers /\ ~Tolerated /\ Overlap \cap {"revoke", "delete"} = {} /\ "open" \notin Kinds

IsNewest(d, u, m) == IF Visible(d, u) = {} THEN m = NoMsg
                     ELSE m \in Visible(d, u) /\ \A n \in Visible(d, u) : d[MsgRow(n)].seq <= d[MsgRow(m)].seq

Shown(d, u) == d[SessionRow(u)].state = "alive" => IsNewest(d, u, d[SessionRow(u)].last)

(* Who gets another last message: the caller, or whose last message is     *)
(* revoked.                                                                *)
Relists(o, u) == IF op[o].kind = "delete" THEN u = op[o].user
                 ELSE View(o)[SessionRow(u)].last = op[o].msg

Exclusive(o) == pc[o] \notin Ended /\ op[o].kind \in {"revoke", "delete"}
Alones == \A o \in Op : Exclusive(o) => \A p \in Op \ {o} : pc[p] \in Ended

(* A send that is about to commit has put its message in every session. *)
SendShows(o) ==
  op[o].kind = "send" /\ pc[o] = "commit" =>
     \A u \in User : /\ SessionRow(u) \in Written(o)
                     /\ own[o][SessionRow(u)].state = "alive" => own[o][SessionRow(u)].last = op[o].msg

(* A clear has locked every message of the talk and deleted those there.   *)
ClearShows(o) ==
  op[o].kind \in {"clear", "wipe"} /\ pc[o] \in {"apply", "commit"} =>
     LET u == op[o].user
     IN /\ Messages \subseteq shared[o]
        /\ \A m \in Msg : Stored(db, m) => EraseRow(u, m) \in Written(o)
        /\ Written(o) \subseteq {EraseRow(u, m) : m \in Msg} \cup {SessionRow(u)}
        /\ DOMAIN plan[o] \subseteq {u}
        /\ IF u \in DOMAIN plan[o] THEN plan[o][u] = NoMsg
           ELSE /\ SessionRow(u) \in Written(o)
                /\ own[o][SessionRow(u)].state = "alive" => own[o][SessionRow(u)].last = NoMsg
        /\ pc[o] = "commit" => DOMAIN plan[o] = {}

(* A revocation or deletion plans the newest message left for those whose  *)
(* session does not show it.                                               *)
RemoveShows(o) ==
  op[o].kind \in {"revoke", "delete"} =>
     /\ pc[o] = "list" => \A u \in User : Shown(View(o), u) \/ Relists(o, u)
     /\ pc[o] \in {"apply", "commit"} =>
           \A u \in User : IF u \in DOMAIN plan[o] THEN IsNewest(View(o), u, plan[o][u]) ELSE Shown(View(o), u)
     /\ pc[o] = "commit" => DOMAIN plan[o] = {}

(* Nobody deletes a message that is not there. *)
ErasesStored(o) == \A u \in User, m \in Msg : EraseRow(u, m) \in Written(o) => Stored(db, m)

Shows(o) == /\ op[o].deliver /\ (pc[o] = "commit" => op[o].kind # "none")
            /\ ErasesStored(o) /\ SendShows(o) /\ ClearShows(o) /\ RemoveShows(o)

Lists == /\ \A o \in Op : Shows(o)
         /\ Alones
         /\ \A u \in User, m \in Msg : db[EraseRow(u, m)] => Stored(db, m)
         /\ \A u \in User : Shown(db, u)

Base == TypeInv /\ Transactions /\ NoGaps

LEMMA ListsInit == Init => Lists
<1> SUFFICES ASSUME Init PROVE Lists
  OBVIOUS
<1>1. \A o \in Op : own[o] = <<>> /\ pc[o] = "idle" /\ op[o].kind = "none" /\ op[o].deliver
  BY DEF Init
<1>2. ASSUME NEW u \in User PROVE db[SessionRow(u)].last = NoMsg
  BY InitRows, RowIs
<1> HIDE DEF Init
<1>3. (\A u \in User, m \in Msg : ~db[EraseRow(u, m)]) /\ (\A m \in Msg : ~Stored(db, m))
  BY InitRows, RowIs DEF Stored
<1>4. \A o \in Op : Shows(o)
  BY <1>1, NothingIs DEF Shows, ErasesStored, SendShows, ClearShows, RemoveShows, Written
<1>5. Alones
  BY <1>1 DEF Alones, Exclusive
<1>6. ASSUME NEW u \in User PROVE Shown(db, u)
  <2>1. Visible(db, u) = {}
    BY <1>3 DEF Visible, Stored
  <2> QED BY <1>2, <2>1 DEF Shown, IsNewest
<1> QED BY <1>3, <1>4, <1>5, <1>6 DEF Lists

(* What the lists depend on. *)
LEMMA SameVisible ==
  ASSUME NEW d, NEW e, NEW u \in User,
         \A m \in Msg : d[MsgRow(m)] = e[MsgRow(m)],
         \A m \in Msg : d[EraseRow(u, m)] = e[EraseRow(u, m)]
  PROVE  /\ Visible(d, u) = Visible(e, u)
         /\ \A m : IsNewest(d, u, m) <=> IsNewest(e, u, m)
<1>1. Visible(d, u) = Visible(e, u) /\ Visible(d, u) \subseteq Msg
  BY DEF Visible
<1> QED BY <1>1 DEF IsNewest

(* The other calls, while the committed rows stay. *)
LEMMA ShowsKept ==
  ASSUME TypeInv, NEW o \in Op, Others(o), db' = db, NEW p \in Op \ {o}, Shows(p)
  PROVE  Shows(p)'
<1>1. own'[p] = own[p] /\ op'[p] = op[p] /\ pc'[p] = pc[p] /\ plan'[p] = plan[p] /\ shared'[p] = shared[p]
      /\ Written(p)' = Written(p) /\ View(p)' = View(p)
  BY DEF Others, Written, View, TypeInv
<1>2. ErasesStored(p)' /\ SendShows(p)' /\ ClearShows(p)'
  BY <1>1 DEF Shows, ErasesStored, SendShows, ClearShows
<1>3. RemoveShows(p)'
  <2>1. \A u \in User : Relists(p, u)' <=> Relists(p, u)
    BY <1>1 DEF Relists
  <2> QED BY <1>1, <2>1 DEF Shows, RemoveShows
<1> QED BY <1>1, <1>2, <1>3 DEF Shows

(* The other calls, when the committed rows change. *)
LEMMA ShowsGrown ==
  ASSUME TypeInv, NEW o \in Op, Others(o), Grows, NEW p \in Op \ {o}, Shows(p), ~Exclusive(p),
         Messages \subseteq shared[p] => \A m \in Msg : Stored(db', m) => Stored(db, m)
  PROVE  Shows(p)'
<1>1. own'[p] = own[p] /\ op'[p] = op[p] /\ pc'[p] = pc[p] /\ plan'[p] = plan[p] /\ shared'[p] = shared[p]
      /\ Written(p)' = Written(p)
  BY DEF Others, Written, TypeInv
<1>2. ErasesStored(p)'
  BY <1>1 DEF Shows, ErasesStored, Grows
<1>3. SendShows(p)'
  BY <1>1 DEF Shows, SendShows
<1>4. ClearShows(p)'
  BY <1>1 DEF Shows, ClearShows
<1>5. RemoveShows(p)'
  BY <1>1 DEF RemoveShows, Exclusive, Ended
<1> QED BY <1>1, <1>2, <1>3, <1>4, <1>5 DEF Shows

LEMMA AlonesKept ==
  ASSUME TypeInv, Alones, NEW o \in Op, Others(o), pc[o] \notin Ended, op'[o].kind = op[o].kind
  PROVE  Alones'
<1>1. \A p \in Op \ {o} : op'[p] = op[p] /\ pc'[p] = pc[p]
  BY DEF Others, TypeInv
<1>2. \A p \in Op : Exclusive(p)' => Exclusive(p)
  BY <1>1 DEF Exclusive
<1> QED BY <1>1, <1>2 DEF Alones

(* A step of a transaction before its end. *)
LEMMA ListsByCall ==
  ASSUME Base, Lists, NEW o \in Op, Others(o), db' = db, pc[o] \notin Ended, op'[o].kind = op[o].kind, Shows(o)'
  PROVE  Lists'
<1>1. \A p \in Op \ {o} : Shows(p)'
  BY ShowsKept DEF Base, Lists
<1>2. Alones'
  BY AlonesKept DEF Base, Lists
<1> QED BY <1>1, <1>2 DEF Lists

(* A send before its commit. *)
LEMMA SendsShow ==
  ASSUME NEW o \in Op, op'[o].kind = "send", op'[o].deliver, ErasesStored(o)', SendShows(o)'
  PROVE  Shows(o)'
BY DEF Shows, ClearShows, RemoveShows

LEMMA ListsBegin ==
  ASSUME Plain, Base, Lists, NEW o \in Op, NEW k, NEW u \in User, NEW m, Begin(o, k, u, m)
  PROVE  Lists'
<1>1. op'[o] = [kind |-> k, user |-> u, msg |-> m, deliver |-> TRUE] /\ pc'[o] = First(k) /\ pc[o] = "idle"
  BY DEF Begin, Base, TypeInv
<1>2. db' = db /\ own' = own /\ shared' = shared /\ plan' = plan /\ MayBegin(k)
  BY DEF Begin
<1>3. Others(o)
  <2>1. pc' = [pc EXCEPT ![o] = pc'[o]] /\ op' = [op EXCEPT ![o] = op'[o]]
    BY <1>1 DEF Begin
  <2> QED BY <1>2, <2>1, OthersAlone DEF Base
<1>4. Written(o)' = {}
  BY <1>1, <1>2 DEF Base, TypeInv, Unlocked, Ended, Written
<1>5. pc'[o] \in {"talk", "mark"}
  BY <1>1 DEF First
<1>6. Shows(o)'
  BY <1>1, <1>4, <1>5 DEF Shows, ErasesStored, SendShows, ClearShows, RemoveShows
<1>7. Alones'
  <2>1. \A p \in Op \ {o} : op'[p] = op[p] /\ pc'[p] = pc[p]
    BY <1>3 DEF Others, Base, TypeInv
  <2>2. ASSUME NEW p \in Op, Exclusive(p)', NEW q \in Op \ {p} PROVE pc'[q] \in Ended
    <3>1. CASE p = o
      <4>1. k \in {"revoke", "delete"} /\ q # o
        BY <1>1, <2>2, <3>1 DEF Exclusive
      <4>2. \A r \in Op : pc[r] \in Ended
        BY <1>2, <4>1 DEF MayBegin, Plain
      <4> QED BY <2>1, <4>1, <4>2
    <3>2. CASE p # o
      <4>1. Exclusive(p)
        BY <2>1, <2>2, <3>2 DEF Exclusive
      <4>2. FALSE
        BY <1>2, <4>1 DEF MayBegin, Plain, Exclusive
      <4> QED BY <4>2
    <3> QED BY <3>1, <3>2
  <2> QED BY <2>2 DEF Alones
<1>8. \A p \in Op \ {o} : Shows(p)'
  BY <1>2, <1>3, ShowsKept DEF Base, Lists
<1> QED BY <1>2, <1>6, <1>7, <1>8 DEF Lists

LEMMA ListsFindTalk == ASSUME Base, Lists, NEW o \in Op, FindTalk(o) PROVE Lists'
<1> DEFINE change == Put(TalkRow, Mode)
<1>0. TypeInv
  BY DEF Base
<1>1. pc[o] = "talk" /\ pc'[o] = "insert" /\ pc' = [pc EXCEPT ![o] = pc'[o]]
  BY <1>0, Steps DEF FindTalk
<1>2. UNCHANGED <<db, shared, op, plan, pushed>> /\ Write(o, change)
  BY DEF FindTalk
<1>3. Others(o)
  BY <1>0, <1>1, <1>2, Writes, OthersAlone
<1>4. Written(o) = {} /\ op[o].kind = "send" /\ op[o].deliver
  BY <1>0, <1>1 DEF TypeInv, Unlocked, About, Lists, Shows
<1>5. DOMAIN change = {TalkRow}
  BY PutIs
<1> HIDE DEF change
<1>6. Written(o)' = {TalkRow}
  BY <1>0, <1>2, <1>4, <1>5, Writes
<1>7. ErasesStored(o)' /\ SendShows(o)'
  BY <1>1, <1>6, RowsDiffer DEF ErasesStored, SendShows
<1>8. Shows(o)'
  BY <1>2, <1>4, <1>7, SendsShow
<1> QED BY <1>1, <1>2, <1>3, <1>8, ListsByCall DEF Ended

LEMMA ListsInsert == ASSUME Plain, Base, Lists, NEW o \in Op, Insert(o) PROVE Lists'
<1> DEFINE one == Put(MsgRow(op[o].msg), [seq |-> View(o)[SeqRow] + 1, by |-> op[o].user,
                                          state |-> "normal", invalid |-> ~TRUE])
           two == Put(SeqRow, View(o)[SeqRow] + 1)
           change == Over(one, two)
<1>0. TypeInv
  BY DEF Base
<1>1. pc[o] = "insert" /\ pc'[o] = AfterInsert /\ pc' = [pc EXCEPT ![o] = pc'[o]]
  BY <1>0, Steps DEF Insert
<1>2. Write(o, change) /\ op' = [op EXCEPT ![o].deliver = TRUE] /\ UNCHANGED <<db, shared, plan, pushed>>
  BY DEF Insert, Plain
<1>3. op[o] \in Call /\ op[o].kind = "send"
  BY <1>0, <1>1 DEF TypeInv, About
<1>4. op'[o] = [op[o] EXCEPT !.deliver = TRUE] /\ op' = [op EXCEPT ![o] = op'[o]]
  BY <1>0, <1>2 DEF TypeInv
<1>5. op'[o].kind = "send" /\ op'[o].deliver
  BY <1>3, <1>4 DEF Call
<1>6. Others(o)
  BY <1>0, <1>1, <1>2, <1>4, Writes, OthersAlone
<1>7. DOMAIN change = {MsgRow(op[o].msg), SeqRow}
  <2>1. DOMAIN one = {MsgRow(op[o].msg)} /\ DOMAIN two = {SeqRow}
    BY PutIs
  <2> HIDE DEF one, two
  <2>2. DOMAIN Over(one, two) = DOMAIN one \cup DOMAIN two
    BY OverIs
  <2> QED BY <2>1, <2>2
<1> HIDE DEF one, two, change
<1>8. Written(o) \subseteq {TalkRow}
  BY <1>1 DEF Base, Transactions, Sound, Numbers
<1>9. Written(o)' \subseteq {MsgRow(op[o].msg), SeqRow, TalkRow}
  BY <1>0, <1>2, <1>7, <1>8, Writes
<1>10. ErasesStored(o)' /\ SendShows(o)'
  BY <1>1, <1>9, RowsDiffer DEF ErasesStored, SendShows, AfterInsert
<1>11. Shows(o)'
  BY <1>5, <1>10, SendsShow
<1> QED BY <1>1, <1>2, <1>3, <1>5, <1>6, <1>11, ListsByCall DEF Ended

LEMMA ListsSession ==
  ASSUME Base, Lists, NEW o \in Op, SenderSession(o) \/ ReceiverSession(o) PROVE Lists'
<1>0. TypeInv
  BY DEF Base
<1> DEFINE u == IF SenderSession(o) THEN op[o].user ELSE Other(op[o].user)
           v == [View(o)[SessionRow(u)] EXCEPT !.state = "alive"]
           r == SessionRow(u)
           change == Put(r, v)
<1>1. pc[o] \in {"mine", "theirs"} /\ pc'[o] \in {"theirs", "bump"} /\ pc' = [pc EXCEPT ![o] = pc'[o]]
  <2>1. CASE SenderSession(o)
    <3> DEFINE to == IF op[o].deliver THEN "theirs" ELSE "bump"
    <3>1. pc[o] = "mine" /\ pc'[o] = to /\ pc' = [pc EXCEPT ![o] = pc'[o]]
      BY <1>0, <2>1, Steps DEF SenderSession
    <3> QED BY <3>1
  <2>2. CASE ReceiverSession(o)
    BY <1>0, <2>2, Steps DEF ReceiverSession
  <2> QED BY <2>1, <2>2
<1>2. Write(o, change) /\ UNCHANGED <<db, shared, op, plan, pushed>>
  BY DEF SenderSession, ReceiverSession, Restored
<1>3. Others(o)
  BY <1>0, <1>1, <1>2, Writes, OthersAlone
<1>4. op[o].kind = "send" /\ op[o].deliver /\ ErasesStored(o)
  BY <1>0, <1>1 DEF TypeInv, About, Lists, Shows
<1>5. \A w, m : EraseRow(w, m) # r
  BY RowsDiffer
<1> HIDE DEF u, v, r
<1>6. DOMAIN change = {r}
  BY PutIs
<1> HIDE DEF change
<1>7. Written(o)' = {r} \cup Written(o)
  BY <1>0, <1>2, <1>6, Writes
<1>8. ErasesStored(o)' /\ SendShows(o)'
  BY <1>1, <1>2, <1>4, <1>5, <1>7 DEF ErasesStored, SendShows
<1>9. Shows(o)'
  BY <1>2, <1>4, <1>8, SendsShow
<1> QED BY <1>1, <1>2, <1>3, <1>9, ListsByCall DEF Ended

LEMMA ListsBump == ASSUME Base, Lists, NEW o \in Op, Bump(o) PROVE Lists'
<1> DEFINE one == Hidden(o)
           two == Bumps(o)
           change == Over(one, two)
<1>0. TypeInv
  BY DEF Base
<1>1. pc[o] = "bump" /\ pc'[o] = "commit" /\ pc' = [pc EXCEPT ![o] = pc'[o]]
  BY <1>0, Steps DEF Bump
<1>2. UNCHANGED <<db, shared, op, plan, pushed>> /\ Write(o, change)
  BY DEF Bump, Bumps
<1>3. Others(o)
  BY <1>0, <1>1, <1>2, Writes, OthersAlone
<1>4. op[o].kind = "send" /\ op[o].deliver /\ ErasesStored(o) /\ op[o].msg \in Msg
  BY <1>0, <1>1 DEF TypeInv, About, Lists, Shows
<1>5. DOMAIN one = {} /\ DOMAIN two = Sessions
  BY <1>4, BumpsIs, NothingIs DEF Hidden
<1>6. \A u \in User : two[SessionRow(u)].state = "alive" => two[SessionRow(u)].last = op[o].msg
  <2>1. ASSUME NEW u \in User, two[SessionRow(u)].state = "alive" PROVE two[SessionRow(u)].last = op[o].msg
    <3> DEFINE s == SessionsNow(o, u)
               n == IF u # op[o].user THEN s.unread + 1 ELSE s.unread
    <3>1. two[SessionRow(u)] = Bumped(o, s, u, u # op[o].user)
      BY BumpsIs
    <3>2. s \in Session
      BY <1>0, ViewTyped DEF SessionsNow
    <3> HIDE DEF s, two
    <3>3. CASE s.state = "alive"
      <4>1. two[SessionRow(u)] = [s EXCEPT !.last = op[o].msg, !.unread = n]
        BY <3>1, <3>2, <3>3 DEF Bumped, Session
      <4> HIDE DEF n
      <4>2. [s EXCEPT !.last = op[o].msg, !.unread = n].last = op[o].msg
        BY <3>2 DEF Session
      <4> QED BY <4>1, <4>2
    <3>4. CASE s.state # "alive"
      BY <2>1, <3>1, <3>4 DEF Bumped
    <3> QED BY <3>3, <3>4
  <2> QED BY <2>1
<1> HIDE DEF one, two
<1>7. /\ DOMAIN change = DOMAIN one \cup DOMAIN two
      /\ \A r \in DOMAIN two \ DOMAIN one : change[r] = two[r]
  BY OverIs
<1> HIDE DEF change
<1>8. /\ Written(o)' = Sessions \cup Written(o)
      /\ \A r \in Sessions : own'[o][r] = two[r]
  BY <1>0, <1>2, <1>5, <1>7, Writes
<1>9. SendShows(o)'
  BY <1>2, <1>6, <1>8, RowIs DEF SendShows
<1>10. ErasesStored(o)'
  BY <1>2, <1>4, <1>8, RowIs, TablesDiffer DEF ErasesStored
<1>11. Shows(o)'
  BY <1>2, <1>4, <1>9, <1>10, SendsShow
<1> QED BY <1>1, <1>2, <1>3, <1>11, ListsByCall DEF Ended

LEMMA ListsPush == ASSUME Base, Lists, NEW o \in Op, Push(o) PROVE Lists'
<1>0. TypeInv
  BY DEF Base
<1>1. pc[o] = "push" /\ pc'[o] = "done" /\ pc' = [pc EXCEPT ![o] = pc'[o]]
  BY <1>0, Steps DEF Push
<1>2. UNCHANGED <<db, own, shared, op, plan>>
  BY DEF Push
<1>3. Others(o)
  BY <1>0, <1>1, <1>2, OthersAlone
<1>4. op[o].kind = "send" /\ op[o].deliver /\ ErasesStored(o)
  BY <1>0, <1>1 DEF TypeInv, About, Lists, Shows
<1>5. ErasesStored(o)' /\ SendShows(o)'
  BY <1>1, <1>2, <1>4 DEF ErasesStored, SendShows, Written
<1>6. Shows(o)'
  BY <1>2, <1>4, <1>5, SendsShow
<1> QED BY <1>1, <1>2, <1>3, <1>6, ListsByCall DEF Ended

LEMMA ListsMarkRevoked == ASSUME Base, Lists, NEW o \in Op, MarkRevoked(o) PROVE Lists'
<1> DEFINE m == op[o].msg
           r == MsgRow(m)
           v == [View(o)[r] EXCEPT !.state = "revoked"]
           change == Put(r, v)
<1>0. TypeInv
  BY DEF Base
<1>1. pc[o] = "mark" /\ pc'[o] = "list" /\ pc' = [pc EXCEPT ![o] = pc'[o]]
  BY <1>0, Steps DEF MarkRevoked
<1>2. UNCHANGED <<db, shared, op, plan, pushed>> /\ op[o].kind = "revoke" /\ Write(o, change)
  BY DEF MarkRevoked
<1>3. Others(o)
  BY <1>0, <1>1, <1>2, Writes, OthersAlone
<1>4. m \in Msg /\ Written(o) = {} /\ op[o].deliver
  BY <1>0, <1>1, <1>2 DEF TypeInv, About, Unlocked, Lists, Shows
<1>5. DOMAIN change = {r} /\ change[r] = v
  BY PutIs
<1>6. \A x \in Row : View(o)[x] = db[x]
  BY <1>0, <1>4, ViewIs
<1>7. View(o)'[r] = v /\ \A x \in Row \ {r} : View(o)'[x] = db[x]
  <2> HIDE DEF change, v, r
  <2> QED BY <1>0, <1>2, <1>5, <1>6, ViewWrites
<1>8. /\ db[r] \in Message /\ View(o)'[r].state = "revoked" /\ View(o)'[r].seq = db[r].seq
  <2>1. db[r] \in Message /\ View(o)[r] = db[r]
    BY <1>0, <1>4, <1>6, RowIs DEF TypeInv, Typed
  <2> HIDE DEF r
  <2> QED BY <1>7, <2>1 DEF Message
<1>9. ASSUME NEW u \in User PROVE Shown(View(o)', u) \/ Relists(o, u)'
  <2> DEFINE s == db[SessionRow(u)]
             W == Visible(db, u)
             W2 == Visible(View(o)', u)
  <2>1. View(o)'[SessionRow(u)] = s
    BY <1>7, RowIs, RowsDiffer
  <2>2. \A n \in Msg : /\ n # m => View(o)'[MsgRow(n)] = db[MsgRow(n)]
                       /\ View(o)'[EraseRow(u, n)] = db[EraseRow(u, n)]
    BY <1>7, RowIs, RowsDiffer
  <2>3. W2 = W \ {m}
    BY <1>8, <2>2 DEF Visible
  <2>4. SUFFICES ASSUME s.state = "alive", s.last # m PROVE IsNewest(View(o)', u, s.last)
    BY <1>2, <2>1 DEF Shown, Relists
  <2>5. IsNewest(db, u, s.last)
    BY <2>4 DEF Lists, Shown
  <2>6. \A n \in W2 : n \in Msg /\ n # m /\ n \in W
    BY <2>3 DEF Visible
  <2>7. CASE W = {}
    BY <2>3, <2>5, <2>7 DEF IsNewest
  <2>8. CASE W # {}
    <3>1. s.last \in W /\ \A n \in W : db[MsgRow(n)].seq <= db[MsgRow(s.last)].seq
      BY <2>5, <2>8 DEF IsNewest
    <3>2. s.last \in W2
      BY <2>3, <2>4, <3>1
    <3>3. \A n \in W2 : View(o)'[MsgRow(n)] = db[MsgRow(n)]
      BY <2>2, <2>6
    <3>4. \A n \in W2 : View(o)'[MsgRow(n)].seq <= View(o)'[MsgRow(s.last)].seq
      BY <2>6, <3>1, <3>2, <3>3
    <3> QED BY <3>2, <3>4 DEF IsNewest
  <2> QED BY <2>7, <2>8
<1>10. Written(o)' = {r}
  <2> HIDE DEF change, v, r
  <2> QED BY <1>0, <1>2, <1>4, <1>5, Writes
<1>11. ErasesStored(o)' /\ SendShows(o)' /\ ClearShows(o)'
  BY <1>2, <1>10, RowsDiffer DEF ErasesStored, SendShows, ClearShows
<1>12. RemoveShows(o)'
  BY <1>1, <1>9 DEF RemoveShows
<1>13. Shows(o)'
  BY <1>1, <1>2, <1>4, <1>11, <1>12 DEF Shows
<1> QED BY <1>1, <1>2, <1>3, <1>13, ListsByCall DEF Ended

LEMMA ListsMarkDeleted == ASSUME Base, Lists, NEW o \in Op, MarkDeleted(o) PROVE Lists'
<1> DEFINE m == op[o].msg
           r == EraseRow(op[o].user, m)
           change == Put(r, TRUE)
           rows == {MsgRow(m)}
<1>0. TypeInv
  BY DEF Base
<1>1. pc[o] = "mark" /\ pc'[o] = "list" /\ pc' = [pc EXCEPT ![o] = pc'[o]]
  BY <1>0, Steps DEF MarkDeleted
<1>2. UNCHANGED <<db, op, plan, pushed>> /\ op[o].kind = "delete" /\ Write(o, change) /\ Share(o, rows)
  BY DEF MarkDeleted
<1>3. Others(o)
  <2> HIDE DEF rows, change
  <2> QED BY <1>0, <1>1, <1>2, Writes, Shares, OthersAlone
<1>4. m \in Msg /\ op[o].user \in User /\ Written(o) = {} /\ op[o].deliver /\ Stored(db, m)
  BY <1>0, <1>1, <1>2 DEF TypeInv, About, Call, Unlocked, Lists, Shows, Base, Transactions, Sound, Marks
<1>5. DOMAIN change = {r}
  BY PutIs
<1>6. \A x \in Row \ {r} : View(o)'[x] = db[x]
  <2>1. \A x \in Row : View(o)[x] = db[x]
    BY <1>0, <1>4, ViewIs
  <2> HIDE DEF change, r
  <2> QED BY <1>0, <1>2, <1>5, <2>1, ViewWrites
<1>7. ASSUME NEW u \in User, u # op[o].user PROVE Shown(View(o)', u)
  <2>1. View(o)'[SessionRow(u)] = db[SessionRow(u)]
    BY <1>6, RowIs, RowsDiffer
  <2>2. \A n \in Msg : View(o)'[MsgRow(n)] = db[MsgRow(n)] /\ View(o)'[EraseRow(u, n)] = db[EraseRow(u, n)]
    BY <1>6, <1>7, RowIs, RowsDiffer
  <2> DEFINE d == View(o)'
             e == db
  <2>3. Shown(e, u)
    BY DEF Lists
  <2> HIDE DEF d, e
  <2>4. \A x : IsNewest(d, u, x) <=> IsNewest(e, u, x)
    BY <2>2, SameVisible DEF d, e
  <2>5. d[SessionRow(u)] = e[SessionRow(u)]
    BY <2>1 DEF d, e
  <2>6. Shown(d, u)
    BY <2>3, <2>4, <2>5 DEF Shown
  <2> QED BY <2>6 DEF d
<1>8. Written(o)' = {r}
  <2> HIDE DEF change, r
  <2> QED BY <1>0, <1>2, <1>4, <1>5, Writes
<1>9. ErasesStored(o)' /\ SendShows(o)' /\ ClearShows(o)'
  BY <1>2, <1>4, <1>8, RowsDiffer DEF ErasesStored, SendShows, ClearShows
<1>10. RemoveShows(o)'
  BY <1>1, <1>2, <1>7 DEF RemoveShows, Relists
<1>11. Shows(o)'
  BY <1>1, <1>2, <1>4, <1>9, <1>10 DEF Shows
<1> QED BY <1>1, <1>2, <1>3, <1>11, ListsByCall DEF Ended

LEMMA ListsMarkAll == ASSUME Base, Lists, NEW o \in Op, MarkAll(o) PROVE Lists'
<1> DEFINE change == Erased(o)
           u == op[o].user
<1>0. TypeInv
  BY DEF Base
<1>1. pc[o] = "mark" /\ pc'[o] = "apply" /\ pc' = [pc EXCEPT ![o] = pc'[o]]
  BY <1>0, Steps DEF MarkAll
<1>2. UNCHANGED <<db, op, pushed>> /\ op[o].kind \in {"clear", "wipe"} /\ Write(o, change) /\ Share(o, Messages)
      /\ plan' = [plan EXCEPT ![o] = plan'[o]] /\ plan'[o] = Put(u, NoMsg)
  BY <1>0 DEF MarkAll, TypeInv
<1>3. shared'[o] = shared[o] \cup Messages /\ shared' = [shared EXCEPT ![o] = shared'[o]]
  BY <1>0, <1>2, Shares
<1>4. Others(o)
  BY <1>0, <1>1, <1>2, <1>3, Writes, OthersAlone
<1>5. u \in User /\ Written(o) = {} /\ op[o].deliver
  BY <1>0, <1>1 DEF TypeInv, Call, Unlocked, Lists, Shows
<1>6. DOMAIN change = {EraseRow(u, m) : m \in {n \in Msg : Stored(db, n)}}
  BY DEF Erased
<1>7. DOMAIN plan'[o] = {u} /\ plan'[o][u] = NoMsg
  BY <1>2, PutIs
<1> HIDE DEF change, u
<1>8. Written(o)' = DOMAIN change
  <2>1. Written(o)' = DOMAIN change \cup Written(o)
    BY <1>0, <1>2, WritesRows
  <2> QED BY <1>5, <2>1
<1>9. ErasesStored(o)'
  <2>1. ASSUME NEW w \in User, NEW m \in Msg, EraseRow(w, m) \in DOMAIN change PROVE Stored(db, m)
    <3>1. PICK n \in Msg : Stored(db, n) /\ EraseRow(w, m) = EraseRow(u, n)
      BY <1>6, <2>1
    <3> QED BY <3>1, RowsDiffer
  <2> QED BY <1>2, <1>8, <2>1 DEF ErasesStored
<1>10. ClearShows(o)'
  <2>1. \A m \in Msg : Stored(db, m) => EraseRow(u, m) \in DOMAIN change
    BY <1>6
  <2>2. DOMAIN change \subseteq {EraseRow(u, m) : m \in Msg}
    BY <1>6
  <2> QED BY <1>1, <1>2, <1>3, <1>7, <1>8, <2>1, <2>2 DEF ClearShows, u
<1>11. SendShows(o)' /\ RemoveShows(o)'
  BY <1>2 DEF SendShows, RemoveShows
<1>12. Shows(o)'
  BY <1>1, <1>2, <1>5, <1>9, <1>10, <1>11 DEF Shows
<1> QED BY <1>1, <1>2, <1>4, <1>12, ListsByCall DEF Ended

LEMMA ListsList == ASSUME Base, Lists, NEW o \in Op, List(o) PROVE Lists'
<1>0. TypeInv
  BY DEF Base
<1>1. pc[o] = "list" /\ pc'[o] = "apply" /\ pc' = [pc EXCEPT ![o] = pc'[o]]
  BY <1>0, Steps DEF List
<1>2. UNCHANGED <<db, own, shared, op, pushed>>
  BY DEF List
<1> DEFINE d == View(o)
           users == IF op[o].kind = "delete" THEN {op[o].user}
                    ELSE {u \in User : /\ d[SessionRow(u)].state = "alive"
                                       /\ d[SessionRow(u)].last = op[o].msg}
<1>3. plan' = [plan EXCEPT ![o] = [u \in users |-> Newest(d, u)]]
  BY DEF List
<1>4. op[o].user \in User /\ op[o].kind \in {"revoke", "delete"} /\ op[o].deliver /\ ErasesStored(o)
  BY <1>0, <1>1 DEF TypeInv, Call, About, Lists, Shows
<1>5. \A u \in User : Shown(d, u) \/ Relists(o, u)
  BY <1>1, <1>4 DEF Lists, Shows, RemoveShows
<1>6. ASSUME NEW u \in User, u \notin users PROVE Shown(d, u)
  BY <1>5, <1>6 DEF Shown, Relists
<1>7. ASSUME NEW u \in User PROVE IsNewest(d, u, Newest(d, u))
  <2>1. Typed(d) /\ DOMAIN d = Row
    BY <1>0, ViewTyped
  <2> HIDE DEF d
  <2> QED BY <2>1, NewestIs DEF IsNewest
<1>8. d' = d
  BY <1>2 DEF View
<1> HIDE DEF users, d
<1>9. plan'[o] = [u \in users |-> Newest(d, u)] /\ plan' = [plan EXCEPT ![o] = plan'[o]]
  BY <1>0, <1>3 DEF TypeInv
<1>10. Others(o)
  BY <1>0, <1>1, <1>2, <1>9, OthersAlone
<1>11. \A u \in User : IF u \in DOMAIN plan'[o] THEN IsNewest(d, u, plan'[o][u]) ELSE Shown(d, u)
  BY <1>6, <1>7, <1>9
<1>12. RemoveShows(o)'
  BY <1>1, <1>8, <1>11 DEF RemoveShows, d
<1>13. ErasesStored(o)' /\ SendShows(o)' /\ ClearShows(o)'
  BY <1>2, <1>4 DEF ErasesStored, SendShows, ClearShows, Written
<1>14. Shows(o)'
  BY <1>1, <1>2, <1>4, <1>12, <1>13 DEF Shows
<1> QED BY <1>1, <1>2, <1>10, <1>14, ListsByCall DEF Ended

(* The session of a user after its last message is written. *)
LEMMA ApplyIs ==
  ASSUME TypeInv, NEW o \in Op, NEW u \in User, Apply(o, u)
  PROVE  /\ pc[o] = "apply" /\ pc' = pc /\ UNCHANGED <<db, op, pushed>> /\ Others(o)
         /\ u \in DOMAIN plan[o] /\ plan'[o] = [x \in DOMAIN plan[o] \ {u} |-> plan[o][x]]
         /\ shared[o] \subseteq shared'[o]
         /\ Written(o)' = {SessionRow(u)} \cup Written(o)
         /\ \A r \in Written(o) \ {SessionRow(u)} : own'[o][r] = own[o][r]
         /\ \A r \in Row \ {SessionRow(u)} : View(o)'[r] = View(o)[r]
         /\ own'[o][SessionRow(u)] = View(o)'[SessionRow(u)]
         /\ View(o)'[SessionRow(u)].state = "alive" => View(o)'[SessionRow(u)].last = plan[o][u]
<1> DEFINE s    == View(o)[SessionRow(u)]
           last == plan[o][u]
           new  == [s EXCEPT !.last = last, !.state = IF op[o].kind = "wipe" THEN "removed" ELSE @]
           v    == IF s.state = "alive" THEN new ELSE s
           r    == SessionRow(u)
           change == Put(r, v)
<1>1. pc[o] = "apply" /\ pc' = pc /\ u \in DOMAIN plan[o] /\ UNCHANGED <<db, op, pushed>> /\ Write(o, change)
  BY DEF Apply
<1>2. IF last = NoMsg THEN shared' = shared ELSE Share(o, {MsgRow(last)})
  BY DEF Apply
<1>3. plan' = [plan EXCEPT ![o] = [x \in DOMAIN plan[o] \ {u} |-> plan[o][x]]]
  BY DEF Apply
<1>4. plan'[o] = [x \in DOMAIN plan[o] \ {u} |-> plan[o][x]] /\ plan' = [plan EXCEPT ![o] = plan'[o]]
  BY <1>3 DEF TypeInv
<1>5. (shared' = shared \/ shared' = [shared EXCEPT ![o] = shared'[o]]) /\ shared[o] \subseteq shared'[o]
  <2>1. CASE last = NoMsg
    BY <1>2, <2>1
  <2>2. CASE last # NoMsg
    <3>1. Share(o, {MsgRow(last)})
      BY <1>2, <2>2
    <3>2. shared' = [shared EXCEPT ![o] = shared'[o]] /\ shared'[o] = shared[o] \cup {MsgRow(last)}
      BY <3>1, Shares
    <3> QED BY <3>2
  <2> QED BY <2>1, <2>2
<1>6. Others(o)
  <2>1. pc' = [pc EXCEPT ![o] = pc'[o]]
    BY <1>1 DEF TypeInv
  <2> HIDE DEF change
  <2> QED BY <1>1, <1>4, <1>5, <2>1, Writes, OthersAlone
<1>7. v.state = "alive" => v.last = last
  <2>1. s \in Session
    BY ViewTyped
  <2> HIDE DEF s, last
  <2>2. new.last = last
    BY <2>1 DEF Session
  <2> HIDE DEF new
  <2> QED BY <2>2
<1> HIDE DEF v, r
<1>8. DOMAIN change = {r} /\ change[r] = v
  BY PutIs
<1> HIDE DEF change
<1>9. Written(o)' = {r} \cup Written(o) /\ own'[o][r] = v /\ \A x \in Written(o) \ {r} : own'[o][x] = own[o][x]
  BY <1>1, <1>8, Writes
<1>10. View(o)'[r] = v /\ \A x \in Row \ {r} : View(o)'[x] = View(o)[x]
  BY <1>1, <1>8, ViewWrites
<1> QED BY <1>1, <1>4, <1>5, <1>6, <1>7, <1>9, <1>10 DEF r

LEMMA ListsApply == ASSUME Base, Lists, NEW o \in Op, NEW u \in User, Apply(o, u) PROVE Lists'
<1> DEFINE d == View(o)
           e == View(o)'
<1>0. TypeInv
  BY DEF Base
<1>1. /\ pc[o] = "apply" /\ pc' = pc /\ UNCHANGED <<db, op>> /\ Others(o)
      /\ u \in DOMAIN plan[o] /\ plan'[o] = [x \in DOMAIN plan[o] \ {u} |-> plan[o][x]]
      /\ shared[o] \subseteq shared'[o] /\ Written(o)' = {SessionRow(u)} \cup Written(o)
  BY <1>0, ApplyIs
<1>2. own'[o][SessionRow(u)] = e[SessionRow(u)] /\ \A r \in Row \ {SessionRow(u)} : e[r] = d[r]
  BY <1>0, ApplyIs
<1>3. e[SessionRow(u)].state = "alive" => e[SessionRow(u)].last = plan[o][u]
  BY <1>0, ApplyIs
<1>4. op[o].kind \in {"revoke", "delete", "clear", "wipe"} /\ Shows(o)
  BY <1>0, <1>1 DEF TypeInv, About, Lists
<1>5. ErasesStored(o)'
  BY <1>1, <1>4, RowsDiffer DEF ErasesStored, Shows
<1>6. SendShows(o)'
  BY <1>1 DEF SendShows
<1>7. ClearShows(o)'
  <2> DEFINE w == op[o].user
  <2>1. SUFFICES ASSUME op[o].kind \in {"clear", "wipe"} PROVE ClearShows(o)'
    BY <1>1 DEF ClearShows
  <2>2. /\ Messages \subseteq shared[o]
        /\ \A m \in Msg : Stored(db, m) => EraseRow(w, m) \in Written(o)
        /\ Written(o) \subseteq {EraseRow(w, m) : m \in Msg} \cup {SessionRow(w)}
        /\ DOMAIN plan[o] \subseteq {w}
        /\ w \in DOMAIN plan[o] => plan[o][w] = NoMsg
    BY <1>1, <1>4, <2>1 DEF Shows, ClearShows
  <2>3. u = w /\ plan[o][u] = NoMsg /\ DOMAIN plan'[o] = {}
    BY <1>1, <2>2
  <2>4. own'[o][SessionRow(w)].state = "alive" => own'[o][SessionRow(w)].last = NoMsg
    BY <1>2, <1>3, <2>3
  <2>5. op'[o].user = w /\ db' = db
    BY <1>1
  <2> HIDE DEF w, e, d
  <2>6. /\ Messages \subseteq shared'[o]
        /\ \A m \in Msg : Stored(db, m) => EraseRow(w, m) \in Written(o)'
        /\ Written(o)' \subseteq {EraseRow(w, m) : m \in Msg} \cup {SessionRow(w)}
        /\ SessionRow(w) \in Written(o)'
    BY <1>1, <2>2, <2>3
  <2> QED BY <2>3, <2>4, <2>5, <2>6 DEF ClearShows
<1>8. RemoveShows(o)'
  <2>1. SUFFICES ASSUME op[o].kind \in {"revoke", "delete"}, NEW x \in User
                 PROVE  IF x \in DOMAIN plan'[o] THEN IsNewest(e, x, plan'[o][x]) ELSE Shown(e, x)
    BY <1>1 DEF RemoveShows
  <2>2. IF x \in DOMAIN plan[o] THEN IsNewest(d, x, plan[o][x]) ELSE Shown(d, x)
    BY <1>1, <1>4, <2>1 DEF Shows, RemoveShows
  <2>3. \A m \in Msg : e[MsgRow(m)] = d[MsgRow(m)] /\ e[EraseRow(x, m)] = d[EraseRow(x, m)]
    BY <1>2, RowIs, RowsDiffer
  <2>4. x # u => e[SessionRow(x)] = d[SessionRow(x)]
    BY <1>2, RowIs, RowsDiffer
  <2> HIDE DEF d, e
  <2>5. \A m : IsNewest(e, x, m) <=> IsNewest(d, x, m)
    BY <2>3, SameVisible
  <2>6. CASE x = u
    <3>1. x \notin DOMAIN plan'[o] /\ IsNewest(e, x, plan[o][u])
      BY <1>1, <2>2, <2>5, <2>6
    <3> QED BY <1>3, <2>6, <3>1 DEF Shown
  <2>7. CASE x # u /\ x \in DOMAIN plan[o]
    BY <1>1, <2>2, <2>5, <2>7
  <2>8. CASE x # u /\ x \notin DOMAIN plan[o]
    <3>1. Shown(e, x)
      BY <2>2, <2>4, <2>5, <2>8 DEF Shown
    <3> QED BY <1>1, <2>8, <3>1
  <2> QED BY <2>6, <2>7, <2>8
<1>9. Shows(o)'
  BY <1>1, <1>4, <1>5, <1>6, <1>7, <1>8 DEF Shows
<1> QED BY <1>1, <1>9, ListsByCall DEF Ended

LEMMA ListsApplied == ASSUME Plain, Base, Lists, NEW o \in Op, Applied(o) \/ ApplyFails(o) PROVE Lists'
<1>0. TypeInv /\ Applied(o)
  BY DEF Base, ApplyFails, Plain
<1>1. pc[o] = "apply" /\ pc'[o] = "commit" /\ pc' = [pc EXCEPT ![o] = pc'[o]]
  BY <1>0, Steps DEF Applied
<1>2. UNCHANGED <<db, own, shared, op, plan>> /\ DOMAIN plan[o] = {}
  BY <1>0, NothingIs DEF Applied
<1>3. Others(o)
  BY <1>0, <1>1, <1>2, OthersAlone
<1>4. op[o].kind \in {"revoke", "delete", "clear", "wipe"} /\ Shows(o)
  BY <1>0, <1>1 DEF TypeInv, About, Lists
<1>5. Written(o)' = Written(o) /\ View(o)' = View(o)
  BY <1>2 DEF Written, View
<1>6. ErasesStored(o)' /\ SendShows(o)'
  BY <1>2, <1>4, <1>5 DEF ErasesStored, SendShows, Shows
<1>7. ClearShows(o)'
  BY <1>1, <1>2, <1>4, <1>5 DEF ClearShows, Shows
<1>8. RemoveShows(o)'
  BY <1>1, <1>2, <1>4, <1>5 DEF RemoveShows, Shows
<1>9. Shows(o)'
  BY <1>1, <1>2, <1>4, <1>6, <1>7, <1>8 DEF Shows
<1> QED BY <1>1, <1>2, <1>3, <1>9, ListsByCall DEF Ended

LEMMA ListsRollback == ASSUME Base, Lists, NEW o \in Op, pc[o] \notin Ended, Rollback(o) PROVE Lists'
<1>0. TypeInv
  BY DEF Base
<1>1. pc' = [pc EXCEPT ![o] = pc'[o]] /\ pc'[o] = "failed" /\ plan' = [plan EXCEPT ![o] = plan'[o]]
  BY <1>0 DEF Rollback, TypeInv
<1>2. Release(o) /\ UNCHANGED <<db, op, pushed>>
  BY DEF Rollback
<1>3. Others(o) /\ own'[o] = <<>>
  BY <1>0, <1>1, <1>2, Releases, OthersAlone
<1>4. Written(o)' = {} /\ op[o].deliver
  BY <1>3, NothingIs DEF Written, Lists, Shows
<1>5. Shows(o)'
  BY <1>1, <1>2, <1>4 DEF Shows, ErasesStored, SendShows, ClearShows, RemoveShows
<1> QED BY <1>2, <1>3, <1>5, ListsByCall

(* What the lists show when a send, a revocation or deletion, or a clear   *)
(* commits.                                                                *)
LEMMA SendCommits ==
  ASSUME Base, Lists, NEW o \in Op, pc[o] = "commit", db' = Over(own[o], db), op[o].kind = "send", NEW u \in User
  PROVE  Shown(db', u)
<1> DEFINE n == op[o].msg
           last == db[SeqRow]
<1>0. TypeInv /\ Transactions /\ Inserted(o) /\ Shows(o) /\ last \in Nat
  BY RowIs DEF Base, Inserted, Lists, TypeInv, Typed
<1>1. /\ n \in Msg /\ ~Stored(db, n)
      /\ db'[MsgRow(n)] = [seq |-> last + 1, by |-> op[o].user, state |-> "normal", invalid |-> ~op[o].deliver]
  BY <1>0, CommitMessages
<1>2. db'[MsgRow(n)].state = "normal" /\ db'[MsgRow(n)].seq = last + 1
  BY <1>1
<1>3. ~db'[EraseRow(u, n)]
  <2>1. EraseRow(u, n) \notin Written(o) /\ ~db[EraseRow(u, n)]
    BY <1>0, <1>1 DEF Shows, ErasesStored, Lists
  <2> QED BY <1>0, <1>1, <2>1, CommitRows, RowIs
<1>4. ASSUME NEW m \in Visible(db', u) PROVE db'[MsgRow(m)].seq <= last + 1
  <2>1. m \in Msg /\ Stored(db', m)
    BY DEF Visible, Stored
  <2>2. CASE m = n
    BY <1>0, <1>2, <2>2
  <2>3. CASE m # n
    <3>1. Stored(db, m) /\ db'[MsgRow(m)].seq = db[MsgRow(m)].seq
      BY <1>0, <2>1, <2>3, CommitGrows DEF Grows
    <3>2. db[MsgRow(m)].seq \in 1..last
      BY <2>1, <3>1 DEF Base, NoGaps
    <3> QED BY <1>0, <3>1, <3>2
  <2> QED BY <2>2, <2>3
<1>5. db'[SessionRow(u)].state = "alive" => db'[SessionRow(u)].last = n
  <2>1. SessionRow(u) \in Written(o) /\ (own[o][SessionRow(u)].state = "alive" => own[o][SessionRow(u)].last = n)
    BY <1>0 DEF Shows, SendShows
  <2>2. db'[SessionRow(u)] = own[o][SessionRow(u)]
    BY <1>0, <2>1, CommitRows
  <2> QED BY <2>1, <2>2
<1>6. n \in Visible(db', u)
  BY <1>1, <1>2, <1>3 DEF Visible
<1>7. IsNewest(db', u, n)
  BY <1>2, <1>4, <1>6 DEF IsNewest
<1> HIDE DEF n
<1> QED BY <1>5, <1>7 DEF Shown

LEMMA RemoveCommits ==
  ASSUME Base, Lists, NEW o \in Op, pc[o] = "commit", db' = Over(own[o], db),
         op[o].kind \in {"revoke", "delete"}, NEW u \in User
  PROVE  Shown(db', u)
<1>1. Shown(View(o), u)
  BY DEF Lists, Shows, RemoveShows
<1> QED BY <1>1 DEF View

LEMMA ClearCommits ==
  ASSUME Base, Lists, NEW o \in Op, pc[o] = "commit", db' = Over(own[o], db),
         op[o].kind \in {"clear", "wipe"}, NEW u \in User
  PROVE  Shown(db', u)
<1> DEFINE w == op[o].user
           d == db'
           e == db
<1>0. TypeInv /\ Transactions /\ ~Inserted(o) /\ Shows(o) /\ Marks(o) /\ Shown(e, u)
  BY DEF Base, Inserted, Lists, Transactions, Sound
<1>1. /\ \A m \in Msg : Stored(db, m) => EraseRow(w, m) \in Written(o)
      /\ Written(o) \subseteq {EraseRow(w, m) : m \in Msg} \cup {SessionRow(w)}
      /\ SessionRow(w) \in Written(o)
      /\ own[o][SessionRow(w)].state = "alive" => own[o][SessionRow(w)].last = NoMsg
  BY <1>0 DEF Shows, ClearShows
<1>2. /\ \A r \in Written(o) : d[r] = own[o][r]
      /\ \A r \in Row \ Written(o) : d[r] = e[r]
  BY <1>0, CommitRows
<1>3. \A m \in Msg : Stored(d, m) => Stored(db, m)
  BY <1>0, CommitGrows
<1>4. CASE u = w
  <2>1. Visible(d, u) = {}
    <3>1. ASSUME NEW m \in Visible(d, u) PROVE FALSE
      <4>1. m \in Msg /\ Stored(d, m) /\ ~d[EraseRow(w, m)]
        BY <1>4 DEF Visible, Stored
      <4>2. EraseRow(w, m) \in Written(o) /\ own[o][EraseRow(w, m)]
        BY <1>0, <1>1, <1>3, <1>4, <4>1 DEF Marks
      <4> QED BY <1>2, <4>1, <4>2
    <3> QED BY <3>1
  <2>2. d[SessionRow(w)] = own[o][SessionRow(w)]
    BY <1>1, <1>2
  <2> QED BY <1>1, <1>4, <2>1, <2>2 DEF Shown, IsNewest
<1>5. CASE u # w
  <2>1. SessionRow(u) \notin Written(o)
        /\ \A m \in Msg : MsgRow(m) \notin Written(o) /\ EraseRow(u, m) \notin Written(o)
    BY <1>1, <1>5, RowsDiffer
  <2>2. d[SessionRow(u)] = e[SessionRow(u)]
        /\ \A m \in Msg : d[MsgRow(m)] = e[MsgRow(m)] /\ d[EraseRow(u, m)] = e[EraseRow(u, m)]
    BY <1>2, <2>1, RowIs
  <2> HIDE DEF d, e
  <2>3. \A m : IsNewest(d, u, m) <=> IsNewest(e, u, m)
    BY <2>2, SameVisible
  <2>4. Shown(d, u)
    BY <1>0, <2>2, <2>3 DEF Shown
  <2> QED BY <2>4 DEF d
<1> QED BY <1>4, <1>5

LEMMA ListsCommit == ASSUME Base, Lists, NEW o \in Op, Commit(o) \/ CommitLost(o) PROVE Lists'
<1>0. TypeInv /\ Transactions
  BY DEF Base
<1>1. pc[o] = "commit" /\ pc' = [pc EXCEPT ![o] = pc'[o]] /\ pc'[o] \in {"push", "done", "failed"}
  <2>1. CASE Commit(o)
    <3> DEFINE to == IF op[o].kind = "send" THEN "push" ELSE "done"
    <3>1. pc[o] = "commit" /\ pc'[o] = to /\ pc' = [pc EXCEPT ![o] = pc'[o]]
      BY <1>0, <2>1, Steps DEF Commit
    <3> QED BY <3>1
  <2>2. CASE CommitLost(o)
    BY <1>0, <2>2, Steps DEF CommitLost
  <2> QED BY <2>1, <2>2
<1>2. db' = Over(own[o], db) /\ Release(o) /\ UNCHANGED <<op, plan, pushed>>
  BY DEF Commit, CommitLost
<1>3. Others(o) /\ own'[o] = <<>>
  BY <1>0, <1>1, <1>2, Releases, OthersAlone
<1>4. Grows /\ \A m \in Msg : Stored(db', m) <=> Stored(db, m) \/ (Inserted(o) /\ m = op[o].msg)
  BY <1>0, <1>2, CommitGrows
<1>5. ASSUME NEW p \in Op \ {o} PROVE Shows(p)'
  <2>1. ~Exclusive(p) /\ Shows(p)
    BY <1>1 DEF Lists, Alones, Ended
  <2>2. Messages \subseteq shared[p] => ~Inserted(o)
    <3>1. SUFFICES ASSUME Inserted(o) PROVE MsgRow(op[o].msg) \in Written(o) /\ MsgRow(op[o].msg) \in Messages
      BY <1>0 DEF Transactions, Locked
    <3> QED BY <1>0, <3>1, CommitMessages, <1>2, RowIs DEF Transactions, Sound, Numbers
  <2> QED BY <1>0, <1>3, <1>4, <2>1, <2>2, ShowsGrown
<1>6. Shows(o)'
  <2>1. Written(o)' = {} /\ op[o].deliver
    BY <1>3, NothingIs DEF Written, Lists, Shows
  <2> QED BY <1>1, <1>2, <2>1 DEF Shows, ErasesStored, SendShows, ClearShows, RemoveShows
<1>7. Alones'
  BY <1>0, <1>1, <1>2, <1>3, AlonesKept DEF Ended, Lists
<1>8. ASSUME NEW u \in User, NEW m \in Msg, db'[EraseRow(u, m)] PROVE Stored(db', m)
  <2>1. EraseRow(u, m) \in Written(o) \/ db[EraseRow(u, m)]
    BY <1>0, <1>2, <1>8, CommitRows, RowIs
  <2>2. Stored(db, m)
    BY <2>1 DEF Lists, Shows, ErasesStored
  <2> QED BY <1>4, <2>2
<1>9. ASSUME NEW u \in User PROVE Shown(db', u)
  <2>1. op[o].kind \in {"send", "revoke", "delete", "clear", "wipe"}
    BY <1>0, <1>1 DEF TypeInv, Call, Lists, Shows
  <2> QED BY <1>1, <1>2, <2>1, SendCommits, RemoveCommits, ClearCommits
<1> QED BY <1>5, <1>6, <1>7, <1>8, <1>9 DEF Lists

LEMMA ListsAlters == ASSUME Plain, Base, Lists, NEW o \in Op, NEW u \in User, Alters(o, u) PROVE Lists'
<1> DEFINE s == db[SessionRow(u)]
<1>0. TypeInv
  BY DEF Base
<1>1. /\ pc[o] = "idle" /\ pc'[o] = "done" /\ UNCHANGED <<own, shared, op, plan, pushed>> /\ Others(o)
      /\ \A r \in Row \ {SessionRow(u)} : db'[r] = db[r]
      /\ db'[SessionRow(u)].last = s.last
  BY <1>0, AltersIs
<1>2. Grows /\ \A m \in Msg : db'[MsgRow(m)] = db[MsgRow(m)] /\ \A v \in User : db'[EraseRow(v, m)] = db[EraseRow(v, m)]
  BY <1>0, AltersGrows
<1>3. ClearUnread(o, u) \/ RemoveSession(o, u)
  BY DEF Alters, OpenSession, Single, Plain
<1>4. s.state = "alive" /\ \E k \in {"read", "remove"} : MayBegin(k)
  BY <1>3 DEF ClearUnread, RemoveSession, Single
<1>5. ASSUME NEW p \in Op \ {o} PROVE Shows(p)'
  <2>1. ~Exclusive(p) /\ Shows(p)
    BY <1>4 DEF MayBegin, Exclusive, Plain, Lists
  <2> QED BY <1>0, <1>1, <1>2, <2>1, ShowsGrown DEF Stored
<1>6. Shows(o)'
  <2>1. Written(o) = {} /\ Shows(o)
    BY <1>0, <1>1 DEF TypeInv, Unlocked, Ended, Lists
  <2>2. Written(o)' = {}
    BY <1>1, <2>1 DEF Written
  <2> QED BY <1>1, <2>1, <2>2 DEF Shows, ErasesStored, SendShows, ClearShows, RemoveShows
<1>7. Alones'
  <2>1. \A p \in Op : Exclusive(p) => FALSE
    BY <1>4 DEF MayBegin, Exclusive, Plain
  <2>2. ASSUME NEW p \in Op PROVE Exclusive(p)' => Exclusive(p)
    BY <1>0, <1>1 DEF Exclusive, Others, TypeInv, Ended
  <2> QED BY <2>1, <2>2 DEF Alones
<1>8. ASSUME NEW v \in User, NEW m \in Msg, db'[EraseRow(v, m)] PROVE Stored(db', m)
  BY <1>2, <1>8 DEF Lists, Stored
<1>9. ASSUME NEW v \in User PROVE Shown(db', v)
  <2> DEFINE d == db'
             e == db
  <2>1. Shown(e, v)
    BY DEF Lists
  <2>2. v # u => d[SessionRow(v)] = e[SessionRow(v)]
    BY <1>1, RowIs, RowsDiffer
  <2>3. d[SessionRow(v)].last = e[SessionRow(v)].last
        /\ (d[SessionRow(v)].state = "alive" => e[SessionRow(v)].state = "alive")
    BY <1>1, <1>4, <2>2
  <2>4. \A m \in Msg : d[MsgRow(m)] = e[MsgRow(m)] /\ d[EraseRow(v, m)] = e[EraseRow(v, m)]
    BY <1>2
  <2> HIDE DEF d, e
  <2>5. \A m : IsNewest(d, v, m) <=> IsNewest(e, v, m)
    BY <2>4, SameVisible
  <2>6. Shown(d, v)
    BY <2>1, <2>3, <2>5 DEF Shown
  <2> QED BY <2>6 DEF d
<1> QED BY <1>5, <1>6, <1>7, <1>8, <1>9 DEF Lists

LEMMA ListsStutter == ASSUME Base, Lists, UNCHANGED vars PROVE Lists'
<1>1. db' = db /\ own' = own /\ shared' = shared /\ op' = op /\ pc' = pc /\ plan' = plan
  BY DEF vars
<1>2. ASSUME NEW o \in Op PROVE Shows(o)'
  <2>1. Written(o)' = Written(o) /\ View(o)' = View(o) /\ Shows(o)
    BY <1>1 DEF Written, View, Lists
  <2>2. ErasesStored(o)' /\ SendShows(o)' /\ ClearShows(o)'
    BY <1>1, <2>1 DEF Shows, ErasesStored, SendShows, ClearShows
  <2>3. \A u \in User : Relists(o, u)' <=> Relists(o, u)
    BY <1>1, <2>1 DEF Relists
  <2>4. RemoveShows(o)'
    BY <1>1, <2>1, <2>3 DEF Shows, RemoveShows
  <2> QED BY <1>1, <2>1, <2>2, <2>4 DEF Shows
<1>3. Alones'
  BY <1>1 DEF Lists, Alones, Exclusive
<1> QED BY <1>1, <1>2, <1>3 DEF Lists

LEMMA ListsStep == ASSUME Plain, Base, Lists, [Next]_vars PROVE Lists'
<1>1. CASE UNCHANGED vars
  BY <1>1, ListsStutter
<1>2. ASSUME NEW o \in Op, NEW u \in User, Alters(o, u) PROVE Lists'
  BY <1>2, ListsAlters
<1>3. ASSUME NEW o \in Op, NEW u \in User,
             \/ \E k \in {"send", "revoke", "delete"}, m \in Msg : Begin(o, k, u, m)
             \/ \E k \in {"clear", "wipe"} : Begin(o, k, u, NoMsg)
      PROVE  Lists'
  <2>1. ASSUME NEW k, NEW m, Begin(o, k, u, m) PROVE Lists'
    BY <2>1, ListsBegin
  <2> QED BY <1>3, <2>1
<1>4. ASSUME NEW o \in Op, Send(o) PROVE Lists'
  <2>1. ~SessionFails(o)
    BY DEF SessionFails, Plain
  <2> QED BY <1>4, <2>1, ListsFindTalk, ListsInsert, ListsSession, ListsBump, ListsPush DEF Send
<1>5. ASSUME NEW o \in Op, Remove(o) PROVE Lists'
  BY <1>5, ListsMarkRevoked, ListsMarkDeleted, ListsMarkAll, ListsList, ListsApply, ListsApplied DEF Remove
<1>6. ASSUME NEW o \in Op, Fail(o) \/ Duplicate(o) PROVE Lists'
  <2>1. pc[o] \notin Ended /\ Rollback(o)
    BY <1>6 DEF Fail, Duplicate, Ended
  <2> QED BY <2>1, ListsRollback
<1>7. ASSUME NEW o \in Op, Commit(o) \/ CommitLost(o) PROVE Lists'
  BY <1>7, ListsCommit
<1> QED BY <1>1, <1>2, <1>3, <1>4, <1>5, <1>6, <1>7 DEF Next, Proceed, Alters

(* Between friends, while revocations and deletions run alone and no       *)
(* failure is only logged, the list of every user shows the newest message *)
(* the user can see: for any users, messages and calls, in single and in   *)
(* group talks (bumpOnNewMessage, updateLastMsgForUser).                   *)
THEOREM NewestShownHolds == ASSUME Plain PROVE Spec => []NewestShown
<1>1. Base /\ Lists /\ [Next]_vars => Lists'
  BY ListsStep
<1>2. Spec => []Base
  BY TransactionsAlways, NoGapsHolds, PTL DEF Base
<1>3. Lists => NewestShown
  <2>1. SUFFICES ASSUME Lists, NEW u \in User, db[SessionRow(u)].state = "alive"
                 PROVE  IsNewest(db, u, db[SessionRow(u)].last)
    BY DEF NewestShown, IsNewest, Visible
  <2> QED BY <2>1 DEF Lists, Shown
<1>4. Init => Lists
  BY ListsInit
<1> QED BY <1>1, <1>2, <1>3, <1>4, PTL DEF Spec

===============================================================================
