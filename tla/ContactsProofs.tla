--------------------------- MODULE ContactsProofs ---------------------------
(***************************************************************************)
(* Proofs about Contacts for any number of users, groups, applications and *)
(* calls, whoever may have whom as a contact.                              *)
(***************************************************************************)
EXTENDS Contacts, FiniteSetTheorems, TLAPS

(* Pairs is symmetric, and a pair is the two users in it.                   *)
LEMMA PairsTurn ==
  ASSUME NEW p \in Pairs
  PROVE  Back(p) \in Pairs /\ Back(Back(p)) = p /\ p[1] \in User /\ Back(p) # p /\ Back(p)[1] = p[2]
BY PairAssumption DEF Back

------------------------------------------------------------------------------
(* Types *)

Kinds == {"none", "move", "delete", "save", "apply", "agree", "send"}
Asks == Pairs \cup (User \X {NoUser}) \cup {<<NoUser, NoUser>>}
Requests == [kind : Kinds, pair : Asks, to : Group \cup {NoGroup}, was : Group \cup {NoGroup},
             drop : SUBSET Group, ok : BOOLEAN, old : BOOLEAN]
States == {"none", "friend", "deleted"}
Rows == [state : States, group : Group \cup {NoGroup}]

(* What a call that is somewhere is about. *)
About(c) ==
  /\ pc[c] = "commit" => call[c].kind \in Sorting
  /\ pc[c] = "hide" => call[c].kind = "delete"
  /\ pc[c] = "insert" => call[c].kind = "apply"
  /\ pc[c] \in {"mine", "theirs", "greet", "deliver"} => call[c].kind \in {"agree", "send"}
  /\ call[c].kind \notin {"none", "save"} => call[c].pair \in Pairs

TypeInv == /\ TypeOK
           /\ \A c \in Call : About(c)
           /\ \A a \in Apply : apply[a].status # "none" => apply[a].pair \in Pairs

LEMMA TypeInit == Init => TypeInv
<1> SUFFICES ASSUME Init PROVE TypeInv
  OBVIOUS
<1> USE DEF Init
<1>1. NoCall \in Requests /\ NoCall.kind = "none"
  BY DEF NoCall, Requests, Kinds, Asks
<1>2. call \in [Call -> Requests] /\ \A c \in Call : call[c].kind = "none" /\ pc[c] = "idle"
  BY <1>1
<1>3. talk \in [Pairs -> BOOLEAN] /\ contact \in [Pairs -> Rows]
  BY DEF Rows, States
<1>4. group \in [Group -> [user : User \cup {NoUser}, count : Nat, gone : BOOLEAN]]
  OBVIOUS
<1>5. apply \in [Apply -> [pair : Pairs \cup {<<NoUser, NoUser>>},
                           status : {"none", "pending", "agreed", "rejected"}]]
  OBVIOUS
<1> QED BY <1>2, <1>3, <1>4, <1>5 DEF TypeInv, TypeOK, About, Requests, Kinds, Asks, Rows, States

(* A call begins ... *)
LEMMA AskedType ==
  ASSUME TypeInv, NEW c \in Call, NEW k \in Kinds, NEW p \in Asks, NEW to \in Group \cup {NoGroup},
         NEW drop \in SUBSET Group, Asked(c, k, p, to, drop), k \in {"move", "delete"} => p \in Pairs
  PROVE  /\ call' \in [Call -> Requests]
         /\ call'[c].kind = k /\ call'[c].pair = p /\ call'[c].to = to /\ call'[c].drop = drop
         /\ ~call'[c].ok /\ ~call'[c].old
         /\ call'[c].was = IF k \in {"move", "delete"} THEN contact[p].group ELSE NoGroup
         /\ \A d \in Call : d # c => call'[d] = call[d]
<1> USE DEF TypeInv, TypeOK
<1> DEFINE was == IF k \in {"move", "delete"} THEN contact[p].group ELSE NoGroup
           r == [NoCall EXCEPT !.kind = k, !.pair = p, !.to = to, !.drop = drop, !.was = was]
<1>1. call' = [call EXCEPT ![c] = r]
  BY DEF Asked
<1>2. was \in Group \cup {NoGroup}
  OBVIOUS
<1> HIDE DEF was
<1>3. r \in Requests /\ r.kind = k /\ r.pair = p /\ r.to = to /\ r.drop = drop /\ ~r.ok /\ ~r.old
      /\ r.was = was
  BY <1>2 DEF NoCall, Requests
<1>4. call \in [Call -> Requests]
  BY DEF Requests, Kinds, Asks
<1> HIDE DEF r
<1>5. call'[c] = r
  BY <1>1, <1>4
<1>6. call' \in [Call -> Requests] /\ \A d \in Call : d # c => call'[d] = call[d]
  BY <1>1, <1>3, <1>4
<1> QED BY <1>3, <1>5, <1>6 DEF was

(* ... and ends. *)
LEMMA EndsType ==
  ASSUME TypeInv, NEW c \in Call, NEW from, Ends(c, from)
  PROVE  /\ pc[c] = from /\ pc' \in [Call -> {"idle", "commit", "hide", "insert", "mine", "theirs", "greet", "deliver"}]
         /\ call' \in [Call -> Requests] /\ pc'[c] = "idle" /\ call'[c] = NoCall
         /\ \A d \in Call : d # c => pc'[d] = pc[d] /\ call'[d] = call[d]
<1>1. NoCall \in Requests
  BY DEF NoCall, Requests, Kinds, Asks
<1>2. call \in [Call -> Requests]
  BY DEF TypeInv, TypeOK, Requests, Kinds, Asks
<1> QED BY <1>1, <1>2 DEF TypeInv, TypeOK, Ends, Goes

(* The step of a call that begins: nothing else has changed. *)
LEMMA BeginTypes ==
  ASSUME TypeInv, NEW c \in Call, NEW k \in Kinds, NEW p \in Asks, NEW to \in Group \cup {NoGroup},
         NEW drop \in SUBSET Group, Asked(c, k, p, to, drop), k \notin {"none", "save"} => p \in Pairs,
         NEW at \in {"commit", "insert", "mine", "greet"}, pc' = [pc EXCEPT ![c] = at],
         at = "commit" => k \in Sorting, at = "insert" => k = "apply",
         at \in {"mine", "greet"} => k \in {"agree", "send"}
  PROVE  /\ call' \in [Call -> Requests] /\ \A d \in Call : About(d)'
         /\ pc' \in [Call -> {"idle", "commit", "hide", "insert", "mine", "theirs", "greet", "deliver"}]
<1>1. /\ call' \in [Call -> Requests] /\ call'[c].kind = k /\ call'[c].pair = p
      /\ \A d \in Call : d # c => call'[d] = call[d]
  BY AskedType
<1>2. pc' \in [Call -> {"idle", "commit", "hide", "insert", "mine", "theirs", "greet", "deliver"}]
      /\ pc'[c] = at /\ \A d \in Call : d # c => pc'[d] = pc[d]
  BY DEF TypeInv, TypeOK
<1>3. About(c)'
  BY <1>1, <1>2 DEF About
<1>4. ASSUME NEW d \in Call, d # c PROVE About(d)'
  BY <1>1, <1>2, <1>4 DEF TypeInv, About
<1> QED BY <1>1, <1>2, <1>3, <1>4

(* The steps of a call under way keep what it is about. *)
LEMMA GoesTypes ==
  ASSUME TypeInv, NEW c \in Call, NEW from, NEW to \in {"hide", "theirs", "greet", "deliver"}, Goes(c, from, to),
         call' \in [Call -> Requests],
         \A d \in Call : call'[d].kind = call[d].kind /\ call'[d].pair = call[d].pair,
         IF to = "hide" THEN call[c].kind = "delete" ELSE from \in {"mine", "theirs", "greet"}
  PROVE  /\ \A d \in Call : About(d)'
         /\ pc' \in [Call -> {"idle", "commit", "hide", "insert", "mine", "theirs", "greet", "deliver"}]
<1>1. pc' \in [Call -> {"idle", "commit", "hide", "insert", "mine", "theirs", "greet", "deliver"}]
      /\ pc[c] = from /\ pc'[c] = to /\ \A d \in Call : d # c => pc'[d] = pc[d]
  BY DEF TypeInv, TypeOK, Goes
<1>2. About(c)'
  BY <1>1 DEF TypeInv, About
<1>3. ASSUME NEW d \in Call, d # c PROVE About(d)'
  BY <1>1, <1>3 DEF TypeInv, About
<1> QED BY <1>1, <1>2, <1>3

LEMMA EndsTypes ==
  ASSUME TypeInv, NEW c \in Call, NEW from, Ends(c, from)
  PROVE  /\ call' \in [Call -> Requests] /\ \A d \in Call : About(d)'
         /\ pc' \in [Call -> {"idle", "commit", "hide", "insert", "mine", "theirs", "greet", "deliver"}]
<1>1. /\ call' \in [Call -> Requests] /\ pc'[c] = "idle" /\ call'[c].kind = "none"
      /\ pc' \in [Call -> {"idle", "commit", "hide", "insert", "mine", "theirs", "greet", "deliver"}]
      /\ \A d \in Call : d # c => pc'[d] = pc[d] /\ call'[d] = call[d]
  BY EndsType DEF NoCall
<1>2. ASSUME NEW d \in Call PROVE About(d)'
  BY <1>1, <1>2 DEF TypeInv, About
<1> QED BY <1>1, <1>2

(* What restoring talks changes. *)
LEMMA RestoreTypes ==
  ASSUME TypeInv, NEW c \in Call, NEW ps, Restore(c, ps), ps \subseteq Pairs
  PROVE  talk' \in [Pairs -> BOOLEAN] /\ reopened' \subseteq Pairs
BY DEF TypeInv, TypeOK, Restore

(* The two rows of a group count that a call changes. *)
LEMMA CountTypes ==
  ASSUME TypeInv, NEW minus \in Group \cup {NoGroup}, NEW plus \in Group \cup {NoGroup}, CanDecrement(minus),
         group' = [h \in Group |-> [group[h] EXCEPT !.count = Counted(h, minus, plus)]]
  PROVE  group' \in [Group -> [user : User \cup {NoUser}, count : Nat, gone : BOOLEAN]]
<1>1. ASSUME NEW h \in Group PROVE Counted(h, minus, plus) \in Nat
  BY DEF TypeInv, TypeOK, Counted, CanDecrement
<1> DEFINE row(h) == [group[h] EXCEPT !.count = Counted(h, minus, plus)]
<1>2. ASSUME NEW h \in Group, NEW n \in Nat
      PROVE  [group[h] EXCEPT !.count = n] \in [user : User \cup {NoUser}, count : Nat, gone : BOOLEAN]
  <2>1. group[h] \in [user : User \cup {NoUser}, count : Nat, gone : BOOLEAN]
    BY DEF TypeInv, TypeOK
  <2> QED BY <1>2, <2>1
<1>3. \A h \in Group : row(h) \in [user : User \cup {NoUser}, count : Nat, gone : BOOLEAN]
  BY <1>1, <1>2
<1>4. group' = [h \in Group |-> row(h)]
  OBVIOUS
<1> HIDE DEF row
<1> QED BY <1>3, <1>4

Groups == [Group -> [user : User \cup {NoUser}, count : Nat, gone : BOOLEAN]]
Applications == [Apply -> [pair : Pairs \cup {<<NoUser, NoUser>>},
                           status : {"none", "pending", "agreed", "rejected"}]]

LEMMA TypeStep == TypeInv /\ [Next]_vars => TypeInv'
<1> SUFFICES ASSUME TypeInv, [Next]_vars
             PROVE  /\ contact' \in [Pairs -> Rows] /\ group' \in Groups
                    /\ apply' \in Applications /\ \A a \in Apply : apply'[a].status # "none" => apply'[a].pair \in Pairs
                    /\ talk' \in [Pairs -> BOOLEAN] /\ reopened' \subseteq Pairs
                    /\ call' \in [Call -> Requests] /\ \A c \in Call : About(c)'
                    /\ pc' \in [Call -> {"idle", "commit", "hide", "insert", "mine", "theirs", "greet", "deliver"}]
  BY DEF TypeInv, TypeOK, Rows, States, Groups, Applications, Requests, Kinds, Asks
<1> DEFINE Tables == /\ contact' \in [Pairs -> Rows] /\ group' \in Groups
                     /\ apply' \in Applications /\ \A a \in Apply : apply'[a].status # "none" => apply'[a].pair \in Pairs
           Talks == talk' \in [Pairs -> BOOLEAN] /\ reopened' \subseteq Pairs
           Calls == /\ call' \in [Call -> Requests] /\ \A c \in Call : About(c)'
                    /\ pc' \in [Call -> {"idle", "commit", "hide", "insert", "mine", "theirs", "greet", "deliver"}]
           Goal == Tables /\ Talks /\ Calls
<1>0. /\ contact \in [Pairs -> Rows] /\ group \in Groups /\ apply \in Applications
      /\ \A a \in Apply : apply[a].status # "none" => apply[a].pair \in Pairs
      /\ talk \in [Pairs -> BOOLEAN] /\ reopened \subseteq Pairs
      /\ call \in [Call -> Requests] /\ \A c \in Call : About(c)
      /\ pc \in [Call -> {"idle", "commit", "hide", "insert", "mine", "theirs", "greet", "deliver"}]
  BY DEF TypeInv, TypeOK, Rows, States, Groups, Applications, Requests, Kinds, Asks
<1>1. UNCHANGED <<contact, group, apply>> => Tables
  BY <1>0
<1>2. UNCHANGED <<talk, reopened>> => Talks
  BY <1>0
<1>3. UNCHANGED <<call, pc>> => Calls
  BY <1>0 DEF About
<1>4. \A g \in Group : There(g) => group[g].user \in User
  BY <1>0 DEF There, Groups
<1>5. \A c \in Call : call[c].was \in Group \cup {NoGroup} /\ call[c].drop \in SUBSET Group
  BY <1>0 DEF Requests
<1>6. Pairs \subseteq Asks /\ {} \in SUBSET Group
  BY DEF Asks
<1>7. {"move", "delete", "apply", "agree", "send", "save"} \subseteq Kinds
      /\ {"move", "delete", "save"} = Sorting
  BY DEF Kinds, Sorting
<1> HIDE DEF Tables, Talks, Calls
<1>10. ASSUME NEW c \in Call, NEW p \in Pairs, NEW g \in Group, BeginMove(c, p, g) PROVE Goal
  <2>1. Asked(c, "move", p, g, {}) /\ pc' = [pc EXCEPT ![c] = "commit"] /\ UNCHANGED <<tables, reopened>>
    BY <1>10 DEF BeginMove
  <2>2. Calls
    BY <2>1, <1>6, <1>7, BeginTypes DEF Calls
  <2> QED BY <1>1, <1>2, <2>1, <2>2 DEF tables
<1>11. ASSUME NEW c \in Call, NEW p \in Pairs, BeginDelete(c, p) \/ BeginApply(c, p) \/ BeginSend(c, p) PROVE Goal
  <2>1. UNCHANGED <<tables, reopened>>
    BY <1>11 DEF BeginDelete, BeginApply, BeginSend
  <2>2. ASSUME BeginDelete(c, p) PROVE Calls
    <3>1. Asked(c, "delete", p, NoGroup, {}) /\ pc' = [pc EXCEPT ![c] = "commit"]
      BY <2>2 DEF BeginDelete
    <3> QED BY <3>1, <1>6, <1>7, BeginTypes DEF Calls
  <2>3. ASSUME BeginApply(c, p) PROVE Calls
    <3>1. Asked(c, "apply", p, NoGroup, {}) /\ pc' = [pc EXCEPT ![c] = "insert"]
      BY <2>3 DEF BeginApply
    <3> QED BY <3>1, <1>6, <1>7, BeginTypes DEF Calls
  <2>4. ASSUME BeginSend(c, p) PROVE Calls
    <3>1. Asked(c, "send", p, NoGroup, {}) /\ pc' = [pc EXCEPT ![c] = "greet"]
      BY <2>4 DEF BeginSend
    <3> QED BY <3>1, <1>6, <1>7, BeginTypes DEF Calls
  <2> QED BY <1>11, <2>1, <2>2, <2>3, <2>4, <1>1, <1>2 DEF tables
<1>12. ASSUME NEW c \in Call, NEW u \in User, NEW keep \in SUBSET Group, BeginSave(c, u, keep) PROVE Goal
  <2> DEFINE drop == {g \in Group : There(g) /\ group[g].user = u} \ keep
  <2>1. /\ Asked(c, "save", <<u, NoUser>>, NoGroup, drop) /\ pc' = [pc EXCEPT ![c] = "commit"]
        /\ UNCHANGED <<tables, reopened>>
    BY <1>12 DEF BeginSave
  <2>2. drop \in SUBSET Group /\ <<u, NoUser>> \in Asks
    BY DEF Asks
  <2> HIDE DEF drop
  <2>3. Calls
    BY <2>1, <2>2, <1>7, BeginTypes DEF Calls
  <2> QED BY <1>1, <1>2, <2>1, <2>3 DEF tables
<1>13. ASSUME NEW c \in Call, NEW a \in Apply, Agree(c, a) PROVE Goal
  <2> DEFINE p == Back(apply[a].pair)
  <2>1. p \in Pairs
    BY <1>0, <1>13, PairsTurn DEF Agree
  <2>2. Calls
    <3>1. Asked(c, "agree", p, NoGroup, {}) /\ pc' = [pc EXCEPT ![c] = "mine"]
      BY <1>13 DEF Agree
    <3> HIDE DEF p
    <3> QED BY <2>1, <3>1, <1>6, <1>7, BeginTypes DEF Calls
  <2>3. apply' \in Applications /\ \A b \in Apply : apply'[b].status # "none" => apply'[b].pair \in Pairs
    BY <1>0, <1>13 DEF Agree, Applications
  <2>4. contact' \in [Pairs -> Rows]
    BY <1>0, <1>13 DEF Agree, Rows, States
  <2>5. UNCHANGED <<group, talk>> /\ reopened' \subseteq Pairs
    BY <1>0, <1>13 DEF Agree
  <2> QED BY <1>0, <2>2, <2>3, <2>4, <2>5 DEF Tables, Talks
<1>14. ASSUME NEW c \in Call, Move(c) PROVE Goal
  <2>1. call[c].to \in Group
    BY <1>14, <1>0, NoneAssumption DEF Move, There
  <2>2. group' \in Groups
    BY <1>14, <1>5, <2>1, CountTypes DEF Move, Groups
  <2>3. contact' \in [Pairs -> Rows]
    BY <1>0, <1>14, <2>1 DEF Move, Rows
  <2>4. UNCHANGED <<apply, talk, reopened>> /\ Ends(c, "commit")
    BY <1>14 DEF Move
  <2> QED BY <1>0, <1>2, <2>2, <2>3, <2>4, EndsTypes DEF Tables, Calls
<1>15. ASSUME NEW c \in Call, Save(c) PROVE Goal
  <2>1. UNCHANGED <<apply, talk, reopened>> /\ Ends(c, "commit") /\ call[c].kind = "save"
    BY <1>15 DEF Save
  <2>2. contact' \in [Pairs -> Rows]
    BY <1>0, <1>15 DEF Save, Rows
  <2>3. call[c].pair[1] \in User \cup {NoUser}
    BY <1>0, PairAssumption DEF Requests, Asks
  <2>4. group' \in Groups
    <3>1. PICK new \in SUBSET Group :
            group' = [g \in Group |-> IF g \in call[c].drop THEN [group[g] EXCEPT !.gone = TRUE]
                                     ELSE IF g \in new THEN [group[g] EXCEPT !.user = call[c].pair[1]]
                                     ELSE group[g]]
      BY <1>15 DEF Save
    <3>2. ASSUME NEW g \in Group PROVE group'[g] \in [user : User \cup {NoUser}, count : Nat, gone : BOOLEAN]
      <4>1. group[g] \in [user : User \cup {NoUser}, count : Nat, gone : BOOLEAN]
        BY <1>0 DEF Groups
      <4>2. CASE g \in call[c].drop
        BY <3>1, <4>1, <4>2
      <4>3. CASE g \notin call[c].drop /\ g \in new
        BY <3>1, <4>1, <4>3, <2>3
      <4>4. CASE g \notin call[c].drop /\ g \notin new
        BY <3>1, <4>1, <4>4
      <4> QED BY <4>2, <4>3, <4>4
    <3> QED BY <3>1, <3>2 DEF Groups
  <2> QED BY <1>0, <1>2, <2>1, <2>2, <2>4, EndsTypes DEF Tables, Calls
<1>16. ASSUME NEW c \in Call, Delete(c) PROVE Goal
  <2>1. Goes(c, "commit", "hide") /\ call[c].kind = "delete" /\ call' = Overlapped(c, call[c].pair)
        /\ UNCHANGED <<apply, talk>> /\ reopened' \subseteq Pairs
    BY <1>0, <1>16 DEF Delete
  <2>2. call' \in [Call -> Requests]
        /\ \A d \in Call : call'[d].kind = call[d].kind /\ call'[d].pair = call[d].pair
    <3>1. ASSUME NEW d \in Call PROVE call'[d] \in {call[d], [call[d] EXCEPT !.old = TRUE]}
      BY <2>1 DEF Overlapped
    <3>2. ASSUME NEW d \in Call, NEW r \in {call[d], [call[d] EXCEPT !.old = TRUE]}
          PROVE  r \in Requests /\ r.kind = call[d].kind /\ r.pair = call[d].pair
      <4>1. call[d] \in Requests
        BY <1>0
      <4>2. CASE r = [call[d] EXCEPT !.old = TRUE]
        BY <4>1, <4>2 DEF Requests
      <4> QED BY <3>2, <4>1, <4>2
    <3>3. call' = [d \in Call |-> call'[d]]
      BY <2>1 DEF Overlapped
    <3> QED BY <3>1, <3>2, <3>3
  <2>3. group' \in Groups
    BY <1>16, <1>5, CountTypes DEF Delete, Groups
  <2>4. contact' \in [Pairs -> Rows]
    BY <1>0, <1>16 DEF Delete, Rows, States
  <2> QED BY <1>0, <2>1, <2>2, <2>3, <2>4, GoesTypes DEF Tables, Talks, Calls
<1>17. ASSUME NEW c \in Call, Hide(c) \/ HideFails(c) PROVE Goal
  <2>1. Ends(c, "hide") /\ UNCHANGED <<contact, group, apply>>
    BY <1>17 DEF Hide, HideFails, tables
  <2>2. call[c].pair \in Pairs
    BY <1>0, <2>1 DEF Ends, Goes, About
  <2>3. talk' \in [Pairs -> BOOLEAN] /\ reopened' \subseteq Pairs
    BY <1>0, <1>17, <2>2 DEF Hide, HideFails, tables
  <2> QED BY <1>1, <2>1, <2>3, EndsTypes DEF Talks, Calls
<1>18. ASSUME NEW c \in Call, Insert(c) PROVE Goal
  <2>1. Ends(c, "insert") /\ UNCHANGED <<contact, group, talk, reopened>>
    BY <1>18 DEF Insert
  <2>2. call[c].pair \in Pairs
    BY <1>0, <2>1 DEF Ends, Goes, About
  <2>3. apply' \in Applications /\ \A b \in Apply : apply'[b].status # "none" => apply'[b].pair \in Pairs
    BY <1>0, <1>18, <2>2 DEF Insert, Applications
  <2> QED BY <1>0, <1>2, <2>1, <2>3, EndsTypes DEF Tables, Calls
<1>19. ASSUME NEW c \in Call, MySession(c) PROVE Goal
  <2>1. Goes(c, "mine", "theirs") /\ UNCHANGED <<contact, group, apply>>
    BY <1>19 DEF MySession
  <2>2. call[c].pair \in Pairs
    BY <1>0, <2>1 DEF Goes, About
  <2>3. call' \in [Call -> Requests]
        /\ \A d \in Call : call'[d].kind = call[d].kind /\ call'[d].pair = call[d].pair
    <3>1. CASE UNCHANGED call
      BY <1>0, <3>1
    <3>2. CASE call' = [call EXCEPT ![c].ok = TRUE]
      <4>1. call' = [call EXCEPT ![c] = [call[c] EXCEPT !.ok = TRUE]]
        BY <3>2
      <4>2. call[c] \in Requests
        BY <1>0
      <4>3. /\ [call[c] EXCEPT !.ok = TRUE] \in Requests
            /\ [call[c] EXCEPT !.ok = TRUE].kind = call[c].kind /\ [call[c] EXCEPT !.ok = TRUE].pair = call[c].pair
        BY <4>2 DEF Requests
      <4> QED BY <1>0, <4>1, <4>3
    <3> QED BY <1>19, <3>1, <3>2 DEF MySession
  <2>4. Talks
    BY <1>2, <1>19, <2>2, RestoreTypes DEF MySession, Talks
  <2> QED BY <1>1, <2>1, <2>3, <2>4, GoesTypes DEF Calls
<1>20. ASSUME NEW c \in Call, TheirSession(c) PROVE Goal
  <2>1. pc[c] = "theirs" /\ UNCHANGED <<contact, group, apply>>
    BY <1>20 DEF TheirSession, Ends, Goes
  <2>2. Back(call[c].pair) \in Pairs
    BY <1>0, <2>1, PairsTurn DEF About
  <2>3. Talks
    BY <1>2, <1>20, <2>2, RestoreTypes DEF TheirSession, Talks
  <2>4. CASE call[c].ok
    <3>1. Goes(c, "theirs", "greet") /\ UNCHANGED call
      BY <1>20, <2>4 DEF TheirSession
    <3>2. Calls
      BY <1>0, <3>1, GoesTypes DEF Calls
    <3> QED BY <1>1, <2>1, <2>3, <3>2
  <2>5. CASE ~call[c].ok
    <3>1. Ends(c, "theirs")
      BY <1>20, <2>5 DEF TheirSession
    <3>2. Calls
      BY <3>1, EndsTypes DEF Calls
    <3> QED BY <1>1, <2>1, <2>3, <3>2
  <2> QED BY <1>1, <2>1, <2>3, <2>4, <2>5
<1>21. ASSUME NEW c \in Call, Lookup(c) PROVE Goal
  <2>1. Goes(c, "greet", "deliver") /\ UNCHANGED <<tables, reopened>>
    BY <1>21 DEF Lookup
  <2>2. MayDeliver(call[c].pair) \in BOOLEAN
    BY DEF MayDeliver
  <2>3. call' \in [Call -> Requests]
        /\ \A d \in Call : call'[d].kind = call[d].kind /\ call'[d].pair = call[d].pair
    BY <1>0, <1>21, <2>2 DEF Lookup, Requests
  <2> QED BY <1>1, <1>2, <2>1, <2>3, GoesTypes DEF Calls, tables
<1>22. ASSUME NEW c \in Call, Deliver(c) PROVE Goal
  <2>1. Ends(c, "deliver") /\ UNCHANGED <<contact, group, apply>>
    BY <1>22 DEF Deliver
  <2>2. {call[c].pair, Back(call[c].pair)} \subseteq Pairs
    BY <1>0, <2>1, PairsTurn DEF Ends, Goes, About
  <2>3. PICK ps \in SUBSET {call[c].pair, Back(call[c].pair)} : Restore(c, ps)
    BY <1>22 DEF Deliver
  <2> QED BY <1>1, <2>1, <2>2, <2>3, RestoreTypes, EndsTypes DEF Talks, Calls
<1>23. ASSUME NEW c \in Call, Fails(c) PROVE Goal
  BY <1>23, <1>1, <1>2, EndsTypes DEF Fails, tables, Calls
<1>24. ASSUME NEW a \in Apply, Reject(a) PROVE Goal
  <2>1. apply' \in Applications /\ \A b \in Apply : apply'[b].status # "none" => apply'[b].pair \in Pairs
    BY <1>0, <1>24 DEF Reject, Applications
  <2> QED BY <1>0, <1>2, <1>3, <1>24, <2>1 DEF Reject, Tables
<1>25. ASSUME NEW p \in Pairs, Open(p) PROVE Goal
  BY <1>0, <1>1, <1>3, <1>25 DEF Open, Talks
<1>26. ASSUME UNCHANGED vars PROVE Goal
  BY <1>26, <1>1, <1>2, <1>3 DEF vars, tables
<1>27. Goal
  <2> HIDE DEF Goal
  <2> QED BY <1>10, <1>11, <1>12, <1>13, <1>14, <1>15, <1>16, <1>17, <1>18, <1>19, <1>20, <1>21, <1>22,
             <1>23, <1>24, <1>25, <1>26 DEF Next
<1> QED BY <1>27 DEF Tables, Talks, Calls

THEOREM TypeCorrect == Spec => []TypeOK
<1>1. TypeInv => TypeOK
  BY DEF TypeInv
<1> QED BY <1>1, TypeInit, TypeStep, PTL DEF Spec

------------------------------------------------------------------------------
(* Friendships *)

(* How the state of a contact changes: AgreeApply makes both rows those of  *)
(* friends, a deletion ends one of them.                                    *)
LEMMA StateChange ==
  ASSUME TypeInv, Next
  PROVE  \/ \A p \in Pairs : contact'[p].state = contact[p].state
         \/ \E c \in Call, a \in Apply :
              LET q == Back(apply[a].pair)
              IN  /\ Agree(c, a) /\ q \in Pairs
                  /\ \A p \in Pairs : contact'[p].state = IF p \in {q, Back(q)} THEN "friend" ELSE contact[p].state
         \/ \E c \in Call :
              /\ Delete(c) /\ call[c].pair \in Pairs
              /\ \A p \in Pairs : contact'[p].state = IF p = call[c].pair THEN "deleted" ELSE contact[p].state
<1> DEFINE Same == \A p \in Pairs : contact'[p].state = contact[p].state
<1>0. contact \in [Pairs -> Rows]
  BY DEF TypeInv, TypeOK, Rows, States
<1>1. ASSUME NEW c \in Call, NEW a \in Apply, Agree(c, a)
      PROVE  LET q == Back(apply[a].pair)
             IN  /\ q \in Pairs
                 /\ \A p \in Pairs : contact'[p].state = IF p \in {q, Back(q)} THEN "friend" ELSE contact[p].state
  BY <1>0, <1>1, PairsTurn DEF TypeInv, Agree
<1>2. ASSUME NEW c \in Call, Delete(c)
      PROVE  /\ call[c].pair \in Pairs
             /\ \A p \in Pairs : contact'[p].state = IF p = call[c].pair THEN "deleted" ELSE contact[p].state
  BY <1>0, <1>2 DEF TypeInv, About, Delete, Goes
<1>3. ASSUME NEW c \in Call, Move(c) \/ Save(c) PROVE Same
  <2>1. CASE Move(c)
    BY <1>0, <2>1 DEF Move, Rows
  <2>2. CASE Save(c)
    BY <1>0, <2>2 DEF Save, Rows
  <2> QED BY <1>3, <2>1, <2>2
<1>4. UNCHANGED contact => Same
  OBVIOUS
<1>5. ASSUME NEW c \in Call, NEW p \in Pairs,
             BeginDelete(c, p) \/ BeginApply(c, p) \/ BeginSend(c, p) \/ \E g \in Group : BeginMove(c, p, g)
      PROVE  UNCHANGED contact
  BY <1>5 DEF BeginDelete, BeginApply, BeginSend, BeginMove, tables
<1>6. ASSUME NEW c \in Call, NEW u \in User, NEW keep \in SUBSET Group, BeginSave(c, u, keep) PROVE UNCHANGED contact
  BY <1>6 DEF BeginSave, tables
<1>7. ASSUME NEW c \in Call, Hide(c) \/ HideFails(c) \/ Insert(c) \/ MySession(c) \/ TheirSession(c)
                             \/ Lookup(c) \/ Deliver(c) \/ Fails(c)
      PROVE  UNCHANGED contact
  BY <1>7 DEF Hide, HideFails, Insert, MySession, TheirSession, Lookup, Deliver, Fails, tables
<1>8. ASSUME (\E a \in Apply : Reject(a)) \/ \E p \in Pairs : Open(p) PROVE UNCHANGED contact
  BY <1>8 DEF Reject, Open
<1> HIDE DEF Same
<1>9. Same \/ (\E c \in Call, a \in Apply : Agree(c, a)) \/ \E c \in Call : Delete(c)
  BY <1>3, <1>4, <1>5, <1>6, <1>7, <1>8 DEF Next
<1> QED BY <1>1, <1>2, <1>9 DEF Same

(* Whoever has a friend is among the contacts of that friend: AgreeApply    *)
(* writes both rows in one transaction, and no row is ever removed.         *)
THEOREM NoOneWayHolds == Spec => []NoOneWay
<1> DEFINE Inv == TypeInv /\ NoOneWay
<1>1. Init => Inv
  <2>1. Init => NoOneWay
    BY DEF Init, NoOneWay
  <2> QED BY <2>1, TypeInit
<1>2. Inv /\ [Next]_vars => Inv'
  <2> SUFFICES ASSUME Inv, [Next]_vars PROVE NoOneWay'
    BY TypeStep
  <2>1. CASE UNCHANGED vars
    BY <2>1 DEF vars, tables, NoOneWay
  <2>2. CASE Next
    <3>1. CASE \A p \in Pairs : contact'[p].state = contact[p].state
      BY <3>1, PairsTurn DEF NoOneWay
    <3>2. ASSUME NEW q \in Pairs,
                 \A p \in Pairs : contact'[p].state = IF p \in {q, Back(q)} THEN "friend" ELSE contact[p].state
          PROVE  NoOneWay'
      BY <3>2, PairsTurn DEF NoOneWay
    <3>3. ASSUME NEW q \in Pairs,
                 \A p \in Pairs : contact'[p].state = IF p = q THEN "deleted" ELSE contact[p].state
          PROVE  NoOneWay'
      BY <3>3, PairsTurn DEF NoOneWay
    <3> QED BY <2>2, <3>1, <3>2, <3>3, StateChange
  <2> QED BY <2>1, <2>2
<1>3. Inv => NoOneWay
  OBVIOUS
<1> HIDE DEF Inv
<1> QED BY <1>1, <1>2, <1>3, PTL DEF Spec

------------------------------------------------------------------------------
(* Deleted contacts *)

(* A call that is about to restore the talk of the other user has found him *)
(* to have the caller as a friend, or has been overlapped by his deletion.  *)
Befriended(c) ==
  pc[c] \in {"mine", "theirs"} \/ (pc[c] = "deliver" /\ call[c].ok) =>
    call[c].old \/ contact[Back(call[c].pair)].state = "friend"

DeletedInv == TypeInv /\ DeletedIsGone /\ \A c \in Call : Befriended(c)

LEMMA BefriendedStep ==
  ASSUME DeletedInv, Next, NEW c \in Call
  PROVE  Befriended(c)'
<1>0. /\ TypeInv /\ About(c) /\ Befriended(c) /\ contact \in [Pairs -> Rows]
      /\ call \in [Call -> Requests] /\ pc[c] \in {"idle", "commit", "hide", "insert", "mine", "theirs", "greet", "deliver"}
      /\ pc \in [Call -> {"idle", "commit", "hide", "insert", "mine", "theirs", "greet", "deliver"}]
  BY DEF DeletedInv, TypeInv, TypeOK, Rows, States, Requests, Kinds, Asks
<1> DEFINE Shows == pc[c] \in {"mine", "theirs"} \/ (pc[c] = "deliver" /\ call[c].ok)
<1>1. Shows => Back(call[c].pair) \in Pairs
  BY <1>0, PairsTurn DEF About
(* The call itself: it begins, or goes on. *)
<1>2. ASSUME UNCHANGED contact, call'[c].old = call[c].old, call'[c].pair = call[c].pair, Shows' => Shows
      PROVE  Befriended(c)'
  BY <1>0, <1>2 DEF Befriended
<1>3. ASSUME pc'[c] \notin {"mine", "theirs", "deliver"} PROVE Befriended(c)'
  BY <1>3 DEF Befriended
<1>4. ASSUME NEW d \in Call, NEW p \in Pairs,
             BeginDelete(d, p) \/ BeginApply(d, p) \/ BeginSend(d, p) \/ \E g \in Group : BeginMove(d, p, g)
      PROVE  Befriended(c)'
  <2>1. PICK at \in {"commit", "insert", "greet"} : pc' = [pc EXCEPT ![d] = at]
    BY <1>4 DEF BeginDelete, BeginApply, BeginSend, BeginMove
  <2>2. UNCHANGED contact /\ \E r : call' = [call EXCEPT ![d] = r]
    BY <1>4 DEF BeginDelete, BeginApply, BeginSend, BeginMove, Asked, tables
  <2>3. CASE c = d
    BY <1>0, <1>3, <2>1, <2>3
  <2>4. CASE c # d
    BY <1>0, <1>2, <2>1, <2>2, <2>4
  <2> QED BY <2>3, <2>4
<1>5. ASSUME NEW d \in Call, NEW u \in User, NEW keep \in SUBSET Group, BeginSave(d, u, keep) PROVE Befriended(c)'
  <2>1. /\ UNCHANGED contact /\ pc' = [pc EXCEPT ![d] = "commit"]
        /\ \E r : call' = [call EXCEPT ![d] = r]
    BY <1>5 DEF BeginSave, Asked, tables
  <2>2. CASE c = d
    BY <1>0, <1>3, <2>1, <2>2
  <2>3. CASE c # d
    BY <1>0, <1>2, <2>1, <2>3
  <2> QED BY <2>2, <2>3
<1>6. ASSUME NEW d \in Call, NEW a \in Apply, Agree(d, a) PROVE Befriended(c)'
  <2> DEFINE q == Back(apply[a].pair)
  <2>1. q \in Pairs /\ Back(q) \in Pairs /\ \A p \in Pairs : contact'[p].state = IF p \in {q, Back(q)} THEN "friend" ELSE contact[p].state
    BY <1>0, <1>6, PairsTurn DEF TypeInv, Agree
  <2>2. Asked(d, "agree", q, NoGroup, {}) /\ pc' = [pc EXCEPT ![d] = "mine"]
    BY <1>6 DEF Agree
  <2>3. call'[d].pair = q
    <3>1. q \in Asks /\ "agree" \in Kinds /\ {} \in SUBSET Group
      BY <2>1 DEF Asks, Kinds
    <3> HIDE DEF q
    <3> QED BY <1>0, <2>2, <3>1, AskedType
  <2>4. c # d => call'[c] = call[c] /\ pc'[c] = pc[c]
    BY <1>0, <2>2 DEF Asked
  <2> HIDE DEF q
  <2>5. CASE c = d
    BY <2>1, <2>3, <2>5 DEF Befriended
  <2>6. CASE c # d
    BY <1>0, <1>1, <2>1, <2>4, <2>6 DEF Befriended
  <2> QED BY <2>5, <2>6
<1>7. ASSUME NEW d \in Call, NEW from, Ends(d, from),
             \A p \in Pairs : contact'[p].state = contact[p].state
      PROVE  Befriended(c)'
  <2>1. pc'[d] = "idle" /\ (c # d => call'[c] = call[c] /\ pc'[c] = pc[c])
    BY <1>0, <1>7, EndsType
  <2>2. CASE c = d
    BY <1>3, <2>1, <2>2
  <2>3. CASE c # d
    BY <1>0, <1>1, <1>7, <2>1, <2>3 DEF Befriended
  <2> QED BY <2>2, <2>3
<1>8. ASSUME NEW d \in Call, Move(d) \/ Save(d) PROVE Befriended(c)'
  <2>1. \A p \in Pairs : contact'[p].state = contact[p].state
    <3>1. CASE Move(d)
      BY <1>0, <3>1 DEF Move, Rows
    <3>2. CASE Save(d)
      BY <1>0, <3>2 DEF Save, Rows
    <3> QED BY <1>8, <3>1, <3>2
  <2> QED BY <1>7, <1>8, <2>1 DEF Move, Save
<1>9. ASSUME NEW d \in Call, Hide(d) \/ HideFails(d) \/ Insert(d) \/ Deliver(d) \/ Fails(d) PROVE Befriended(c)'
  BY <1>7, <1>9 DEF Hide, HideFails, Insert, Deliver, Fails, tables
<1>10. ASSUME NEW d \in Call, Delete(d) PROVE Befriended(c)'
  <2> DEFINE q == call[d].pair
  <2>1. /\ Goes(d, "commit", "hide") /\ call' = Overlapped(d, q) /\ q \in Pairs
        /\ contact' = [contact EXCEPT ![q] = [state |-> "deleted", group |-> NoGroup]]
    BY <1>0, <1>10 DEF Delete, TypeInv, About, Goes
  <2>2. CASE c = d
    BY <1>0, <1>3, <2>1, <2>2 DEF Goes
  <2>3. CASE c # d /\ call[c].pair = Back(q) /\ call[c].kind \in {"agree", "send"}
    BY <1>0, <2>1, <2>3 DEF Overlapped, Requests, Befriended
  <2>4. CASE c # d /\ ~(call[c].pair = Back(q) /\ call[c].kind \in {"agree", "send"})
    <3>1. call'[c] = call[c] /\ pc'[c] = pc[c]
      BY <1>0, <2>1, <2>4 DEF Overlapped, Goes
    <3>2. Shows => Back(call[c].pair) # q
      BY <1>0, <2>4, PairsTurn DEF About
    <3>3. Shows => contact'[Back(call[c].pair)] = contact[Back(call[c].pair)]
      BY <1>0, <1>1, <2>1, <3>2
    <3> QED BY <1>0, <3>1, <3>3 DEF Befriended
  <2> QED BY <2>2, <2>3, <2>4
<1>11. ASSUME NEW d \in Call, MySession(d) PROVE Befriended(c)'
  <2>1. UNCHANGED contact /\ Goes(d, "mine", "theirs")
        /\ (UNCHANGED call \/ call' = [call EXCEPT ![d].ok = TRUE])
    BY <1>11 DEF MySession
  <2>2. call'[c].old = call[c].old /\ call'[c].pair = call[c].pair /\ (c # d => call'[c] = call[c])
    <3>1. CASE UNCHANGED call
      BY <3>1
    <3>2. CASE call' = [call EXCEPT ![d].ok = TRUE]
      BY <1>0, <3>2 DEF Requests
    <3> QED BY <2>1, <3>1, <3>2
  <2>3. CASE c = d
    BY <1>0, <2>1, <2>2, <2>3 DEF Goes, Befriended
  <2>4. CASE c # d
    BY <1>0, <2>1, <2>2, <2>4 DEF Goes, Befriended
  <2> QED BY <2>3, <2>4
<1>12. ASSUME NEW d \in Call, TheirSession(d) PROVE Befriended(c)'
  <2>1. CASE call[d].ok
    <3>1. UNCHANGED <<contact, call>> /\ Goes(d, "theirs", "greet")
      BY <1>12, <2>1 DEF TheirSession
    <3> QED BY <1>0, <3>1 DEF Goes, Befriended
  <2>2. CASE ~call[d].ok
    <3>1. UNCHANGED contact /\ Ends(d, "theirs")
      BY <1>12, <2>2 DEF TheirSession
    <3> QED BY <1>7, <3>1
  <2> QED BY <2>1, <2>2
<1>13. ASSUME NEW d \in Call, Lookup(d) PROVE Befriended(c)'
  <2>1. UNCHANGED contact /\ Goes(d, "greet", "deliver")
        /\ call' = [call EXCEPT ![d].ok = MayDeliver(call[d].pair)]
    BY <1>13 DEF Lookup, tables
  <2>2. CASE c = d
    <3>1. call'[c].pair = call[c].pair /\ (call'[c].ok <=> MayDeliver(call[c].pair))
      BY <1>0, <2>1, <2>2 DEF Requests, MayDeliver
    <3>2. pc'[c] = "deliver"
      BY <1>0, <2>1, <2>2 DEF Goes
    <3> QED BY <2>1, <3>1, <3>2 DEF Befriended, MayDeliver
  <2>3. CASE c # d
    BY <1>0, <2>1, <2>3 DEF Goes, Befriended
  <2> QED BY <2>2, <2>3
<1>14. ASSUME (\E a \in Apply : Reject(a)) \/ \E p \in Pairs : Open(p) PROVE Befriended(c)'
  BY <1>0, <1>14 DEF Reject, Open, Befriended
<1> QED
  BY <1>4, <1>5, <1>6, <1>8, <1>9, <1>10, <1>11, <1>12, <1>13, <1>14 DEF Next

(* The talks of deleted contacts that are shown were there before, and the  *)
(* calls that are about to hide one are still about to.                     *)
LEMMA GoneKept ==
  ASSUME DeletedIsGone,
         \A p \in Pairs : contact'[p].state = "deleted" /\ talk'[p] =>
           \/ p \in reopened'
           \/ contact[p].state = "deleted" /\ talk[p] /\ (p \in reopened => p \in reopened'),
         \A d \in Call : pc[d] = "hide" => pc'[d] = "hide" /\ call'[d].pair = call[d].pair
  PROVE  DeletedIsGone'
BY DEF DeletedIsGone

(* A call restores a talk of a deleted contact only for the user himself,   *)
(* or if the deletion has overlapped it.                                    *)
LEMMA RestoreKeeps ==
  ASSUME DeletedInv, NEW c \in Call, NEW ps, Restore(c, ps), UNCHANGED contact,
         \A p \in ps \cap Pairs : p[1] = call[c].pair[1] \/ call[c].old \/ contact[p].state = "friend",
         \A d \in Call : pc[d] = "hide" => pc'[d] = "hide" /\ call'[d].pair = call[d].pair
  PROVE  DeletedIsGone'
<1>1. \A p \in Pairs : contact'[p].state = "deleted" /\ talk'[p] =>
        \/ p \in reopened'
        \/ contact[p].state = "deleted" /\ talk[p] /\ (p \in reopened => p \in reopened')
  BY DEF Restore
<1> QED BY <1>1, GoneKept DEF DeletedInv

LEMMA DeletedStep == DeletedInv /\ [Next]_vars => DeletedInv'
<1> SUFFICES ASSUME DeletedInv, [Next]_vars PROVE DeletedIsGone' /\ \A c \in Call : Befriended(c)'
  BY TypeStep DEF DeletedInv
<1>1. CASE UNCHANGED vars
  BY <1>1 DEF vars, tables, DeletedInv, DeletedIsGone, Befriended
<1>2. CASE Next
  <2>0. /\ TypeInv /\ DeletedIsGone /\ contact \in [Pairs -> Rows] /\ talk \in [Pairs -> BOOLEAN]
        /\ call \in [Call -> Requests] /\ \A c \in Call : About(c) /\ Befriended(c)
        /\ pc \in [Call -> {"idle", "commit", "hide", "insert", "mine", "theirs", "greet", "deliver"}]
    BY DEF DeletedInv, TypeInv, TypeOK, Rows, States, Requests, Kinds, Asks
  <2>1. \A c \in Call : Befriended(c)'
    BY <1>2, BefriendedStep
  <2> DEFINE Hiding == \A d \in Call : pc[d] = "hide" => pc'[d] = "hide" /\ call'[d].pair = call[d].pair
             Same == \A p \in Pairs : contact'[p].state = contact[p].state
  <2>2. ASSUME Same, UNCHANGED <<talk, reopened>>, Hiding PROVE DeletedIsGone'
    BY <2>0, <2>2, GoneKept
  (* Calls that begin were idle; those that end anywhere else were not about to hide. *)
  <2>3. ASSUME NEW c \in Call, pc[c] = "idle", NEW at, pc' = [pc EXCEPT ![c] = at], NEW r, call' = [call EXCEPT ![c] = r]
        PROVE  Hiding
    BY <2>0, <2>3
  <2>4. ASSUME NEW c \in Call, NEW from, Ends(c, from), from # "hide" PROVE Hiding
    BY <2>0, <2>4, EndsType
  <2>5. ASSUME NEW c \in Call, NEW p \in Pairs,
               BeginDelete(c, p) \/ BeginApply(c, p) \/ BeginSend(c, p) \/ \E g \in Group : BeginMove(c, p, g)
        PROVE  DeletedIsGone'
    <3>1. UNCHANGED <<contact, talk, reopened>> /\ pc[c] = "idle"
      BY <2>5 DEF BeginDelete, BeginApply, BeginSend, BeginMove, tables
    <3>2. \E at, r : pc' = [pc EXCEPT ![c] = at] /\ call' = [call EXCEPT ![c] = r]
      BY <2>5 DEF BeginDelete, BeginApply, BeginSend, BeginMove, Asked
    <3> QED BY <2>2, <2>3, <3>1, <3>2
  <2>6. ASSUME NEW c \in Call, NEW u \in User, NEW keep \in SUBSET Group, BeginSave(c, u, keep) PROVE DeletedIsGone'
    <3>1. UNCHANGED <<contact, talk, reopened>> /\ pc[c] = "idle"
      BY <2>6 DEF BeginSave, tables
    <3>2. \E at, r : pc' = [pc EXCEPT ![c] = at] /\ call' = [call EXCEPT ![c] = r]
      BY <2>6 DEF BeginSave, Asked
    <3> QED BY <2>2, <2>3, <3>1, <3>2
  <2>7. ASSUME NEW c \in Call, NEW a \in Apply, Agree(c, a) PROVE DeletedIsGone'
    <3> DEFINE q == Back(apply[a].pair)
    <3>1. /\ \A p \in Pairs : contact'[p].state = IF p \in {q, Back(q)} THEN "friend" ELSE contact[p].state
          /\ reopened' = reopened \ {q, Back(q)} /\ UNCHANGED talk
      BY <2>0, <2>7 DEF Agree
    <3>2. pc[c] = "idle" /\ \E at, r : pc' = [pc EXCEPT ![c] = at] /\ call' = [call EXCEPT ![c] = r]
      BY <2>7 DEF Agree, Asked
    <3>3. Hiding
      BY <2>3, <3>2
    <3> HIDE DEF q
    <3>4. \A p \in Pairs : contact'[p].state = "deleted" /\ talk'[p] =>
            contact[p].state = "deleted" /\ talk[p] /\ (p \in reopened => p \in reopened')
      BY <3>1
    <3> QED BY <2>0, <3>3, <3>4, GoneKept
  <2>8. ASSUME NEW c \in Call, Move(c) \/ Save(c) PROVE DeletedIsGone'
    <3>1. Same
      <4>1. CASE Move(c)
        BY <2>0, <4>1 DEF Move, Rows
      <4>2. CASE Save(c)
        BY <2>0, <4>2 DEF Save, Rows
      <4> QED BY <2>8, <4>1, <4>2
    <3>2. UNCHANGED <<talk, reopened>> /\ Ends(c, "commit")
      BY <2>8 DEF Move, Save
    <3> QED BY <2>2, <2>4, <3>1, <3>2
  <2>9. ASSUME NEW c \in Call, Delete(c) PROVE DeletedIsGone'
    <3> DEFINE q == call[c].pair
    <3>1. /\ q \in Pairs /\ Goes(c, "commit", "hide") /\ call' = Overlapped(c, q)
          /\ \A p \in Pairs : p # q => contact'[p] = contact[p]
          /\ reopened' = reopened \ {q} /\ UNCHANGED talk
      BY <2>0, <2>9 DEF Delete, About, Goes
    <3>2. \A d \in Call : call'[d].pair = call[d].pair
      BY <2>0, <3>1 DEF Overlapped, Requests
    <3>3. pc'[c] = "hide" /\ \A d \in Call : d # c => pc'[d] = pc[d]
      BY <2>0, <3>1 DEF Goes
    <3>4. ASSUME NEW p \in Pairs, contact'[p].state = "deleted", talk'[p]
          PROVE  p \in reopened' \/ \E d \in Call : pc'[d] = "hide" /\ call'[d].pair = p
      <4>1. CASE p = q
        BY <3>2, <3>3, <4>1
      <4>2. CASE p # q
        <5>1. p \in reopened \/ \E d \in Call : pc[d] = "hide" /\ call[d].pair = p
          BY <2>0, <3>1, <3>4, <4>2 DEF DeletedIsGone
        <5> QED BY <3>1, <3>2, <3>3, <4>2, <5>1
      <4> QED BY <4>1, <4>2
    <3> QED BY <3>4 DEF DeletedIsGone
  <2>10. ASSUME NEW c \in Call, Hide(c) \/ HideFails(c) PROVE DeletedIsGone'
    <3> DEFINE q == call[c].pair
    <3>1. Ends(c, "hide") /\ UNCHANGED contact /\ q \in Pairs
      BY <2>0, <2>10 DEF Hide, HideFails, tables, Ends, Goes, About
    <3>2. \A d \in Call : d # c => pc'[d] = pc[d] /\ call'[d] = call[d]
      BY <2>0, <3>1, EndsType
    <3>3. contact[q].state = "deleted" => ~talk'[q] \/ q \in reopened'
      BY <2>0, <2>10, <3>1 DEF Hide, HideFails
    <3>4. reopened \subseteq reopened' /\ \A p \in Pairs : p # q => talk'[p] = talk[p]
      BY <2>0, <2>10, <3>1 DEF Hide, HideFails, tables
    <3>5. ASSUME NEW p \in Pairs, contact'[p].state = "deleted", talk'[p]
          PROVE  p \in reopened' \/ \E d \in Call : pc'[d] = "hide" /\ call'[d].pair = p
      <4>1. CASE p = q
        BY <3>1, <3>3, <3>5, <4>1
      <4>2. CASE p # q
        <5>1. p \in reopened \/ \E d \in Call : pc[d] = "hide" /\ call[d].pair = p
          BY <2>0, <3>1, <3>4, <3>5, <4>2 DEF DeletedIsGone
        <5> QED BY <3>2, <3>4, <4>2, <5>1
      <4> QED BY <4>1, <4>2
    <3> QED BY <3>5 DEF DeletedIsGone
  <2>11. ASSUME NEW c \in Call, Insert(c) \/ Fails(c) PROVE DeletedIsGone'
    <3>1. UNCHANGED <<contact, talk, reopened>> /\ \E from \in {"commit", "insert", "greet", "deliver"} : Ends(c, from)
      BY <2>11 DEF Insert, Fails, tables
    <3> QED BY <2>2, <2>4, <3>1
  <2>12. ASSUME NEW c \in Call, MySession(c) PROVE DeletedIsGone'
    <3>1. Goes(c, "mine", "theirs") /\ UNCHANGED contact
          /\ (UNCHANGED call \/ call' = [call EXCEPT ![c].ok = TRUE])
          /\ (Restore(c, {call[c].pair}) \/ UNCHANGED <<talk, reopened>>)
      BY <2>12 DEF MySession
    <3>2. \A d \in Call : call'[d].pair = call[d].pair
      <4>1. CASE UNCHANGED call
        BY <4>1
      <4>2. CASE call' = [call EXCEPT ![c].ok = TRUE]
        BY <2>0, <4>2 DEF Requests
      <4> QED BY <3>1, <4>1, <4>2
    <3>3. Hiding
      BY <2>0, <3>1, <3>2 DEF Goes
    <3> QED BY <2>2, <3>1, <3>3, RestoreKeeps
  <2>13. ASSUME NEW c \in Call, TheirSession(c) PROVE DeletedIsGone'
    <3>1. /\ pc[c] = "theirs" /\ UNCHANGED contact
          /\ (Restore(c, {Back(call[c].pair)}) \/ UNCHANGED <<talk, reopened>>)
      BY <2>13 DEF TheirSession, Ends, Goes
    <3>2. Hiding
      <4>1. CASE call[c].ok
        BY <2>0, <2>13, <4>1 DEF TheirSession, Goes
      <4>2. CASE ~call[c].ok
        BY <2>13, <2>4, <4>2 DEF TheirSession
      <4> QED BY <4>1, <4>2
    <3>3. call[c].old \/ contact[Back(call[c].pair)].state = "friend"
      BY <2>0, <3>1 DEF Befriended
    <3> QED BY <2>2, <3>1, <3>2, <3>3, RestoreKeeps
  <2>14. ASSUME NEW c \in Call, Lookup(c) PROVE DeletedIsGone'
    <3>1. Goes(c, "greet", "deliver") /\ call' = [call EXCEPT ![c].ok = MayDeliver(call[c].pair)]
          /\ UNCHANGED <<contact, talk, reopened>>
      BY <2>14 DEF Lookup, tables
    <3>2. Hiding
      BY <2>0, <3>1 DEF Goes, Requests
    <3> QED BY <2>2, <3>1, <3>2
  <2>15. ASSUME NEW c \in Call, Deliver(c) PROVE DeletedIsGone'
    <3>1. pc[c] = "deliver" /\ Ends(c, "deliver") /\ UNCHANGED contact
      BY <2>15 DEF Deliver, Ends, Goes
    <3>2. PICK ps : /\ Restore(c, ps)
                    /\ ps \subseteq {call[c].pair} \cup (IF call[c].ok THEN {Back(call[c].pair)} ELSE {})
      BY <2>15 DEF Deliver
    <3>3. call[c].ok => call[c].old \/ contact[Back(call[c].pair)].state = "friend"
      BY <2>0, <3>1 DEF Befriended
    <3>4. Hiding
      BY <2>4, <3>1
    <3> HIDE DEF Hiding
    <3>5. \A p \in ps \cap Pairs : p[1] = call[c].pair[1] \/ call[c].old \/ contact[p].state = "friend"
      BY <3>2, <3>3
    <3> QED BY <3>1, <3>2, <3>4, <3>5, RestoreKeeps DEF Hiding
  <2>16. ASSUME NEW a \in Apply, Reject(a) PROVE DeletedIsGone'
    BY <2>2, <2>16 DEF Reject
  <2>17. ASSUME NEW p \in Pairs, Open(p) PROVE DeletedIsGone'
    <3>1. \A q \in Pairs : contact'[q].state = "deleted" /\ talk'[q] =>
            q \in reopened' \/ (contact[q].state = "deleted" /\ talk[q] /\ (q \in reopened => q \in reopened'))
      BY <2>0, <2>17 DEF Open
    <3>2. Hiding
      BY <2>17 DEF Open
    <3> QED BY <2>0, <3>1, <3>2, GoneKept
  <2>18. DeletedIsGone'
    BY <1>2, <2>5, <2>6, <2>7, <2>8, <2>9, <2>10, <2>11, <2>12, <2>13, <2>14, <2>15, <2>16, <2>17 DEF Next
  <2> QED BY <2>1, <2>18
<1> QED BY <1>1, <1>2

(* Who deletes a contact is rid of the talk, whatever calls of the other    *)
(* run at the same time, as long as these have begun after the deletion.    *)
THEOREM DeletedIsGoneHolds == Spec => []DeletedIsGone
<1>1. Init => DeletedInv
  BY TypeInit DEF Init, DeletedInv, DeletedIsGone, Befriended
<1>2. DeletedInv => DeletedIsGone
  BY DEF DeletedInv
<1> QED BY <1>1, <1>2, DeletedStep, PTL DEF Spec

------------------------------------------------------------------------------
(* Counts *)

(* Call c is about to take its contact out of group g. *)
Leaves(c, g) == pc[c] = "commit" /\ call[c].was = g /\ call[c].kind \in {"move", "delete"}
Covered(g) == InGroup(g) \cup {call[c].pair : c \in {d \in Call : Leaves(d, g)}}

(* Only groups that exist have been used, and the calls that sort contacts  *)
(* at the same time are those of different users.                           *)
CountInv ==
  /\ TypeInv
  /\ \A g \in Group : There(g) => Cardinality(Covered(g)) <= group[g].count
  /\ \A p \in Pairs : contact[p].group # NoGroup => group[contact[p].group].user # NoUser
  /\ \A c \in Call : pc[c] = "commit" /\ call[c].was # NoGroup => group[call[c].was].user # NoUser
  /\ \A c, d \in Call : c # d /\ pc[c] = "commit" /\ pc[d] = "commit" => call[c].pair[1] # call[d].pair[1]

LEMMA CoveredFinite ==
  ASSUME TypeInv, NEW g \in Group
  PROVE  Covered(g) \subseteq Pairs /\ IsFiniteSet(Covered(g)) /\ Cardinality(Covered(g)) \in Nat
<1>1. Covered(g) \subseteq Pairs
  BY DEF TypeInv, About, Covered, Leaves, InGroup
<1>2. IsFiniteSet(Covered(g))
  BY <1>1, FiniteAssumption, FS_Subset
<1> QED BY <1>1, <1>2, FS_CardinalityType

(* A step that takes nothing away from the counts and adds no contact to a  *)
(* group keeps them.                                                        *)
LEMMA CoveredShrinks ==
  ASSUME CountInv, NEW g \in Group, There(g), Covered(g)' \subseteq Covered(g),
         group'[g].count = group[g].count
  PROVE  Cardinality(Covered(g)') <= group'[g].count
<1>1. IsFiniteSet(Covered(g)) /\ Cardinality(Covered(g)) \in Nat
  BY CoveredFinite DEF CountInv
<1>2. IsFiniteSet(Covered(g)') /\ Cardinality(Covered(g)') <= Cardinality(Covered(g))
  BY <1>1, FS_Subset
<1>4. Cardinality(Covered(g)') \in Nat
  BY <1>2, FS_CardinalityType
<1>3. group[g].count \in Nat
  BY DEF CountInv, TypeInv, TypeOK
<1> QED BY <1>1, <1>2, <1>3, <1>4 DEF CountInv

(* A call that takes contact p out of group w and puts it into group t:     *)
(* the counts follow, since no other call is about to move p.               *)
LEMMA CountMoves ==
  ASSUME CountInv, NEW c \in Call, NEW p \in Pairs, NEW w \in Group \cup {NoGroup},
         NEW t \in Group \cup {NoGroup}, pc[c] = "commit", call[c].kind \in {"move", "delete"},
         call[c].pair = p, call[c].was = w, CanDecrement(w),
         pc'[c] # "commit", \A d \in Call : d # c => /\ pc'[d] = pc[d] /\ call'[d].was = call[d].was
                                                  /\ call'[d].kind = call[d].kind /\ call'[d].pair = call[d].pair,
         contact'[p].group = t, \A q \in Pairs : q # p => contact'[q] = contact[q],
         group' = [h \in Group |-> [group[h] EXCEPT !.count = Counted(h, w, t)]],
         t = NoGroup \/ There(t), NEW g \in Group, There(g)'
  PROVE  Cardinality(Covered(g)') <= group'[g].count
<1> DEFINE C == Covered(g)
           n == group[g].count
<1>1. IsFiniteSet(C) /\ Cardinality(C) \in Nat /\ n \in Nat
  BY CoveredFinite DEF CountInv, TypeInv, TypeOK
<1>2. There(g) /\ group'[g].count = Counted(g, w, t)
  <2>1. group[g] \in [user : User \cup {NoUser}, count : Nat, gone : BOOLEAN]
    BY DEF CountInv, TypeInv, TypeOK
  <2>2. group'[g] = [group[g] EXCEPT !.count = Counted(g, w, t)]
    OBVIOUS
  <2>3. group'[g].count = Counted(g, w, t) /\ group'[g].user = group[g].user /\ group'[g].gone = group[g].gone
    BY <2>1, <2>2
  <2> QED BY <2>3 DEF There
<1>3. Cardinality(C) <= n
  BY <1>2 DEF CountInv
<1>4. ASSUME NEW d \in Call, d # c, pc[d] = "commit" PROVE call[d].pair # p
  BY <1>4 DEF CountInv
<1>5. Covered(g)' \subseteq (C \ {p}) \cup (IF g = t THEN {p} ELSE {})
  <2>1. InGroup(g)' \subseteq (InGroup(g) \ {p}) \cup (IF g = t THEN {p} ELSE {})
    BY NoneAssumption DEF InGroup
  <2>2. ASSUME NEW d \in Call, Leaves(d, g)' PROVE Leaves(d, g) /\ call'[d].pair = call[d].pair /\ call[d].pair # p
    BY <1>4, <2>2 DEF Leaves
  <2> QED BY <2>1, <2>2 DEF Covered
<1>6. g = w => p \in C
  BY DEF Covered, Leaves
<1>7. group'[g].count = n - (IF g = w THEN 1 ELSE 0) + (IF g = t THEN 1 ELSE 0)
  BY <1>2 DEF Counted
<1> HIDE DEF C
<1>8. IsFiniteSet(C \ {p}) /\ Cardinality(C \ {p}) \in Nat
      /\ Cardinality(C \ {p}) = Cardinality(C) - (IF p \in C THEN 1 ELSE 0)
  BY <1>1, FS_RemoveElement, FS_CardinalityType
<1>9. CASE g = t
  <2>1. IsFiniteSet((C \ {p}) \cup {p}) /\ Cardinality((C \ {p}) \cup {p}) = Cardinality(C \ {p}) + 1
    BY <1>8, FS_AddElement
  <2>2. Covered(g)' \subseteq (C \ {p}) \cup {p}
    BY <1>5, <1>9
  <2>3. Cardinality(Covered(g)') <= Cardinality((C \ {p}) \cup {p}) /\ IsFiniteSet(Covered(g)')
    BY <2>1, <2>2, FS_Subset
  <2>4. Cardinality(Covered(g)') \in Nat
    BY <2>3, FS_CardinalityType
  <2> QED BY <1>1, <1>3, <1>6, <1>7, <1>8, <1>9, <2>1, <2>3, <2>4
<1>10. CASE g # t
  <2>1. Covered(g)' \subseteq C \ {p}
    BY <1>5, <1>10
  <2>2. Cardinality(Covered(g)') <= Cardinality(C \ {p}) /\ IsFiniteSet(Covered(g)')
    BY <1>8, <2>1, FS_Subset
  <2>3. Cardinality(Covered(g)') \in Nat
    BY <2>2, FS_CardinalityType
  <2> QED BY <1>1, <1>3, <1>6, <1>7, <1>8, <1>10, <2>2, <2>3
<1> QED BY <1>9, <1>10

(* The parts of CountInv that a step has to keep, for the calls and groups  *)
(* as it leaves them.                                                       *)
LEMMA CountKept ==
  ASSUME CountInv, TypeInv',
         \A g \in Group : There(g)' => Cardinality(Covered(g)') <= group'[g].count,
         \A p \in Pairs : contact'[p].group \in {contact[p].group, NoGroup} \/ There(contact'[p].group),
         \A g \in Group : group[g].user # NoUser => group'[g].user # NoUser,
         \A d \in Call : pc'[d] = "commit" =>
           pc[d] = "commit" /\ call'[d].was = call[d].was /\ call'[d].pair = call[d].pair
  PROVE  CountInv'
<1>1. ASSUME NEW p \in Pairs, contact'[p].group # NoGroup PROVE group'[contact'[p].group].user # NoUser
  <2>1. contact'[p].group \in Group
    BY <1>1 DEF TypeInv, TypeOK
  <2> QED BY <1>1, <2>1 DEF CountInv, There
<1>2. ASSUME NEW d \in Call, pc'[d] = "commit", call'[d].was # NoGroup PROVE group'[call'[d].was].user # NoUser
  <2>1. call[d].was \in Group
    BY <1>2 DEF CountInv, TypeInv, TypeOK
  <2> QED BY <1>2, <2>1 DEF CountInv
<1>3. ASSUME NEW c \in Call, NEW d \in Call, c # d, pc'[c] = "commit", pc'[d] = "commit"
      PROVE  call'[c].pair[1] # call'[d].pair[1]
  BY <1>3 DEF CountInv
<1> QED BY <1>1, <1>2, <1>3 DEF CountInv

(* Most steps change no group and take no contact anywhere.                 *)
LEMMA CountQuiet ==
  ASSUME CountInv, TypeInv', UNCHANGED group,
         \A p \in Pairs : contact'[p].group \in {contact[p].group, NoGroup},
         \A d \in Call : pc'[d] = "commit" =>
           /\ pc[d] = "commit" /\ call'[d].was = call[d].was
           /\ call'[d].pair = call[d].pair /\ call'[d].kind = call[d].kind
  PROVE  CountInv'
<1>1. ASSUME NEW g \in Group, There(g)' PROVE Cardinality(Covered(g)') <= group'[g].count
  <2>1. There(g)
    BY <1>1 DEF There
  <2>2. Covered(g)' \subseteq Covered(g)
    BY NoneAssumption DEF Covered, Leaves, InGroup
  <2> QED BY <2>1, <2>2, CoveredShrinks
<1> QED BY <1>1, CountKept

(* A call that begins to sort contacts is the only one of its user.         *)
LEMMA CountBegins ==
  ASSUME CountInv, TypeInv', Patient, NEW c \in Call, NEW k \in Sorting, NEW p \in Asks,
         NEW to \in Group \cup {NoGroup}, NEW drop \in SUBSET Group, k # "save" => p \in Pairs,
         Asked(c, k, p, to, drop), pc[c] = "idle", pc' = [pc EXCEPT ![c] = "commit"], UNCHANGED <<group, contact>>
  PROVE  CountInv'
<1>1. /\ call'[c].kind = k /\ call'[c].pair = p
      /\ call'[c].was = IF k \in {"move", "delete"} THEN contact[p].group ELSE NoGroup
      /\ \A d \in Call : d # c => call'[d] = call[d]
  BY AskedType DEF CountInv, Sorting, Kinds
<1>2. pc'[c] = "commit" /\ \A d \in Call : d # c => pc'[d] = pc[d]
  BY DEF CountInv, TypeInv, TypeOK
<1>3. ASSUME NEW d \in Call, d # c, pc[d] = "commit" PROVE call[d].pair[1] # p[1]
  BY <1>3 DEF Asked, CountInv, TypeInv, About
<1>4. ASSUME NEW g \in Group, There(g)' PROVE Cardinality(Covered(g)') <= group'[g].count
  <2>1. There(g)
    BY <1>4 DEF There
  <2>2. Covered(g)' \subseteq Covered(g)
    <3>1. InGroup(g)' = InGroup(g)
      BY DEF InGroup
    <3>2. ASSUME NEW d \in Call, Leaves(d, g)' PROVE call'[d].pair \in Covered(g)
      <4>1. CASE d = c
        <5>1. p \in Pairs /\ contact[p].group = g
          BY <1>1, <3>2, <4>1, NoneAssumption DEF Leaves
        <5> QED BY <1>1, <4>1, <5>1 DEF Covered, InGroup
      <4>2. CASE d # c
        BY <1>1, <1>2, <3>2, <4>2 DEF Covered, Leaves
      <4> QED BY <4>1, <4>2
    <3> QED BY <3>1, <3>2 DEF Covered
  <2> QED BY <2>1, <2>2, CoveredShrinks
<1>5. ASSUME NEW d \in Call, pc'[d] = "commit", call'[d].was # NoGroup PROVE group'[call'[d].was].user # NoUser
  <2>1. CASE d = c
    BY <1>1, <1>5, <2>1 DEF CountInv
  <2>2. CASE d # c
    BY <1>1, <1>2, <1>5, <2>2 DEF CountInv
  <2> QED BY <2>1, <2>2
<1>6. ASSUME NEW d \in Call, NEW e \in Call, d # e, pc'[d] = "commit", pc'[e] = "commit"
      PROVE  call'[d].pair[1] # call'[e].pair[1]
  BY <1>1, <1>2, <1>3, <1>6 DEF CountInv
<1> QED BY <1>4, <1>5, <1>6 DEF CountInv

LEMMA CountInit == Init => CountInv
<1> SUFFICES ASSUME Init PROVE CountInv
  OBVIOUS
<1>1. \A g \in Group : ~There(g)
  BY DEF Init, There
<1> QED BY <1>1, TypeInit DEF Init, CountInv

LEMMA CountStep == Patient /\ CountInv /\ [Next]_vars => CountInv'
<1> SUFFICES ASSUME Patient, CountInv, [Next]_vars PROVE CountInv'
  OBVIOUS
<1>0. /\ TypeInv /\ TypeInv' /\ contact \in [Pairs -> Rows] /\ group \in Groups
      /\ call \in [Call -> Requests] /\ \A c \in Call : About(c)
      /\ pc \in [Call -> {"idle", "commit", "hide", "insert", "mine", "theirs", "greet", "deliver"}]
  BY TypeStep DEF CountInv, TypeInv, TypeOK, Rows, States, Groups, Requests, Kinds, Asks
<1>1. Pairs \subseteq Asks /\ {} \in SUBSET Group /\ Sorting = {"move", "delete", "save"}
  BY DEF Asks, Sorting
<1> DEFINE Quiet == \A d \in Call : pc'[d] = "commit" =>
             /\ pc[d] = "commit" /\ call'[d].was = call[d].was
             /\ call'[d].pair = call[d].pair /\ call'[d].kind = call[d].kind
<1>2. ASSUME UNCHANGED <<contact, group>>, Quiet PROVE CountInv'
  BY <1>0, <1>2, CountQuiet
<1>3. ASSUME NEW c \in Call, NEW from, Ends(c, from) PROVE Quiet
  BY <1>0, <1>3, EndsType
<1>4. ASSUME NEW c \in Call, NEW at, at # "commit", pc' = [pc EXCEPT ![c] = at], NEW r, call' = [call EXCEPT ![c] = r]
      PROVE  Quiet
  BY <1>0, <1>4
<1> HIDE DEF Quiet
<1>10. ASSUME NEW c \in Call, NEW p \in Pairs, NEW g \in Group, BeginMove(c, p, g) PROVE CountInv'
  <2>1. Asked(c, "move", p, g, {}) /\ pc[c] = "idle" /\ pc' = [pc EXCEPT ![c] = "commit"] /\ UNCHANGED <<group, contact>>
    BY <1>10 DEF BeginMove, tables
  <2> QED BY <1>0, <1>1, <2>1, CountBegins
<1>11. ASSUME NEW c \in Call, NEW p \in Pairs, BeginDelete(c, p) PROVE CountInv'
  <2>1. Asked(c, "delete", p, NoGroup, {}) /\ pc[c] = "idle" /\ pc' = [pc EXCEPT ![c] = "commit"] /\ UNCHANGED <<group, contact>>
    BY <1>11 DEF BeginDelete, tables
  <2> QED BY <1>0, <1>1, <2>1, CountBegins
<1>12. ASSUME NEW c \in Call, NEW u \in User, NEW keep \in SUBSET Group, BeginSave(c, u, keep) PROVE CountInv'
  <2> DEFINE drop == {g \in Group : There(g) /\ group[g].user = u} \ keep
  <2>1. /\ Asked(c, "save", <<u, NoUser>>, NoGroup, drop) /\ pc[c] = "idle"
        /\ pc' = [pc EXCEPT ![c] = "commit"] /\ UNCHANGED <<group, contact>>
    BY <1>12 DEF BeginSave, tables
  <2>2. drop \in SUBSET Group /\ <<u, NoUser>> \in Asks
    BY DEF Asks
  <2> HIDE DEF drop
  <2> QED BY <1>0, <1>1, <2>1, <2>2, CountBegins
<1>13. ASSUME NEW c \in Call, NEW p \in Pairs, BeginApply(c, p) \/ BeginSend(c, p) PROVE CountInv'
  <2>1. UNCHANGED <<contact, group>>
    BY <1>13 DEF BeginApply, BeginSend, tables
  <2>2. \E at, r : at # "commit" /\ pc' = [pc EXCEPT ![c] = at] /\ call' = [call EXCEPT ![c] = r]
    BY <1>13 DEF BeginApply, BeginSend, Asked
  <2> QED BY <1>2, <1>4, <2>1, <2>2
<1>14. ASSUME NEW c \in Call, NEW a \in Apply, Agree(c, a) PROVE CountInv'
  <2>1. UNCHANGED group /\ \A p \in Pairs : contact'[p].group \in {contact[p].group, NoGroup}
    BY <1>0, <1>14 DEF Agree
  <2>2. \E at, r : at # "commit" /\ pc' = [pc EXCEPT ![c] = at] /\ call' = [call EXCEPT ![c] = r]
    BY <1>14 DEF Agree, Asked
  <2>3. Quiet
    BY <1>4, <2>2
  <2> QED BY <1>0, <2>1, <2>3, CountQuiet DEF Quiet
<1>15. ASSUME NEW c \in Call, Move(c) PROVE CountInv'
  <2> DEFINE p == call[c].pair
             w == call[c].was
             t == call[c].to
  <2>1. /\ call[c].kind = "move" /\ Ends(c, "commit") /\ There(t) /\ CanDecrement(w)
        /\ contact' = [contact EXCEPT ![p].group = t]
        /\ group' = [h \in Group |-> [group[h] EXCEPT !.count = Counted(h, w, t)]]
    BY <1>15 DEF Move
  <2>2. /\ p \in Pairs /\ w \in Group \cup {NoGroup} /\ t \in Group
        /\ contact'[p].group = t /\ \A q \in Pairs : q # p => contact'[q] = contact[q]
    BY <1>0, <2>1 DEF About, Requests, There, Rows
  <2>3. pc[c] = "commit" /\ pc'[c] = "idle" /\ \A d \in Call : d # c => pc'[d] = pc[d] /\ call'[d] = call[d]
    BY <1>0, <2>1, EndsType
  <2>4. \A g \in Group : group'[g].user = group[g].user
    BY <1>0, <2>1 DEF Groups
  <2> HIDE DEF p, w, t
  <2>5. ASSUME NEW g \in Group, There(g)' PROVE Cardinality(Covered(g)') <= group'[g].count
    BY <2>1, <2>2, <2>3, <2>5, CountMoves DEF p, w
  <2>6. \A q \in Pairs : contact'[q].group \in {contact[q].group, NoGroup} \/ There(contact'[q].group)
    BY <2>1, <2>2
  <2> QED BY <1>0, <2>3, <2>4, <2>5, <2>6, CountKept
<1>16. ASSUME NEW c \in Call, Delete(c) PROVE CountInv'
  <2> DEFINE p == call[c].pair
             w == call[c].was
  <2>1. /\ call[c].kind = "delete" /\ Goes(c, "commit", "hide") /\ CanDecrement(w) /\ call' = Overlapped(c, p)
        /\ contact' = [contact EXCEPT ![p] = [state |-> "deleted", group |-> NoGroup]]
        /\ group' = [h \in Group |-> [group[h] EXCEPT !.count = Counted(h, w, NoGroup)]]
    BY <1>16 DEF Delete
  <2>2. /\ p \in Pairs /\ w \in Group \cup {NoGroup}
        /\ contact'[p].group = NoGroup /\ \A q \in Pairs : q # p => contact'[q] = contact[q]
    BY <1>0, <2>1 DEF About, Requests, Rows
  <2>3. pc[c] = "commit" /\ pc'[c] = "hide" /\ \A d \in Call : d # c => pc'[d] = pc[d]
    BY <1>0, <2>1 DEF Goes
  <2>4. \A d \in Call : call'[d].was = call[d].was /\ call'[d].kind = call[d].kind /\ call'[d].pair = call[d].pair
    BY <1>0, <2>1 DEF Overlapped, Requests
  <2>5. \A g \in Group : group'[g].user = group[g].user
    BY <1>0, <2>1 DEF Groups
  <2> HIDE DEF p, w
  <2>6. ASSUME NEW g \in Group, There(g)' PROVE Cardinality(Covered(g)') <= group'[g].count
    BY <2>1, <2>2, <2>3, <2>4, <2>6, CountMoves DEF p, w
  <2>7. \A q \in Pairs : contact'[q].group \in {contact[q].group, NoGroup}
    BY <2>2
  <2> QED BY <1>0, <2>3, <2>4, <2>5, <2>6, <2>7, CountKept
<1>17. ASSUME NEW c \in Call, Save(c) PROVE CountInv'
  <2> DEFINE gone == call[c].drop
             u == call[c].pair[1]
  <2>1. Ends(c, "commit") /\ \A p \in Pairs : contact'[p].group \in {contact[p].group, NoGroup}
    BY <1>0, <1>17 DEF Save, Rows
  <2>2. PICK new : /\ new \subseteq {g \in Group : group[g].user = NoUser}
                   /\ group' = [g \in Group |-> IF g \in gone THEN [group[g] EXCEPT !.gone = TRUE]
                                                ELSE IF g \in new THEN [group[g] EXCEPT !.user = u]
                                                ELSE group[g]]
    BY <1>17 DEF Save
  <2> HIDE DEF gone, u
  <2>3. ASSUME NEW g \in Group
        PROVE  /\ group'[g].count = group[g].count /\ (group[g].user # NoUser => group'[g].user = group[g].user)
               /\ (There(g)' => There(g) \/ group[g].user = NoUser)
    BY <1>0, <2>2 DEF Groups, There
  <2>4. Quiet
    BY <1>3, <2>1
  <2>5. ASSUME NEW g \in Group, There(g)' PROVE Cardinality(Covered(g)') <= group'[g].count
    <3>1. Covered(g)' \subseteq Covered(g)
      BY <2>1, <2>4, NoneAssumption DEF Quiet, Covered, Leaves, InGroup
    <3>2. CASE There(g)
      BY <2>3, <3>1, <3>2, CoveredShrinks
    <3>3. CASE group[g].user = NoUser
      <4>1. Covered(g) = {}
        BY <3>3, NoneAssumption DEF CountInv, Covered, Leaves, InGroup
      <4>2. Cardinality(Covered(g)') = 0
        BY <3>1, <4>1, FS_EmptySet
      <4> QED BY <1>0, <2>3, <4>2 DEF Groups
    <3> QED BY <2>3, <2>5, <3>2, <3>3
  <2> QED BY <1>0, <2>1, <2>3, <2>4, <2>5, CountKept DEF Quiet
<1>18. ASSUME NEW c \in Call, Hide(c) \/ HideFails(c) \/ Insert(c) \/ Deliver(c) \/ Fails(c) PROVE CountInv'
  <2>1. UNCHANGED <<contact, group>> /\ \E from : Ends(c, from)
    BY <1>18 DEF Hide, HideFails, Insert, Deliver, Fails, tables
  <2> QED BY <1>2, <1>3, <2>1
<1>19. ASSUME NEW c \in Call, MySession(c) \/ Lookup(c) PROVE CountInv'
  <2>1. UNCHANGED <<contact, group>> /\ \E from, to : Goes(c, from, to) /\ from # "commit" /\ to # "commit"
    BY <1>19 DEF MySession, Lookup, tables
  <2>2. UNCHANGED call \/ \E r : call' = [call EXCEPT ![c] = r]
    BY <1>19 DEF MySession, Lookup
  <2>3. Quiet
    BY <1>0, <2>1, <2>2 DEF Goes, Quiet
  <2> QED BY <1>2, <2>1, <2>3
<1>20. ASSUME NEW c \in Call, TheirSession(c) PROVE CountInv'
  <2>1. UNCHANGED <<contact, group>>
    BY <1>20 DEF TheirSession
  <2>2. CASE call[c].ok
    BY <1>0, <1>2, <1>20, <2>1, <2>2 DEF TheirSession, Goes, Quiet
  <2>3. CASE ~call[c].ok
    BY <1>2, <1>3, <1>20, <2>1, <2>3 DEF TheirSession
  <2> QED BY <2>2, <2>3
<1>21. ASSUME (\E a \in Apply : Reject(a)) \/ \E p \in Pairs : Open(p) PROVE CountInv'
  BY <1>2, <1>21 DEF Reject, Open, Quiet
<1>22. ASSUME UNCHANGED vars PROVE CountInv'
  BY <1>2, <1>22 DEF vars, tables, Quiet
<1> QED
  BY <1>10, <1>11, <1>12, <1>13, <1>14, <1>15, <1>16, <1>17, <1>18, <1>19, <1>20, <1>21, <1>22 DEF Next

(* A user who sorts his contacts in one call at a time never makes the      *)
(* unsigned count of a group fall below the contacts in it, whatever        *)
(* friendships are made and ended by others at the same time.               *)
THEOREM CountCoversHolds ==
  ASSUME Patient
  PROVE  Spec => []CountCovers
<1>1. CountInv => CountCovers
  BY DEF CountInv, CountCovers, Covered, Leaves
<1>2. CountInv /\ [Next]_vars => CountInv'
  BY CountStep
<1> QED BY <1>1, <1>2, CountInit, PTL DEF Spec
=============================================================================
