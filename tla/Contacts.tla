------------------------------ MODULE Contacts ------------------------------
(***************************************************************************)
(* Friends, their applications and the groups a user sorts them into:      *)
(* application/app/contact_service_impl.cpp on                             *)
(* infra/repository/contact_repository_impl.cpp, with the sessions that    *)
(* these calls and SendMessage open and remove.                            *)
(*                                                                         *)
(* A call is a MySQL transaction (external): its first SELECT fixes what   *)
(* it reads, its writes lock their rows until COMMIT. So a call takes a    *)
(* step that reads, then one that writes and commits; what follows the     *)
(* commit (the sessions, each a transaction of its own) are further steps. *)
(* A call that fails before its COMMIT has no effect.                      *)
(*                                                                         *)
(* Remarks, names, sort values and pushes are left out.                    *)
(***************************************************************************)
EXTENDS Naturals, FiniteSets

CONSTANTS User, Group, Apply, Call,
          Pairs,    \* who may have whom as a contact: ordered pairs of users
          Sorters,  \* users who sort their contacts into groups
          Patient,  \* does a user sort them in one call at a time?
          NoUser, NoGroup,
          MaxCount  \* bound on contact_count

ASSUME PairAssumption == Pairs \subseteq User \X User /\ Sorters \subseteq User
                         /\ \A p \in Pairs : p[1] # p[2] /\ <<p[2], p[1]>> \in Pairs
ASSUME NoneAssumption == NoUser \notin User /\ NoGroup \notin Group
ASSUME FiniteAssumption == IsFiniteSet(Pairs) /\ MaxCount \in Nat

VARIABLES contact,  \* im_contact: the row of <<owner, friend>>
          group,    \* im_contact_group: user and contact_count
          apply,    \* im_contact_apply
          talk,     \* im_talk_session: is the talk in the list of <<user, other>>?
          call,     \* what a call was asked and has read
          pc,       \* where it is
          reopened  \* history: talks of deleted contacts that were restored since

tables == <<contact, group, apply, talk>>
vars == <<tables, call, pc, reopened>>

NoCall == [kind |-> "none", pair |-> <<NoUser, NoUser>>, to |-> NoGroup, was |-> NoGroup,
           drop |-> {}, ok |-> FALSE, old |-> FALSE]

Init == /\ contact = [p \in Pairs |-> [state |-> "none", group |-> NoGroup]]
        /\ group = [g \in Group |-> [user |-> NoUser, count |-> 0, gone |-> FALSE]]
        /\ apply = [a \in Apply |-> [pair |-> <<NoUser, NoUser>>, status |-> "none"]]
        /\ talk = [p \in Pairs |-> FALSE]
        /\ call = [c \in Call |-> NoCall]
        /\ pc = [c \in Call |-> "idle"]
        /\ reopened = {}

Back(p) == <<p[2], p[1]>>

(* A group row that exists. *)
There(g) == g \in Group /\ group[g].user # NoUser /\ ~group[g].gone

InGroup(g) == {p \in Pairs : contact[p].group = g}

Sorting == {"move", "delete", "save"}

(* What a call is asked, and the group GetOldGroupId finds. *)
Asked(c, k, p, to, drop) ==
  /\ call' = [call EXCEPT ![c] = [NoCall EXCEPT !.kind = k, !.pair = p, !.to = to, !.drop = drop,
                  !.was = IF k \in {"move", "delete"} THEN contact[p].group ELSE NoGroup]]
  /\ Patient /\ k \in Sorting => \A d \in Call :
       pc[d] = "commit" /\ call[d].kind \in Sorting => call[d].pair[1] # p[1]

Goes(c, from, to) == pc[c] = from /\ pc' = [pc EXCEPT ![c] = to]

Ends(c, from) == Goes(c, from, "idle") /\ call' = [call EXCEPT ![c] = NoCall]

(* Call c restores talks. Only the user himself, or a call that overlapped  *)
(* the deletion, may do that to a deleted contact.                          *)
Restore(c, ps) ==
  /\ talk' = [p \in Pairs |-> talk[p] \/ p \in ps]
  /\ reopened' = reopened \cup {p \in ps : /\ contact[p].state = "deleted"
                                          /\ (call[c].pair[1] = p[1] \/ call[c].old)}

------------------------------------------------------------------------------
(* Groups of contacts *)

(* UpdateContactCount, minus one: contact_count is unsigned, and MySQL      *)
(* fails on contact_count - 1 when it is zero. No row, no effect.           *)
CanDecrement(g) == There(g) => group[g].count > 0

Counted(g, minus, plus) ==
  IF There(g) THEN group[g].count - (IF minus = g THEN 1 ELSE 0) + (IF plus = g THEN 1 ELSE 0)
              ELSE group[g].count

(* ChangeContactGroup and DeleteContact: GetOldGroupId. *)
BeginMove(c, p, g) == /\ pc[c] = "idle"
                      /\ p[1] \in Sorters /\ contact[p].state # "none" /\ There(g)
                      /\ Asked(c, "move", p, g, {})
                      /\ pc' = [pc EXCEPT ![c] = "commit"]
                      /\ UNCHANGED <<tables, reopened>>

(* Mutant: the new group is not counted. *)
MoveUncounted(c) ==
  LET p == call[c].pair
      g == call[c].to
  IN /\ call[c].kind = "move" /\ Ends(c, "commit")
     /\ There(g) /\ CanDecrement(call[c].was) /\ group[g].count < MaxCount
     /\ contact' = [contact EXCEPT ![p].group = g]
     /\ group' = [h \in Group |-> [group[h] EXCEPT !.count = Counted(h, call[c].was, NoGroup)]]
     /\ UNCHANGED <<apply, talk, reopened>>

Move(c) ==
  LET p == call[c].pair
      g == call[c].to
  IN /\ call[c].kind = "move" /\ Ends(c, "commit")
     /\ There(g) /\ CanDecrement(call[c].was) /\ group[g].count < MaxCount
     /\ contact' = [contact EXCEPT ![p].group = g]
     /\ group' = [h \in Group |-> [group[h] EXCEPT !.count = Counted(h, call[c].was, g)]]
     /\ UNCHANGED <<apply, talk, reopened>>

(* SaveContactGroup: the SELECT of the groups of the user; those that are   *)
(* not in the list he saves are to be deleted.                              *)
BeginSave(c, u, keep) ==
  /\ pc[c] = "idle" /\ u \in Sorters
  /\ Asked(c, "save", <<u, NoUser>>, NoGroup, {g \in Group : There(g) /\ group[g].user = u} \ keep)
  /\ pc' = [pc EXCEPT ![c] = "commit"]
  /\ UNCHANGED <<tables, reopened>>

(* The list may name a new group. A group that is deleted leaves no contact *)
(* in it, by RemoveFromGroupByGroupId or by the foreign key.                *)
Save(c) ==
  LET gone == call[c].drop
      u == call[c].pair[1]
  IN /\ call[c].kind = "save" /\ Ends(c, "commit")
     /\ contact' = [p \in Pairs |-> IF contact[p].group \in gone
                                    THEN [contact[p] EXCEPT !.group = NoGroup] ELSE contact[p]]
     /\ \E new \in SUBSET {g \in Group : group[g].user = NoUser} :
          /\ Cardinality(new) <= 1
          /\ group' = [g \in Group |-> IF g \in gone THEN [group[g] EXCEPT !.gone = TRUE]
                                       ELSE IF g \in new THEN [group[g] EXCEPT !.user = u]
                                       ELSE group[g]]
     /\ UNCHANGED <<apply, talk, reopened>>

------------------------------------------------------------------------------
(* DeleteContact *)

BeginDelete(c, p) == /\ pc[c] = "idle" /\ contact[p].state # "none"
                     /\ Asked(c, "delete", p, NoGroup, {})
                     /\ pc' = [pc EXCEPT ![c] = "commit"]
                     /\ UNCHANGED <<tables, reopened>>

(* What the other does under way when the row is deleted.                   *)
Overlapped(c, p) == [d \in Call |->
  IF d # c /\ call[d].kind \in {"agree", "send"} /\ call[d].pair = Back(p)
  THEN [call[d] EXCEPT !.old = TRUE] ELSE call[d]]

(* UpdateContactCount, DeleteContact, UpdateStatusAndRelation and           *)
(* RemoveFromGroup: the row of the caller only.                             *)
Delete(c) ==
  LET p == call[c].pair
  IN /\ call[c].kind = "delete" /\ Goes(c, "commit", "hide")
     /\ CanDecrement(call[c].was)
     /\ contact' = [contact EXCEPT ![p] = [state |-> "deleted", group |-> NoGroup]]
     /\ group' = [g \in Group |-> [group[g] EXCEPT !.count = Counted(g, call[c].was, NoGroup)]]
     /\ call' = Overlapped(c, p)
     /\ reopened' = reopened \ {p}
     /\ UNCHANGED <<apply, talk>>

(* Mutant: the session of the other user is removed. *)
HideTheirs(c) == /\ Ends(c, "hide")
                 /\ talk' = [talk EXCEPT ![Back(call[c].pair)] = FALSE]
                 /\ UNCHANGED <<contact, group, apply, reopened>>

(* DeleteAllMessagesInTalkForUser and deleteSession, for the caller. *)
Hide(c) == /\ Ends(c, "hide")
           /\ talk' = [talk EXCEPT ![call[c].pair] = FALSE]
           /\ UNCHANGED <<contact, group, apply, reopened>>

(* Both fail, and nobody is told. *)
HideFails(c) == /\ Ends(c, "hide")
                /\ reopened' = IF contact[call[c].pair].state = "deleted"
                               THEN reopened \cup {call[c].pair} ELSE reopened
                /\ UNCHANGED <<tables>>

------------------------------------------------------------------------------
(* Applications *)

Pending(p) == {a \in Apply : apply[a].pair = p /\ apply[a].status = "pending"}

(* CreateContactApply: is one pending? There is no transaction. *)
BeginApply(c, p) == /\ pc[c] = "idle" /\ Pending(p) = {}
                    /\ Asked(c, "apply", p, NoGroup, {})
                    /\ pc' = [pc EXCEPT ![c] = "insert"]
                    /\ UNCHANGED <<tables, reopened>>

(* Then it is inserted. *)
Insert(c) == /\ Ends(c, "insert")
             /\ \E a \in Apply : /\ apply[a].status = "none"
                                 /\ apply' = [apply EXCEPT ![a] = [pair |-> call[c].pair, status |-> "pending"]]
             /\ UNCHANGED <<contact, group, talk, reopened>>

(* RejectApply looks at nothing. *)
Reject(a) == /\ apply[a].status # "none"
             /\ apply' = [apply EXCEPT ![a].status = "rejected"]
             /\ UNCHANGED <<contact, group, talk, call, pc, reopened>>

(* Mutant: the two rows are not written in one transaction. *)
AgreeByHalves(c, a) ==
  LET p == Back(apply[a].pair)
  IN /\ pc[c] = "idle" /\ apply[a].status # "none"
     /\ Asked(c, "agree", p, NoGroup, {})
     /\ pc' = [pc EXCEPT ![c] = "mine"]
     /\ apply' = [apply EXCEPT ![a].status = "agreed"]
     /\ \E done \in {{p}, {p, Back(p)}} :
          contact' = [q \in Pairs |-> IF q \in done THEN [state |-> "friend", group |-> NoGroup]
                                     ELSE contact[q]]
     /\ reopened' = reopened \ {p, Back(p)}
     /\ UNCHANGED <<group, talk>>

(* AgreeApply, up to its COMMIT, by the user who was asked: whatever the    *)
(* status of the application, both rows become those of friends, in no      *)
(* group; the counts of the groups they were in stay.                       *)
Agree(c, a) ==
  LET p == Back(apply[a].pair)
  IN /\ pc[c] = "idle" /\ apply[a].status # "none"
     /\ Asked(c, "agree", p, NoGroup, {})
     /\ pc' = [pc EXCEPT ![c] = "mine"]
     /\ apply' = [apply EXCEPT ![a].status = "agreed"]
     /\ contact' = [q \in Pairs |-> IF q \in {p, Back(p)} THEN [state |-> "friend", group |-> NoGroup]
                                    ELSE contact[q]]
     /\ reopened' = reopened \ {p, Back(p)}
     /\ UNCHANGED <<group, talk>>

(* createSession for the caller, which may fail; then for the applicant. *)
MySession(c) ==
  /\ Goes(c, "mine", "theirs")
  /\ \/ /\ Restore(c, {call[c].pair})
        /\ call' = [call EXCEPT ![c].ok = TRUE]
     \/ UNCHANGED <<talk, call, reopened>>
  /\ UNCHANGED <<contact, group, apply>>

TheirSession(c) ==
  /\ IF call[c].ok THEN Goes(c, "theirs", "greet") /\ UNCHANGED call
                   ELSE Ends(c, "theirs")
  /\ \/ Restore(c, {Back(call[c].pair)})
     \/ UNCHANGED <<talk, reopened>>
  /\ UNCHANGED <<contact, group, apply>>

------------------------------------------------------------------------------
(* SendMessage *)

(* GetContactDetail: does the receiver have the sender as a friend? *)
MayDeliver(p) == contact[Back(p)].state = "friend"

BeginSend(c, p) == /\ pc[c] = "idle"
                   /\ Asked(c, "send", p, NoGroup, {})
                   /\ pc' = [pc EXCEPT ![c] = "greet"]
                   /\ UNCHANGED <<tables, reopened>>

Lookup(c) == /\ Goes(c, "greet", "deliver")
             /\ call' = [call EXCEPT ![c].ok = MayDeliver(call[c].pair)]
             /\ UNCHANGED <<tables, reopened>>

(* The sessions it restores, as far as createSession succeeds, and its COMMIT. *)
Deliver(c) ==
  LET p == call[c].pair
      theirs == IF call[c].ok THEN {Back(p)} ELSE {}
  IN /\ Ends(c, "deliver")
     /\ \E restored \in SUBSET ({p} \cup theirs) : Restore(c, restored)
     /\ UNCHANGED <<contact, group, apply>>

(* createSession of the talk service, asked for by the user. *)
Open(p) == /\ talk' = [talk EXCEPT ![p] = TRUE]
           /\ reopened' = IF contact[p].state = "deleted" THEN reopened \cup {p} ELSE reopened
           /\ UNCHANGED <<contact, group, apply, call, pc>>

------------------------------------------------------------------------------
(* A statement or the COMMIT fails. *)
Fails(c) == /\ \E from \in {"commit", "insert", "greet", "deliver"} : Ends(c, from)
            /\ UNCHANGED <<tables, reopened>>

Next == \/ \E c \in Call :
             \/ \E p \in Pairs : \/ BeginDelete(c, p) \/ BeginApply(c, p) \/ BeginSend(c, p)
                                 \/ \E g \in Group : BeginMove(c, p, g)
             \/ \E u \in User, keep \in SUBSET Group : BeginSave(c, u, keep)
             \/ \E a \in Apply : Agree(c, a)
             \/ Move(c) \/ Save(c) \/ Delete(c) \/ Hide(c) \/ HideFails(c) \/ Insert(c)
             \/ MySession(c) \/ TheirSession(c) \/ Lookup(c) \/ Deliver(c) \/ Fails(c)
        \/ \E a \in Apply : Reject(a)
        \/ \E p \in Pairs : Open(p)

Spec == Init /\ [][Next]_vars

------------------------------------------------------------------------------
(* Every variable keeps its type. *)
TypeOK ==
  /\ contact \in [Pairs -> [state : {"none", "friend", "deleted"}, group : Group \cup {NoGroup}]]
  /\ group \in [Group -> [user : User \cup {NoUser}, count : Nat, gone : BOOLEAN]]
  /\ apply \in [Apply -> [pair : Pairs \cup {<<NoUser, NoUser>>},
                          status : {"none", "pending", "agreed", "rejected"}]]
  /\ talk \in [Pairs -> BOOLEAN]
  /\ pc \in [Call -> {"idle", "commit", "hide", "insert", "mine", "theirs", "greet", "deliver"}]
  /\ call \in [Call -> [kind : {"none", "move", "delete", "save", "apply", "agree", "send"},
                        pair : Pairs \cup (User \X {NoUser}) \cup {<<NoUser, NoUser>>},
                        to : Group \cup {NoGroup}, was : Group \cup {NoGroup},
                        drop : SUBSET Group, ok : BOOLEAN, old : BOOLEAN]]
  /\ reopened \subseteq Pairs

(* contact_count is never less than the contacts in the group, those about  *)
(* to be taken out of it included, so that taking one out never fails for   *)
(* an unsigned count below zero (UpdateContactCount). It holds as long as a *)
(* user sorts his contacts in one call at a time (Patient).                 *)
CountCovers == \A g \in Group : There(g) =>
  LET leaving == {call[c].pair : c \in {d \in Call : /\ pc[d] = "commit" /\ call[d].was = g
                                                    /\ call[d].kind \in {"move", "delete"}}}
  IN Cardinality(InGroup(g) \cup leaving) <= group[g].count

(* Who deletes a contact is rid of the talk: it is not in his list, and     *)
(* nothing the other does brings it back, unless it was begun before, or    *)
(* hiding the talk failed (SendMessage asks the contacts of the receiver).  *)
DeletedIsGone == \A p \in Pairs :
  /\ contact[p].state = "deleted" /\ talk[p]
  => \/ p \in reopened
     \/ \E c \in Call : pc[c] = "hide" /\ call[c].pair = p

(* A friendship is never one-sided from the start: whoever has a friend is  *)
(* in the contacts of that friend, deleted perhaps (AgreeApply).            *)
NoOneWay == \A p \in Pairs : contact[p].state = "friend" => contact[Back(p)].state # "none"
=============================================================================
