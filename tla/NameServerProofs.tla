-------------------------- MODULE NameServerProofs --------------------------
(***************************************************************************)
(* Proofs about NameServer for any streams, nodes, commands and calls.     *)
(***************************************************************************)
EXTENDS NameServer, TLAPS

Infos == Offers \cup {NoInfo}
Weights == {o.weight : o \in Offers}

Jobs == [stream : Stream \cup {Nil}, fiber : BOOLEAN, new : Infos, old : Infos,
         dels : SUBSET Cmd, news : SUBSET Cmd, comms : SUBSET Cmd,
         d : Call \cup {Nil}, c : Cmd \cup {Nil}, ns : Call \cup {Nil}]

(* The points of set() between its diff and its store, and all points of a call. *)
Working == {"dels", "news", "comms", "create", "del", "delnode", "delsize", "delset",
            "add", "addset", "addnode", "store"}
Points == Working \cup {"new", "validate", "reject", "connected", "old", "close", "done"}

(* A call between its diff and its store. *)
Changing(j) == pc[j] \in Working

(* What the local variables k hold where a call uses them. *)
LocalsAt(k, at) ==
  /\ at \notin {"new", "done"} => k.stream \in Stream
  /\ at \in {"del", "delnode", "delsize", "delset", "add", "addset", "addnode"} => k.d \in Call
  /\ at \in {"delnode", "delsize", "delset"} => k.c \in k.dels /\ k.ns \in Call
  /\ at \in {"addset", "addnode"} => k.c \in k.news \cup k.comms
  /\ at = "addnode" => k.ns \in Call
  /\ at \in {"dels", "del"} => k.dels # {}
  /\ at \in {"validate", "reject", "connected", "old"} => k.old = NoInfo
  /\ at = "store" => k.dels = {} /\ k.news = {} /\ k.comms = {}
  /\ at \in Working => /\ k.dels \subseteq k.old.cmds \ k.new.cmds
                       /\ k.news \subseteq k.new.cmds \ k.old.cmds
                       /\ k.comms \subseteq k.old.cmds \cap k.new.cmds

(* What a query holds. *)
QueryLocals == query.at = "sets" => query.d \in Call

TypeInv == TypeOK /\ QueryLocals /\ \A j \in Call : LocalsAt(job[j], pc[j])

(* Calls that overlap set different streams and different nodes, and no two  *)
(* sessions have a node in common.                                           *)
Apart ==
  /\ \A j, k \in Call : Setting(j) /\ Setting(k) /\ j # k =>
       /\ job[j].stream # job[k].stream
       /\ job[j].new # NoInfo => job[j].new.node \notin {job[k].new.node, job[k].old.node}
  /\ \A j \in Call, t \in Stream : Setting(j) /\ t # job[j].stream /\ job[j].new # NoInfo =>
       session[t].node # job[j].new.node
  /\ \A s, t \in Stream : s # t /\ session[s] # NoInfo => session[s].node # session[t].node

(* While a call changes the tables, the session is what diff() has seen, and *)
(* the two infos it has compared are of one node.                            *)
Compared ==
  \A j \in Call : Changing(j) =>
    /\ session[job[j].stream] = job[j].old
    /\ job[j].old # NoInfo /\ job[j].new # NoInfo => job[j].old.node = job[j].new.node

(* There is one domain, and a set that has left it is empty. *)
Tidy ==
  /\ \A d \in Call, c \in Cmd : sets[d][c] # Nil => d = root
  /\ \A x \in Call, c \in Cmd, n \in Node : nodes[<<x, c>>][n] # 0 => root # Nil /\ sets[root][c] = x
  /\ \A j \in Call : job[j].d \in {Nil, root}

(* The set that a deletion has found is the one that holds the node. *)
Found ==
  \A j \in Call : pc[j] = "delnode" =>
    \A x \in Call \ {job[j].ns} : nodes[<<x, job[j].c>>][job[j].old.node] = 0

(* The commands from which the call has still to take the old entry. *)
Left(j) == job[j].comms \cup (IF pc[j] \in {"delsize", "delset"} THEN job[j].dels \ {job[j].c} ELSE job[j].dels)

(* A stream whose session no call is changing. *)
Settled(s) == \A j \in Call : Changing(j) => job[j].stream # s

(* Everything that is registered is listed, ... *)
Complete ==
  /\ \A s \in Stream : Settled(s) => Entries(session[s]) \subseteq Listed
  /\ \A j \in Call : Changing(j) =>
       {<<c, job[j].new.node, job[j].new.weight>> : c \in job[j].new.cmds \ (job[j].news \cup job[j].comms)}
         \subseteq Listed

(* ... and everything that is listed is registered, or belongs to a change. *)
Sound ==
  \A e \in Listed :
    \/ \E s \in Stream : Settled(s) /\ e \in Entries(session[s])
    \/ \E j \in Call : /\ Changing(j)
                       /\ e \in Entries(job[j].new) \/ (e \in Entries(job[j].old) /\ e[1] \in Left(j))

Exact == raced \/ (Apart /\ Compared /\ Tidy /\ Found /\ Complete /\ Sound)

(* A query that reads the sets has still to read the set of every entry that *)
(* has been listed since it began and that it has not got yet.               *)
Watching ==
  query.at # "none" =>
    /\ query.always \subseteq Listed /\ Listed \subseteq query.ever
    /\ query.got \subseteq query.ever
    /\ query.at \in {"domain", "sets"} => query.got = {}
    /\ query.at = "sets" => query.d = root
    /\ query.at = "nodes" => \A e \in query.always \ query.got : <<sets[root][e[1]], e[1]>> \in query.todo
    /\ query.at = "answer" => query.always \subseteq query.got

Regular == raced \/ Watching
------------------------------------------------------------------------------
(* Types *)

LEMMA InfoTypes ==
  /\ NoInfo \in Infos /\ Nil \notin Stream \cup Node \cup Cmd \cup Call /\ Weights \subseteq Nat \ {0}
  /\ \A i \in Infos : /\ i.cmds \subseteq Cmd /\ i.node \in Node \cup {Nil} /\ i.weight \in Weights \cup {0}
                      /\ i.cmds # {} <=> i # NoInfo
                      /\ i # NoInfo => i.node \in Node /\ i.weight \in Weights
<1> USE OffersAssumption, NilAssumption DEF Infos, Weights, NoInfo
<1>1. \A i \in Offers : i.cmds \subseteq Cmd /\ i.cmds # {} /\ i.node \in Node /\ i.weight \in Nat \ {0}
  OBVIOUS
<1>2. Nil \notin Stream \cup Node \cup Cmd \cup Call
  OBVIOUS
<1>3. Weights \subseteq Nat \ {0}
  BY <1>1
<1>4. \A i \in Offers : i # NoInfo
  BY <1>1
<1> QED BY <1>1, <1>2, <1>3, <1>4

LEMMA Types ==
  TypeOK <=> /\ open \in [Stream -> BOOLEAN] /\ session \in [Stream -> Infos]
             /\ root \in Call \cup {Nil} /\ sets \in [Call -> [Cmd -> Call \cup {Nil}]]
             /\ nodes \in [Call \X Cmd -> [Node -> Weights \cup {0}]]
             /\ job \in [Call -> Jobs] /\ pc \in [Call -> Points]
             /\ query \in [at : {"none", "domain", "sets", "nodes", "answer"}, d : Call \cup {Nil},
                           todo : SUBSET (Call \X Cmd), got : SUBSET (Cmd \X Node \X Weights),
                           always : SUBSET (Cmd \X Node \X Weights), ever : SUBSET (Cmd \X Node \X Weights)]
             /\ dropped \subseteq Stream /\ raced \in BOOLEAN
<1>1. (Weights \cup {0}) \ {0} = Weights
  BY InfoTypes
<1> QED BY <1>1 DEF TypeOK, Jobs, Infos, Weights, Points, Working

(* A call goes on with the local variables k. *)
GoesWith(j, k, to) == /\ job' = [job EXCEPT ![j] = k] /\ pc' = [pc EXCEPT ![j] = to]
                      /\ k \in Jobs /\ to \in Points /\ LocalsAt(k, to)

LEMMA RestIs ==
  ASSUME NEW k \in Jobs
  PROVE  \/ Rest(k) = "dels" /\ k.dels # {}
         \/ Rest(k) = "news" /\ k.dels = {} /\ k.news # {}
         \/ Rest(k) = "comms" /\ k.dels = {} /\ k.news = {} /\ k.comms # {}
         \/ Rest(k) = "store" /\ k.dels = {} /\ k.news = {} /\ k.comms = {}
BY DEF Rest

(* The three loops take one command after the other. *)
LEMMA ThroughGoes ==
  ASSUME TypeInv, NEW j \in Call, Through(j), pc[j] \in {"delsize", "delset", "addnode"}
  PROVE  \E k \in Jobs, to \in Points :
           /\ GoesWith(j, k, to) /\ to \in {"dels", "news", "comms", "store", "del", "add"}
           /\ k.stream = job[j].stream /\ k.fiber = job[j].fiber /\ k.new = job[j].new /\ k.old = job[j].old
           /\ k.dels = job[j].dels \ {job[j].c} /\ k.news = job[j].news \ {job[j].c}
           /\ k.comms = job[j].comms \ {job[j].c} /\ k.d \in {Nil, job[j].d}
<1> DEFINE c == job[j].c
           k0 == [job[j] EXCEPT !.dels = @ \ {c}, !.news = @ \ {c}, !.comms = @ \ {c}, !.c = Nil, !.ns = Nil]
           same == Rest(k0) = Rest(job[j])
           k == IF same THEN k0 ELSE [k0 EXCEPT !.d = Nil]
           to == IF ~same THEN Rest(k0) ELSE IF k0.dels # {} THEN "del" ELSE "add"
<1>1. job[j] \in Jobs /\ LocalsAt(job[j], pc[j]) /\ job[j].d \in Call
  BY Types DEF TypeInv, LocalsAt
<1>2. k0 \in Jobs /\ k \in Jobs
  BY <1>1 DEF Jobs
<1>3. /\ k.stream = job[j].stream /\ k.fiber = job[j].fiber /\ k.new = job[j].new /\ k.old = job[j].old
      /\ k.dels = job[j].dels \ {c} /\ k.news = job[j].news \ {c} /\ k.comms = job[j].comms \ {c}
      /\ k.d \in {Nil, job[j].d} /\ (same => k.d = job[j].d)
      /\ k0.dels = k.dels /\ k0.news = k.news /\ k0.comms = k.comms
  BY <1>1 DEF Jobs
<1>4. job' = [job EXCEPT ![j] = k] /\ pc' = [pc EXCEPT ![j] = to]
  BY DEF Through, Goes
<1>5. to \in {"dels", "news", "comms", "store", "del", "add"}
  BY <1>2, RestIs
<1>6. /\ to = "dels" => k.dels # {}
      /\ to = "del" => k.dels # {} /\ same
      /\ to = "add" => same
      /\ to = "store" => k.dels = {} /\ k.news = {} /\ k.comms = {}
  BY <1>2, <1>3, RestIs
<1> HIDE DEF k, to, k0, same
<1>7. LocalsAt(k, to)
  BY <1>1, <1>3, <1>5, <1>6 DEF LocalsAt, Working
<1> QED BY <1>2, <1>3, <1>4, <1>5, <1>7 DEF GoesWith, Points, Working

(* Every step of a call takes it to a point whose needs its variables meet. *)
LEMMA CallGoes ==
  ASSUME TypeInv, NEW j \in Call, Handle(j) \/ \E s \in Stream : Disconnect(j, s) \/ \E o \in Infos : Register(j, s, o)
  PROVE  \E k \in Jobs, to \in Points : GoesWith(j, k, to)
<1> DEFINE J == job[j]
<1>0. J \in Jobs /\ LocalsAt(J, pc[j]) /\ job \in [Call -> Jobs] /\ pc \in [Call -> Points]
      /\ session \in [Stream -> Infos] /\ root \in Call \cup {Nil} /\ sets \in [Call -> [Cmd -> Call \cup {Nil}]]
  BY Types DEF TypeInv
<1>01. Blank \in Jobs /\ job[j] = J /\ LocalsAt(Blank, "done")
  BY InfoTypes DEF Blank, Jobs, LocalsAt, Working
<1> HIDE DEF J
<1>1. ASSUME NEW s \in Stream, NEW o \in Infos, Register(j, s, o) PROVE \E k \in Jobs, to \in Points : GoesWith(j, k, to)
  <2>1. [Blank EXCEPT !.stream = s, !.new = o] \in Jobs
    BY <1>01 DEF Jobs
  <2>2. LocalsAt([Blank EXCEPT !.stream = s, !.new = o], "validate")
    BY DEF LocalsAt, Blank, Working
  <2> QED BY <1>1, <2>1, <2>2 DEF Register, Goes, GoesWith, Points
<1>2. ASSUME NEW s \in Stream, Disconnect(j, s) PROVE \E k \in Jobs, to \in Points : GoesWith(j, k, to)
  <2>1. [Blank EXCEPT !.stream = s, !.fiber = TRUE] \in Jobs
    BY <1>01 DEF Jobs
  <2>2. LocalsAt([Blank EXCEPT !.stream = s, !.fiber = TRUE], "connected")
    BY DEF LocalsAt, Blank, Working
  <2> QED BY <1>2, <2>1, <2>2 DEF Disconnect, Goes, GoesWith, Points
<1>3. CASE Validate(j)
  <2>1. job' = [job EXCEPT ![j] = J] /\ \E to \in {"reject", "connected"} : pc' = [pc EXCEPT ![j] = to]
    BY <1>3, <1>0, <1>01 DEF Validate, Goes
  <2>2. \A to \in {"reject", "connected"} : LocalsAt(J, to)
    BY <1>3, <1>0 DEF Validate, At, LocalsAt, Working
  <2> QED BY <1>0, <2>1, <2>2 DEF GoesWith, Points
<1>4. CASE Reject(j)
  BY <1>4, <1>01 DEF Reject, Ends, Goes, GoesWith, Points
<1>5. CASE Connected(j)
  <2> DEFINE new == IF open[J.stream] THEN J.new ELSE NoInfo
  <2>1. [J EXCEPT !.new = new] \in Jobs
    BY <1>0, InfoTypes DEF Jobs
  <2>2. LocalsAt([J EXCEPT !.new = new], "old")
    BY <1>0, <1>5 DEF LocalsAt, Working, Jobs, Connected, At
  <2>3. job' = [job EXCEPT ![j] = [J EXCEPT !.new = new]] /\ pc' = [pc EXCEPT ![j] = "old"]
    BY <1>5, <1>0, <1>01 DEF Connected, Goes
  <2> QED BY <2>1, <2>2, <2>3 DEF GoesWith, Points
<1>6. CASE Diff(j)
  <2> DEFINE old == session[J.stream]
             k == [J EXCEPT !.old = old, !.dels = old.cmds \ J.new.cmds, !.news = J.new.cmds \ old.cmds,
                            !.comms = IF old.weight # J.new.weight THEN old.cmds \cap J.new.cmds ELSE {}]
  <2>1. J.stream \in Stream /\ J.new \in Infos /\ old \in Infos
    BY <1>0, <1>6 DEF LocalsAt, Diff, At, Jobs
  <2>2. k \in Jobs
    BY <1>0, <2>1, InfoTypes DEF Jobs
  <2>3. job' = [job EXCEPT ![j] = k] /\ pc' = [pc EXCEPT ![j] = Rest(k)]
    BY <1>6, <1>0, <1>01 DEF Diff, Goes
  <2>4. /\ k.stream = J.stream /\ k.new = J.new /\ k.old = old /\ k.dels = old.cmds \ J.new.cmds
        /\ k.news = J.new.cmds \ old.cmds /\ k.comms \subseteq old.cmds \cap J.new.cmds
    BY <1>0 DEF Jobs
  <2> HIDE DEF k
  <2>5. LocalsAt(k, Rest(k)) /\ Rest(k) \in Points
    BY <2>1, <2>2, <2>4, RestIs DEF LocalsAt, Points, Working
  <2> QED BY <2>2, <2>3, <2>5 DEF GoesWith
<1>7. CASE FindDomain(j)
  <2> DEFINE skip == root = Nil /\ pc[j] = "dels"
             k == [J EXCEPT !.d = root, !.dels = IF skip THEN {} ELSE @]
             to == IF skip THEN Rest(k) ELSE IF pc[j] = "dels" THEN "del" ELSE IF root = Nil THEN "create" ELSE "add"
  <2>1. k \in Jobs
    BY <1>0 DEF Jobs
  <2>2. job' = [job EXCEPT ![j] = k] /\ pc' = [pc EXCEPT ![j] = to]
    BY <1>7, <1>0, <1>01 DEF FindDomain, Goes
  <2>3. /\ k.stream = J.stream /\ k.new = J.new /\ k.old = J.old /\ k.dels \subseteq J.dels /\ (skip => k.dels = {})
        /\ k.news = J.news /\ k.comms = J.comms /\ k.d = root /\ (~skip => k.dels = J.dels)
    BY <1>0 DEF Jobs
  <2>4. /\ pc[j] \in {"dels", "news", "comms"} /\ (to \in {"del", "add"} => root \in Call)
        /\ to \in {"dels", "del"} => k.dels # {}
        /\ to = "store" => k.dels = {} /\ k.news = {} /\ k.comms = {}
        /\ to \in {"del", "add", "create", "dels", "news", "comms", "store"}
    BY <1>7, <1>0, <2>1, <2>3, RestIs DEF FindDomain, LocalsAt
  <2> HIDE DEF k, to, skip
  <2>5. LocalsAt(k, to) /\ to \in Points
    BY <1>0, <2>3, <2>4 DEF LocalsAt, Points, Working
  <2> QED BY <2>1, <2>2, <2>5 DEF GoesWith
<1>8. CASE CreateDomain(j)
  <2>1. [J EXCEPT !.d = j] \in Jobs
    BY <1>0 DEF Jobs
  <2>2. job' = [job EXCEPT ![j] = [J EXCEPT !.d = j]] /\ pc' = [pc EXCEPT ![j] = "add"] /\ pc[j] = "create"
    BY <1>8, <1>0, <1>01 DEF CreateDomain, Goes, At
  <2>3. LocalsAt([J EXCEPT !.d = j], "add")
    BY <1>0, <2>2 DEF LocalsAt, Working, Jobs
  <2> QED BY <2>1, <2>2, <2>3 DEF GoesWith, Points, Working
<1>9. ASSUME NEW c \in Cmd, DelFind(j, c) PROVE \E k \in Jobs, to \in Points : GoesWith(j, k, to)
  <2> DEFINE k == [J EXCEPT !.c = c, !.ns = sets[J.d][c]]
             without == [k EXCEPT !.dels = @ \ {c}]
             k1 == IF k.ns = Nil THEN without ELSE k
             to == IF k.ns # Nil THEN "delnode" ELSE IF without.dels = {} THEN Rest(without) ELSE "del"
  <2>1. pc[j] = "del" /\ c \in J.dels /\ J.d \in Call /\ sets[J.d][c] \in Call \cup {Nil}
    BY <1>9, <1>0, <1>01 DEF DelFind, At, LocalsAt
  <2>2. k \in Jobs /\ without \in Jobs
    BY <1>0, <2>1 DEF Jobs
  <2>3. job' = [job EXCEPT ![j] = k1] /\ pc' = [pc EXCEPT ![j] = to]
    BY <1>9, <1>0, <1>01 DEF DelFind, Goes
  <2>4. /\ k1.stream = J.stream /\ k1.new = J.new /\ k1.old = J.old /\ k1.news = J.news /\ k1.comms = J.comms
        /\ k1.d = J.d /\ k1.dels \subseteq J.dels /\ k1.c = c
        /\ k.ns = sets[J.d][c] /\ k1.ns = k.ns /\ (k.ns # Nil => k1.dels = J.dels)
        /\ (k.ns = Nil => k1.dels = without.dels /\ k1 = without)
    BY <1>0 DEF Jobs
  <2>5. /\ to = "delnode" => k1.ns \in Call /\ k1.c \in k1.dels
        /\ to \in {"dels", "del"} => k1.dels # {}
        /\ to = "store" => k1.dels = {} /\ k1.news = {} /\ k1.comms = {}
        /\ to \in {"delnode", "del", "dels", "news", "comms", "store"}
    BY <2>1, <2>2, <2>4, RestIs
  <2> HIDE DEF k1, to, without, k
  <2>6. LocalsAt(k1, to) /\ to \in Points
    BY <1>0, <2>1, <2>4, <2>5 DEF LocalsAt, Points, Working
  <2>7. k1 \in Jobs
    BY <2>2 DEF k1
  <2> QED BY <2>3, <2>6, <2>7 DEF GoesWith
<1>10. ASSUME NEW c \in Cmd, AddFind(j, c) PROVE \E k \in Jobs, to \in Points : GoesWith(j, k, to)
  <2> DEFINE k == [J EXCEPT !.c = c, !.ns = sets[J.d][c]]
             to == IF sets[J.d][c] = Nil THEN "addset" ELSE "addnode"
  <2>1. pc[j] = "add" /\ c \in J.news \cup J.comms /\ J.d \in Call /\ sets[J.d][c] \in Call \cup {Nil}
    BY <1>10, <1>0, <1>01 DEF AddFind, At, LocalsAt
  <2>2. k \in Jobs
    BY <1>0, <2>1 DEF Jobs
  <2>3. job' = [job EXCEPT ![j].c = c, ![j].ns = sets[J.d][c]] /\ pc' = [pc EXCEPT ![j] = to]
    BY <1>10, <1>0, <1>01 DEF AddFind, Goes
  <2>31. job' = [job EXCEPT ![j] = k]
    BY <2>3, <1>0, <1>01 DEF Jobs
  <2>4. LocalsAt(k, to)
    BY <1>0, <2>1 DEF LocalsAt, Working, Jobs
  <2> QED BY <2>2, <2>3, <2>31, <2>4 DEF GoesWith, Points, Working
<1>11. CASE DelNode(j)
  <2>1. pc[j] = "delnode" /\ job' = [job EXCEPT ![j] = J] /\ pc' = [pc EXCEPT ![j] = "delsize"]
    BY <1>11, <1>0, <1>01 DEF DelNode, Goes, At
  <2>2. LocalsAt(J, "delsize")
    BY <1>0, <2>1 DEF LocalsAt, Working
  <2> QED BY <1>0, <2>1, <2>2 DEF GoesWith, Points, Working
<1>12. CASE DelSize(j)
  <2>1. CASE Goes(j, "delset") /\ UNCHANGED job
    <3>1. pc[j] = "delsize" /\ job' = [job EXCEPT ![j] = J] /\ pc' = [pc EXCEPT ![j] = "delset"]
      BY <1>12, <2>1, <1>0, <1>01 DEF DelSize, Goes, At
    <3>2. LocalsAt(J, "delset")
      BY <1>0, <3>1 DEF LocalsAt, Working
    <3> QED BY <1>0, <3>1, <3>2 DEF GoesWith, Points, Working
  <2>2. CASE Through(j)
    BY <1>12, <2>2, ThroughGoes DEF DelSize, At
  <2> QED BY <1>12, <2>1, <2>2 DEF DelSize
<1>13. CASE DelSet(j)
  BY <1>13, ThroughGoes DEF DelSet, At
<1>14. CASE AddSet(j)
  <2>1. pc[j] = "addset" /\ job' = [job EXCEPT ![j].ns = j] /\ pc' = [pc EXCEPT ![j] = "addnode"]
    BY <1>14 DEF AddSet, Goes, At
  <2>2. job' = [job EXCEPT ![j] = [J EXCEPT !.ns = j]] /\ [J EXCEPT !.ns = j] \in Jobs
    BY <2>1, <1>0, <1>01 DEF Jobs
  <2>3. LocalsAt([J EXCEPT !.ns = j], "addnode")
    BY <1>0, <2>1 DEF LocalsAt, Working, Jobs
  <2> QED BY <2>1, <2>2, <2>3 DEF GoesWith, Points, Working
<1>15. CASE AddNode(j)
  BY <1>15, ThroughGoes DEF AddNode, At
<1>16. CASE Store(j)
  <2>1. CASE Goes(j, "close") /\ UNCHANGED job
    <3>1. pc[j] = "store" /\ job' = [job EXCEPT ![j] = J] /\ pc' = [pc EXCEPT ![j] = "close"]
      BY <1>16, <2>1, <1>0, <1>01 DEF Store, Goes, At
    <3>2. LocalsAt(J, "close")
      BY <1>0, <3>1 DEF LocalsAt, Working
    <3> QED BY <1>0, <3>1, <3>2 DEF GoesWith, Points
  <2>2. CASE Ends(j)
    BY <2>2, <1>01 DEF Ends, Goes, GoesWith, Points
  <2> QED BY <1>16, <2>1, <2>2 DEF Store
<1>17. CASE Close(j)
  BY <1>17, <1>01 DEF Close, Ends, Goes, GoesWith, Points
<1> QED
  BY <1>1, <1>2, <1>3, <1>4, <1>5, <1>6, <1>7, <1>8, <1>9, <1>10, <1>11, <1>12, <1>13, <1>14, <1>15, <1>16, <1>17
  DEF Handle, Set

LEMMA TypeInit == Init => TypeInv
<1> SUFFICES ASSUME Init PROVE TypeInv
  OBVIOUS
<1>1. Blank \in Jobs /\ NoInfo \in Infos /\ LocalsAt(Blank, "new")
  BY InfoTypes DEF Blank, Jobs, LocalsAt, Working
<1>2. TypeOK
  <2>1. nodes \in [Call \X Cmd -> [Node -> Weights \cup {0}]]
    BY DEF Init
  <2>2. query \in [at : {"none", "domain", "sets", "nodes", "answer"}, d : Call \cup {Nil},
                   todo : SUBSET (Call \X Cmd), got : SUBSET (Cmd \X Node \X Weights),
                   always : SUBSET (Cmd \X Node \X Weights), ever : SUBSET (Cmd \X Node \X Weights)]
    BY DEF Init, NoQuery
  <2> QED BY <1>1, <2>1, <2>2, Types DEF Init, Points
<1> QED BY <1>1, <1>2 DEF Init, TypeInv, QueryLocals, NoQuery

(* The tables, the sessions and the history keep their types. *)
LEMMA TableTypes ==
  ASSUME TypeInv, NEW j \in Call, Handle(j) \/ \E s \in Stream : Disconnect(j, s) \/ \E o \in Infos : Register(j, s, o)
  PROVE  /\ open' \in [Stream -> BOOLEAN] /\ session' \in [Stream -> Infos]
         /\ root' \in Call \cup {Nil} /\ sets' \in [Call -> [Cmd -> Call \cup {Nil}]]
         /\ nodes' \in [Call \X Cmd -> [Node -> Weights \cup {0}]]
         /\ dropped' \subseteq Stream /\ raced' \in BOOLEAN
<1>0. /\ open \in [Stream -> BOOLEAN] /\ session \in [Stream -> Infos]
      /\ root \in Call \cup {Nil} /\ sets \in [Call -> [Cmd -> Call \cup {Nil}]]
      /\ nodes \in [Call \X Cmd -> [Node -> Weights \cup {0}]]
      /\ dropped \subseteq Stream /\ raced \in BOOLEAN
      /\ job[j] \in Jobs /\ LocalsAt(job[j], pc[j])
  BY Types DEF TypeInv
<1>1. CASE Reject(j)
  <2>1. job[j].stream \in Stream
    BY <1>0, <1>1 DEF Reject, At, LocalsAt
  <2> QED BY <1>0, <1>1, <2>1 DEF Reject, tables
<1>2. CASE Store(j)
  BY <1>0, <1>2 DEF Store, tables, Jobs
<1>3. CASE Close(j)
  BY <1>0, <1>3 DEF Close, tables
<1>4. CASE CreateDomain(j)
  BY <1>0, <1>4 DEF CreateDomain
<1>5. CASE DelNode(j)
  <2>1. nodes' \in [Call \X Cmd -> [Node -> Weights \cup {0}]]
    BY <1>0, <1>5 DEF DelNode
  <2> QED BY <1>0, <1>5, <2>1 DEF DelNode
<1>6. CASE DelSet(j)
  <2>1. sets' \in [Call -> [Cmd -> Call \cup {Nil}]]
    BY <1>0, <1>6 DEF DelSet
  <2>2. raced' \in BOOLEAN
    BY <1>6, ZenonT(20) DEF DelSet
  <2> QED BY <1>0, <1>6, <2>1, <2>2 DEF DelSet
<1>7. CASE AddSet(j)
  <2>1. sets' \in [Call -> [Cmd -> Call \cup {Nil}]]
    BY <1>0, <1>7 DEF AddSet
  <2> QED BY <1>0, <1>7, <2>1 DEF AddSet
<1>8. CASE AddNode(j)
  <2>1. job[j].new.weight \in Weights \cup {0}
    BY <1>0, InfoTypes DEF Jobs
  <2>2. nodes' \in [Call \X Cmd -> [Node -> Weights \cup {0}]]
    BY <1>0, <1>8, <2>1 DEF AddNode
  <2> QED BY <1>0, <1>8, <2>2 DEF AddNode
<1>9. CASE Connected(j) \/ Diff(j)
  BY <1>0, <1>9 DEF Connected, Diff, tables
<1>10. CASE \/ Validate(j) \/ FindDomain(j) \/ DelSize(j)
            \/ \E c \in Cmd : DelFind(j, c) \/ AddFind(j, c)
            \/ \E s \in Stream : Disconnect(j, s) \/ \E o \in Infos : Register(j, s, o)
  BY <1>0, <1>10 DEF Validate, FindDomain, DelSize, DelFind, AddFind, Disconnect, Register, tables
<1> QED BY <1>1, <1>2, <1>3, <1>4, <1>5, <1>6, <1>7, <1>8, <1>9, <1>10 DEF Handle, Set

(* What one of the steps of calls is. *)
CallStep(j) == Handle(j) \/ \E s \in Stream : Disconnect(j, s) \/ \E o \in Infos : Register(j, s, o)

LEMMA Steps ==
  ASSUME Next
  PROVE  HandleQuery \/ (Watched /\ \E j \in Call : CallStep(j))
BY DEF Next, Clients, CallStep, Infos

LEMMA TypeStep == TypeInv /\ [Next]_vars => TypeInv'
<1> SUFFICES ASSUME TypeInv, [Next]_vars PROVE TypeInv'
  OBVIOUS
<1> DEFINE Entry == Cmd \X Node \X Weights
<1>0. Listed \subseteq Entry /\ Listed' \subseteq Entry
  BY DEF Listed, Weights
<1>01. query \in [at : {"none", "domain", "sets", "nodes", "answer"}, d : Call \cup {Nil},
                  todo : SUBSET (Call \X Cmd), got : SUBSET Entry, always : SUBSET Entry, ever : SUBSET Entry]
  BY Types DEF TypeInv
<1> DEFINE QueryType == query' \in [at : {"none", "domain", "sets", "nodes", "answer"}, d : Call \cup {Nil},
                                    todo : SUBSET (Call \X Cmd), got : SUBSET Entry,
                                    always : SUBSET Entry, ever : SUBSET Entry]
<1>1. ASSUME NEW j \in Call, CallStep(j), Watched PROVE TypeInv'
  <2>1. PICK k \in Jobs, to \in Points : GoesWith(j, k, to)
    BY <1>1, CallGoes DEF CallStep
  <2>2. /\ job' \in [Call -> Jobs] /\ pc' \in [Call -> Points]
        /\ \A i \in Call : LocalsAt(job'[i], pc'[i])
    BY <2>1, Types DEF GoesWith, TypeInv
  <2>3. QueryType /\ (query'.at = "sets" => query'.d \in Call)
    <3>1. query' = query \/ query' = [query EXCEPT !.always = @ \cap Listed', !.ever = @ \cup Listed']
      BY <1>1 DEF Watched
    <3> HIDE DEF Entry
    <3> QED BY <3>1, <1>0, <1>01 DEF TypeInv, QueryLocals
  <2>4. TypeOK'
    <3>1. /\ open' \in [Stream -> BOOLEAN] /\ session' \in [Stream -> Infos]
          /\ root' \in Call \cup {Nil} /\ sets' \in [Call -> [Cmd -> Call \cup {Nil}]]
          /\ nodes' \in [Call \X Cmd -> [Node -> Weights \cup {0}]]
          /\ dropped' \subseteq Stream /\ raced' \in BOOLEAN
      BY <1>1, TableTypes DEF CallStep
    <3>2. (Weights \cup {0}) \ {0} = Weights
      BY InfoTypes
    <3>3. job' \in [Call -> Jobs] /\ pc' \in [Call -> Points]
      BY <2>2
    <3> HIDE DEF Entry
    <3>4. Entry = Cmd \X Node \X ((Weights \cup {0}) \ {0})
      BY <3>2 DEF Entry
    <3> QED BY <2>3, <3>1, <3>3, <3>4 DEF TypeOK, Jobs, Infos, Weights, Points, Working
  <2> QED BY <2>2, <2>3, <2>4 DEF TypeInv, QueryLocals
<1>2. ASSUME HandleQuery PROVE TypeInv'
  <2>0. UNCHANGED <<open, session, tables, job, pc, dropped, raced>>
    BY <1>2 DEF HandleQuery, Query, QueryDomain, QuerySets, Answer, QueryNodes, Asks
  <2>1. QueryType /\ (query'.at = "sets" => query'.d \in Call)
    <3>1. CASE Query
      <4>1. query' = [NoQuery EXCEPT !.at = "domain", !.always = Listed, !.ever = Listed]
        BY <3>1 DEF Query, Asks
      <4>2. /\ query'.at = "domain" /\ query'.d = Nil /\ query'.todo = {} /\ query'.got = {}
            /\ query' = [at |-> "domain", d |-> Nil, todo |-> {}, got |-> {}, always |-> Listed, ever |-> Listed]
        BY <4>1 DEF NoQuery
      <4> QED BY <4>2, <1>0
    <3>2. CASE QueryDomain
      BY <3>2, <1>01, Types DEF QueryDomain, Asks, TypeInv
    <3>3. CASE QuerySets
      <4>1. PICK at \in {"answer", "nodes"}, todo \in SUBSET (Call \X Cmd) : query' = [query EXCEPT !.at = at, !.todo = todo]
        BY <3>3 DEF QuerySets, Asks
      <4> QED BY <4>1, <1>01
    <3>4. ASSUME NEW x \in query.todo, QueryNodes(x) PROVE QueryType /\ (query'.at = "sets" => query'.d \in Call)
      <4> DEFINE new == {<<x[2], n, nodes[x][n]>> : n \in {n \in Node : nodes[x][n] # 0}}
      <4>1. x \in Call \X Cmd /\ nodes \in [Call \X Cmd -> [Node -> Weights \cup {0}]]
        BY <1>01, Types DEF TypeInv
      <4>2. new \subseteq Entry
        BY <4>1
      <4>3. PICK at \in {"answer", "nodes"} : query' = [query EXCEPT !.at = at, !.todo = @ \ {x}, !.got = @ \cup new]
        BY <3>4 DEF QueryNodes, Asks
      <4> HIDE DEF new, Entry
      <4> QED BY <4>2, <4>3, <1>01
    <3>5. CASE Answer
      BY <3>5 DEF Answer, Asks, NoQuery
    <3> QED BY <1>2, <3>1, <3>2, <3>3, <3>4, <3>5 DEF HandleQuery
  <2>2. TypeOK'
    <3>2. (Weights \cup {0}) \ {0} = Weights
      BY InfoTypes
    <3> QED BY <2>0, <2>1, <3>2, Types DEF TypeInv, TypeOK, tables, Jobs, Infos, Weights, Points, Working
  <2> QED BY <2>0, <2>1, <2>2 DEF TypeInv, QueryLocals
<1>3. ASSUME UNCHANGED vars PROVE TypeInv'
  BY <1>3 DEF TypeInv, TypeOK, vars, tables, QueryLocals
<1> QED BY <1>1, <1>2, <1>3, Steps

(* Whatever overlaps, the tables hold only what was offered, and no call uses *)
(* a null pointer or a command that it was not given.                         *)
THEOREM TypeCorrect == Spec => []TypeOK
<1>1. Spec => []TypeInv
  BY TypeInit, TypeStep, PTL DEF Spec
<1> QED BY <1>1, PTL DEF TypeInv

------------------------------------------------------------------------------
(* What a step leaves alone *)

(* A step changes the point and the variables of one call, and no step unmarks *)
(* a race.                                                                     *)
LEMMA Frame ==
  ASSUME TypeInv, NEW j \in Call, CallStep(j)
  PROVE  /\ \A i \in Call \ {j} : job'[i] = job[i] /\ pc'[i] = pc[i]
         /\ raced => raced'
<1>1. PICK k \in Jobs, to \in Points : GoesWith(j, k, to)
  BY CallGoes DEF CallStep
<1>2. \A i \in Call \ {j} : job'[i] = job[i] /\ pc'[i] = pc[i]
  BY <1>1, Types DEF GoesWith, TypeInv
<1>3. raced => raced'
  <2>1. CASE DelSet(j)
    BY <2>1, ZenonT(20) DEF DelSet
  <2>2. CASE ~DelSet(j)
    BY <2>2 DEF CallStep, Handle, Set, Register, Disconnect, Validate, Reject, Connected, Diff, FindDomain,
      CreateDomain, DelFind, AddFind, DelNode, DelSize, AddSet, AddNode, Store, Close
  <2> QED BY <2>1, <2>2
<1> QED BY <1>2, <1>3

(* The steps of the three loops. *)
Work(j) == \/ FindDomain(j) \/ CreateDomain(j) \/ DelNode(j) \/ DelSize(j) \/ DelSet(j) \/ AddSet(j) \/ AddNode(j)
           \/ \E c \in Cmd : DelFind(j, c) \/ AddFind(j, c)

(* The steps before set(). *)
Prepare(j) == \/ \E s \in Stream : Disconnect(j, s) \/ \E o \in Infos : Register(j, s, o)
              \/ Validate(j) \/ Reject(j)

LEMMA StepKinds ==
  ASSUME NEW j, CallStep(j)
  PROVE  Prepare(j) \/ Connected(j) \/ Diff(j) \/ Work(j) \/ Store(j) \/ Close(j)
BY DEF CallStep, Handle, Set, Prepare, Work

LEMMA Preparing ==
  ASSUME TypeInv, NEW j \in Call, Prepare(j)
  PROVE  /\ ~Setting(j) /\ ~Setting(j)' /\ UNCHANGED <<session, tables, raced>>
         /\ job'[j].d \in {Nil, job[j].d}
<1>1. job \in [Call -> Jobs] /\ pc \in [Call -> Points]
  BY Types DEF TypeInv
<1> DEFINE Claim == /\ ~Setting(j) /\ ~Setting(j)' /\ UNCHANGED <<session, tables, raced>>
                    /\ job'[j].d \in {Nil, job[j].d}
<1>2. ASSUME NEW s \in Stream, Disconnect(j, s) PROVE Claim
  BY <1>1, <1>2 DEF Disconnect, Setting, At, Goes, Blank
<1>3. ASSUME NEW s \in Stream, NEW o \in Infos, Register(j, s, o) PROVE Claim
  BY <1>1, <1>3 DEF Register, Setting, At, Goes, Blank
<1>4. CASE Validate(j)
  BY <1>1, <1>4 DEF Validate, Setting, At, Goes
<1>5. CASE Reject(j)
  BY <1>1, <1>5 DEF Reject, Setting, At, Goes, Ends, Blank
<1> QED BY <1>2, <1>3, <1>4, <1>5 DEF Prepare

LEMMA Looping ==
  ASSUME TypeInv, NEW j \in Call, Work(j)
  PROVE  /\ pc[j] \in Working /\ pc'[j] \in Working
         /\ job'[j].stream = job[j].stream /\ job'[j].new = job[j].new
         /\ job'[j].old = job[j].old /\ job'[j].fiber = job[j].fiber
         /\ UNCHANGED <<open, session, dropped>>
<1>1. job \in [Call -> Jobs] /\ pc \in [Call -> Points]
  BY Types DEF TypeInv
<1>2. ASSUME Through(j), pc[j] \in {"delsize", "delset", "addnode"}
      PROVE  /\ pc'[j] \in Working
             /\ job'[j].stream = job[j].stream /\ job'[j].new = job[j].new
             /\ job'[j].old = job[j].old /\ job'[j].fiber = job[j].fiber
  BY <1>1, <1>2, ThroughGoes DEF GoesWith, Working
<1>3. CASE DelSet(j)
  BY <1>2, <1>3 DEF DelSet, At, Working
<1>4. CASE AddNode(j)
  BY <1>2, <1>4 DEF AddNode, At, Working
<1>5. CASE DelSize(j)
  BY <1>1, <1>2, <1>5 DEF DelSize, At, Working, Goes
<1>6. CASE FindDomain(j)
  BY <1>1, <1>6 DEF FindDomain, Goes, Working, Jobs, Rest
<1>7. ASSUME NEW c \in Cmd, DelFind(j, c) PROVE /\ pc[j] \in Working /\ pc'[j] \in Working
         /\ job'[j].stream = job[j].stream /\ job'[j].new = job[j].new
         /\ job'[j].old = job[j].old /\ job'[j].fiber = job[j].fiber
         /\ UNCHANGED <<open, session, dropped>>
  BY <1>1, <1>7 DEF DelFind, Goes, At, Working, Jobs, Rest
<1>8. ASSUME NEW c \in Cmd, AddFind(j, c) PROVE /\ pc[j] \in Working /\ pc'[j] \in Working
         /\ job'[j].stream = job[j].stream /\ job'[j].new = job[j].new
         /\ job'[j].old = job[j].old /\ job'[j].fiber = job[j].fiber
         /\ UNCHANGED <<open, session, dropped>>
  BY <1>1, <1>8 DEF AddFind, Goes, At, Working, Jobs
<1>9. CASE CreateDomain(j) \/ DelNode(j) \/ AddSet(j)
  BY <1>1, <1>9 DEF CreateDomain, DelNode, AddSet, Goes, At, Working, Jobs
<1> QED BY <1>3, <1>4, <1>5, <1>6, <1>7, <1>8, <1>9 DEF Work

------------------------------------------------------------------------------
(* Calls that overlap have different streams and nodes *)

LEMMA ApartStep ==
  ASSUME TypeInv, TypeInv', Apart, Compared, NEW j \in Call, CallStep(j), ~raced'
  PROVE  Apart' /\ Compared'
<1>0. /\ job \in [Call -> Jobs] /\ pc \in [Call -> Points] /\ session \in [Stream -> Infos]
      /\ \A i \in Call : LocalsAt(job[i], pc[i]) /\ job[i].new \in Infos /\ job[i].old \in Infos
      /\ NoInfo.node = Nil /\ \A i \in Infos : i # NoInfo => i.node \in Node /\ i.node # Nil
  BY Types, InfoTypes DEF TypeInv, Jobs, NoInfo
<1>1. \A i \in Call \ {j} : /\ job'[i] = job[i] /\ pc'[i] = pc[i]
                            /\ (Setting(i)' <=> Setting(i)) /\ (Changing(i)' <=> Changing(i))
  BY Frame DEF Setting, Changing
<1>2. CASE Prepare(j)
  <2>1. ~Setting(j) /\ ~Setting(j)' /\ ~Changing(j)' /\ session' = session
    BY <1>2, Preparing DEF Setting, Changing, Working
  <2> QED BY <1>1, <2>1 DEF Apart, Compared
<1>3. CASE Connected(j)
  <2>1. /\ session' = session /\ job'[j].new \in {job[j].new, NoInfo}
        /\ job'[j].stream = job[j].stream /\ job'[j].old = job[j].old /\ pc'[j] = "old" /\ job[j].stream \in Stream
    BY <1>0, <1>3 DEF Connected, At, Goes, Jobs, LocalsAt
  <2>2. ~Meets(j, job'[j].new)
    BY <1>0, <1>3, ZenonT(20) DEF Connected, Jobs
  <2>3. \A i \in Call : Setting(i) => i # j /\ job[i].stream # job[j].stream
    BY <1>3, <2>2 DEF Meets, Setting, Connected, At
  <2>4. ASSUME job'[j].new # NoInfo
        PROVE  /\ \A t \in Stream : t # job[j].stream => session[t].node # job'[j].new.node
               /\ \A i \in Call : Setting(i) => job'[j].new.node \notin {job[i].new.node, job[i].old.node}
    BY <2>2, <2>4 DEF Meets
  <2>5. Compared'
    BY <1>1, <2>1 DEF Compared, Changing, Working
  <2>6. job'[j].old = NoInfo
    BY <1>0, <1>3, <2>1 DEF Connected, At, LocalsAt
  <2>7. \A i \in Call : Setting(i) /\ job[i].new # NoInfo => job[i].new.node \notin {job'[j].new.node, job'[j].old.node}
    BY <1>0, <2>1, <2>4, <2>6
  <2>8. Apart'
    <3>1. ASSUME NEW i \in Call, NEW k \in Call, Setting(i)', Setting(k)', i # k
          PROVE  /\ job'[i].stream # job'[k].stream
                 /\ job'[i].new # NoInfo => job'[i].new.node \notin {job'[k].new.node, job'[k].old.node}
      <4>1. CASE i = j
        BY <1>0, <1>1, <2>1, <2>3, <2>4, <3>1, <4>1
      <4>2. CASE k = j
        BY <1>1, <2>1, <2>3, <2>7, <3>1, <4>2
      <4>3. CASE i # j /\ k # j
        BY <1>1, <3>1, <4>3 DEF Apart
      <4> QED BY <4>1, <4>2, <4>3
    <3>2. ASSUME NEW i \in Call, NEW t \in Stream, Setting(i)', t # job'[i].stream, job'[i].new # NoInfo
          PROVE  session'[t].node # job'[i].new.node
      BY <1>1, <2>1, <2>4, <3>2 DEF Apart
    <3> QED BY <2>1, <3>1, <3>2 DEF Apart
  <2> QED BY <2>5, <2>8
<1>4. CASE Diff(j)
  <2> DEFINE old == session[job[j].stream]
  <2>1. /\ session' = session /\ job'[j].stream = job[j].stream /\ job'[j].new = job[j].new
        /\ job'[j].old = old /\ Setting(j) /\ job[j].stream \in Stream /\ old \in Infos
    <3>1. pc[j] = "old" /\ session' = session
      BY <1>4 DEF Diff, At
    <3>2. Setting(j) /\ job[j].stream \in Stream
      BY <1>0, <3>1 DEF Setting, LocalsAt
    <3>3. job[j] \in Jobs /\ old \in Infos
      BY <1>0, <3>2
    <3>4. PICK dels, news, comms : job' = [job EXCEPT ![j] = [job[j] EXCEPT !.old = old, !.dels = dels,
                                                                            !.news = news, !.comms = comms]]
      BY <1>4 DEF Diff
    <3> QED BY <1>0, <3>1, <3>2, <3>3, <3>4 DEF Jobs
  <2>2. ~(old # NoInfo /\ job[j].new # NoInfo /\ old.node # job[j].new.node)
    BY <1>4 DEF Diff
  <2>3. ASSUME NEW i \in Call \ {j}, Setting(i), job[i].new # NoInfo
        PROVE  job[i].new.node # old.node
    BY <2>1, <2>3 DEF Apart
  <2>4. Apart'
    <3>1. \A i \in Call : /\ Setting(i)' => Setting(i)
                          /\ job'[i].stream = job[i].stream
                          /\ job'[i].new = job[i].new
                          /\ job'[i].old = IF i = j THEN old ELSE job[i].old
      BY <1>1, <2>1
    <3>2. ASSUME NEW i \in Call, NEW k \in Call, Setting(i)', Setting(k)', i # k
          PROVE  /\ job'[i].stream # job'[k].stream
                 /\ job'[i].new # NoInfo => job'[i].new.node \notin {job'[k].new.node, job'[k].old.node}
      <4>1. Setting(i) /\ Setting(k)
        BY <3>1, <3>2
      <4>2. CASE k = j
        BY <2>3, <3>1, <3>2, <4>1, <4>2 DEF Apart
      <4>3. CASE k # j
        BY <3>1, <3>2, <4>1, <4>3 DEF Apart
      <4> QED BY <4>2, <4>3
    <3>3. ASSUME NEW i \in Call, NEW t \in Stream, Setting(i)', t # job'[i].stream, job'[i].new # NoInfo
          PROVE  session[t].node # job'[i].new.node
      BY <3>1, <3>3 DEF Apart
    <3> QED BY <2>1, <3>2, <3>3 DEF Apart
  <2>5. Compared'
    BY <1>1, <2>1, <2>2 DEF Compared
  <2> QED BY <2>4, <2>5
<1>5. CASE Work(j)
  <2>1. /\ pc[j] \in Working /\ pc'[j] \in Working /\ session' = session
        /\ job'[j].stream = job[j].stream /\ job'[j].new = job[j].new /\ job'[j].old = job[j].old
    BY <1>5, Looping
  <2>2. Setting(j) /\ Setting(j)' /\ Changing(j)
    BY <2>1 DEF Setting, Changing, Working
  <2>3. \A i \in Call : /\ Setting(i)' => Setting(i)
                        /\ job'[i].stream = job[i].stream
                        /\ job'[i].new = job[i].new /\ job'[i].old = job[i].old
    BY <1>1, <2>1, <2>2
  <2>4. \A i \in Call : Changing(i)' => Changing(i)
    BY <1>1, <2>2
  <2>5. Apart'
    BY <2>1, <2>3 DEF Apart
  <2>6. Compared'
    BY <2>1, <2>3, <2>4 DEF Compared
  <2> QED BY <2>5, <2>6
<1>6. CASE Store(j)
  <2> DEFINE s == job[j].stream
  <2>1. /\ Setting(j) /\ ~Changing(j)' /\ s \in Stream
        /\ Setting(j)' => job'[j] = job[j]
        /\ session' = [session EXCEPT ![s] = job[j].new]
    BY <1>0, <1>6 DEF Store, At, Setting, Changing, Working, LocalsAt, Goes, Ends
  <2>2. /\ \A t \in Stream : session'[t] = IF t = s THEN job[j].new ELSE session[t]
        /\ \A i \in Call \ {j} : Setting(i) => job[i].stream # s
    BY <1>0, <2>1 DEF Apart
  <2>3. ASSUME NEW i \in Call \ {j}, Setting(i), job[i].new # NoInfo
        PROVE  job[i].new.node # job[j].new.node
    BY <2>1, <2>3 DEF Apart
  <2>4. ASSUME NEW t \in Stream \ {s}
        PROVE  /\ session[t] # NoInfo => session[t].node # job[j].new.node
               /\ job[j].new # NoInfo => session[t].node # job[j].new.node
    BY <1>0, <2>1 DEF Apart
  <2>5. \A t, u \in Stream : t # u /\ session'[t] # NoInfo => session'[t].node # session'[u].node
    BY <2>2, <2>4 DEF Apart
  <2>6. Apart'
    BY <1>1, <2>1, <2>2, <2>3, <2>5 DEF Apart
  <2>7. Compared'
    BY <1>0, <1>1, <2>1, <2>2 DEF Compared, Changing, Setting, Working, LocalsAt
  <2> QED BY <2>6, <2>7
<1>7. CASE Close(j)
  <2>1. ~Setting(j)' /\ ~Changing(j)' /\ session' = session
    BY <1>0, <1>7 DEF Close, Ends, Goes, Setting, Changing, Working
  <2> QED BY <1>1, <2>1 DEF Apart, Compared
<1> QED BY <1>2, <1>3, <1>4, <1>5, <1>6, <1>7, StepKinds

------------------------------------------------------------------------------
(* The directory has one domain, and every node is in a set of it *)

(* The weights that DelNode and AddNode write. *)
LEMMA Written ==
  ASSUME TypeInv, NEW j \in Call
  PROVE  /\ DelNode(j) =>
              /\ job[j].old.node \in Node /\ job[j].c \in Cmd /\ job[j].ns \in Call
              /\ \A x \in Call, c \in Cmd, n \in Node :
                   nodes'[<<x, c>>][n] = IF x = job[j].ns /\ c = job[j].c /\ n = job[j].old.node THEN 0
                                         ELSE nodes[<<x, c>>][n]
         /\ AddNode(j) =>
              /\ job[j].new # NoInfo /\ job[j].c \in job[j].new.cmds
              /\ job[j].new.node \in Node /\ job[j].c \in Cmd /\ job[j].ns \in Call /\ job[j].d \in Call
              /\ job[j].new.weight \in Weights
              /\ \A x \in Call, c \in Cmd, n \in Node :
                   nodes'[<<x, c>>][n] = IF x = job[j].ns /\ c = job[j].c /\ n = job[j].new.node THEN job[j].new.weight
                                         ELSE nodes[<<x, c>>][n]
<1>0. /\ job[j] \in Jobs /\ LocalsAt(job[j], pc[j]) /\ nodes \in [Call \X Cmd -> [Node -> Weights \cup {0}]]
      /\ job[j].old \in Infos /\ job[j].new \in Infos
  BY Types DEF TypeInv, Jobs
<1>1. ASSUME DelNode(j)
      PROVE  /\ job[j].old.node \in Node /\ job[j].c \in Cmd /\ job[j].ns \in Call
             /\ \A x \in Call, c \in Cmd, n \in Node :
                  nodes'[<<x, c>>][n] = IF x = job[j].ns /\ c = job[j].c /\ n = job[j].old.node THEN 0
                                        ELSE nodes[<<x, c>>][n]
  <2>1. job[j].c \in job[j].old.cmds /\ job[j].c \in Cmd /\ job[j].ns \in Call
    BY <1>0, <1>1 DEF DelNode, At, LocalsAt, Working, Jobs
  <2>2. job[j].old.node \in Node
    BY <1>0, <2>1, InfoTypes
  <2> QED BY <1>0, <1>1, <2>1, <2>2 DEF DelNode
<1>2. ASSUME AddNode(j)
      PROVE  /\ job[j].new # NoInfo /\ job[j].c \in job[j].new.cmds
             /\ job[j].new.node \in Node /\ job[j].c \in Cmd /\ job[j].ns \in Call /\ job[j].d \in Call
             /\ job[j].new.weight \in Weights
             /\ \A x \in Call, c \in Cmd, n \in Node :
                  nodes'[<<x, c>>][n] = IF x = job[j].ns /\ c = job[j].c /\ n = job[j].new.node THEN job[j].new.weight
                                        ELSE nodes[<<x, c>>][n]
  <2>1. job[j].c \in job[j].new.cmds /\ job[j].c \in Cmd /\ job[j].ns \in Call /\ job[j].d \in Call
    BY <1>0, <1>2 DEF AddNode, At, LocalsAt, Working, Jobs
  <2>2. job[j].new # NoInfo /\ job[j].new.node \in Node /\ job[j].new.weight \in Weights
    BY <1>0, <2>1, InfoTypes
  <2> QED BY <1>0, <1>2, <2>1, <2>2 DEF AddNode
<1> QED BY <1>1, <1>2

LEMMA TidyStep ==
  ASSUME TypeInv, TypeInv', Tidy, NEW j \in Call, CallStep(j), ~raced'
  PROVE  Tidy'
<1>0. /\ job \in [Call -> Jobs] /\ pc \in [Call -> Points] /\ sets \in [Call -> [Cmd -> Call \cup {Nil}]]
      /\ root \in Call \cup {Nil} /\ Nil \notin Call /\ LocalsAt(job[j], pc[j])
      /\ nodes \in [Call \X Cmd -> [Node -> Weights \cup {0}]] /\ job' \in [Call -> Jobs]
  <2>1. job' \in [Call -> Jobs]
    BY DEF TypeInv, TypeOK, Jobs, Infos
  <2> QED BY <2>1, Types, InfoTypes DEF TypeInv
<1>1. \A i \in Call \ {j} : job'[i].d = job[i].d
  BY Frame
<1>2. ASSUME UNCHANGED tables, job'[j].d \in {Nil, job[j].d, root} PROVE Tidy'
  BY <1>1, <1>2 DEF Tidy, tables
<1>3. CASE Prepare(j)
  BY <1>2, <1>3, Preparing
<1>4. CASE Connected(j) \/ Diff(j)
  <2>1. job'[j].d = job[j].d
    <3>0. job[j] \in Jobs
      BY <1>0
    <3>1. CASE Connected(j)
      <4>1. PICK new : job' = [job EXCEPT ![j].new = new]
        BY <3>1 DEF Connected
      <4> QED BY <1>0, <3>0, <4>1 DEF Jobs
    <3>2. CASE Diff(j)
      <4>1. PICK old, dels, news, comms :
              job' = [job EXCEPT ![j] = [job[j] EXCEPT !.old = old, !.dels = dels, !.news = news, !.comms = comms]]
        BY <3>2 DEF Diff
      <4> QED BY <1>0, <3>0, <4>1 DEF Jobs
    <3> QED BY <1>4, <3>1, <3>2
  <2> QED BY <1>2, <1>4, <2>1 DEF Connected, Diff
<1>5. CASE Store(j) \/ Close(j)
  <2>1. job'[j].d \in {Nil, job[j].d}
    BY <1>0, <1>5 DEF Store, Close, Ends, Blank
  <2> QED BY <1>2, <1>5, <2>1 DEF Store, Close
<1>6. ASSUME Through(j), pc[j] \in {"delsize", "delset", "addnode"} PROVE job'[j].d \in {Nil, job[j].d}
  BY <1>0, <1>6, ThroughGoes DEF GoesWith
<1>7. CASE FindDomain(j)
  BY <1>0, <1>2, <1>7 DEF FindDomain, Jobs
<1>8. ASSUME NEW c \in Cmd, DelFind(j, c) \/ AddFind(j, c) PROVE Tidy'
  <2>1. job'[j].d = job[j].d
    <3>0. job[j] \in Jobs
      BY <1>0
    <3>1. CASE DelFind(j, c)
      <4>1. PICK k \in {[job[j] EXCEPT !.c = c, !.ns = sets[job[j].d][c]],
                        [[job[j] EXCEPT !.c = c, !.ns = sets[job[j].d][c]] EXCEPT !.dels = @ \ {c}]} :
              job' = [job EXCEPT ![j] = k]
        BY <3>1 DEF DelFind
      <4>2. k.d = job[j].d
        BY <3>0 DEF Jobs
      <4> QED BY <1>0, <4>1, <4>2
    <3>2. CASE AddFind(j, c)
      <4>1. job' = [job EXCEPT ![j].c = c, ![j].ns = sets[job[j].d][c]]
        BY <3>2 DEF AddFind
      <4> QED BY <1>0, <3>0, <4>1 DEF Jobs
    <3> QED BY <1>8, <3>1, <3>2
  <2> QED BY <1>2, <1>8, <2>1 DEF DelFind, AddFind
<1>9. CASE DelSize(j)
  <2>1. job'[j].d \in {Nil, job[j].d}
    BY <1>6, <1>9 DEF DelSize, At
  <2> QED BY <1>2, <1>9, <2>1 DEF DelSize
<1>10. CASE CreateDomain(j)
  <2>1. root' = j /\ root = Nil /\ UNCHANGED <<sets, nodes>> /\ job'[j].d = j
    <3>1. root' = j /\ root = Nil /\ UNCHANGED <<sets, nodes>> /\ job' = [job EXCEPT ![j].d = j]
      BY <1>10, ZenonT(20) DEF CreateDomain
    <3>2. job[j] \in Jobs
      BY <1>0
    <3> QED BY <1>0, <3>1, <3>2 DEF Jobs
  <2>2. /\ \A d \in Call, c \in Cmd : sets[d][c] = Nil
        /\ \A x \in Call, c \in Cmd, n \in Node : nodes[<<x, c>>][n] = 0
        /\ \A i \in Call : job[i].d = Nil
    BY <1>0, <2>1 DEF Tidy
  <2> QED BY <1>1, <2>1, <2>2 DEF Tidy
<1>11. CASE DelNode(j)
  <2>1. UNCHANGED <<root, sets, job>>
    BY <1>11 DEF DelNode
  <2>2. \A x \in Call, c \in Cmd, n \in Node : nodes'[<<x, c>>][n] # 0 => nodes[<<x, c>>][n] # 0
    BY <1>11, Written
  <2> QED BY <2>1, <2>2 DEF Tidy
<1>12. CASE DelSet(j)
  <2> DEFINE d == job[j].d
             c == job[j].c
  <2>1. /\ sets' = [sets EXCEPT ![d][c] = Nil] /\ UNCHANGED <<root, nodes>> /\ pc[j] = "delset" /\ Through(j)
        /\ sets[d][c] = job[j].ns /\ Empty(job[j].ns, c)
    BY <1>12, ZenonT(20) DEF DelSet, At
  <2>2. d \in Call /\ c \in Cmd /\ job[j].ns \in Call /\ d = root
    BY <1>0, <2>1 DEF LocalsAt, Jobs, Tidy
  <2>3. \A e \in Call, y \in Cmd : sets'[e][y] = IF e = d /\ y = c THEN Nil ELSE sets[e][y]
    BY <1>0, <2>1, <2>2
  <2>4. job'[j].d \in {Nil, d}
    BY <1>6, <2>1
  <2>5. \A x \in Call, n \in Node : nodes[<<x, c>>][n] = 0
    BY <2>1, <2>2 DEF Tidy, Empty
  <2> HIDE DEF d, c
  <2>6. \A x \in Call, y \in Cmd, n \in Node : nodes[<<x, y>>][n] # 0 => y # c /\ root # Nil /\ sets[root][y] = x
    BY <2>5 DEF Tidy
  <2> QED BY <1>1, <2>1, <2>2, <2>3, <2>4, <2>6 DEF Tidy, d
<1>13. CASE AddSet(j)
  <2> DEFINE d == job[j].d
             c == job[j].c
  <2>1. /\ sets' = [sets EXCEPT ![d][c] = j] /\ UNCHANGED <<root, nodes>> /\ pc[j] = "addset"
        /\ sets[d][c] = Nil /\ job' = [job EXCEPT ![j].ns = j]
    BY <1>13 DEF AddSet, At
  <2>2. d \in Call /\ c \in Cmd /\ d = root
    BY <1>0, <2>1 DEF LocalsAt, Jobs, Tidy
  <2>3. \A e \in Call, y \in Cmd : sets'[e][y] = IF e = d /\ y = c THEN j ELSE sets[e][y]
    BY <1>0, <2>1, <2>2
  <2>4. job'[j].d = d
    BY <1>0, <2>1 DEF Jobs
  <2>5. \A x \in Call, n \in Node : nodes[<<x, c>>][n] = 0
    BY <1>0, <2>1, <2>2 DEF Tidy
  <2> HIDE DEF d, c
  <2>6. \A x \in Call, y \in Cmd, n \in Node : nodes[<<x, y>>][n] # 0 => y # c /\ root # Nil /\ sets[root][y] = x
    BY <2>5 DEF Tidy
  <2> QED BY <1>1, <2>1, <2>2, <2>3, <2>4, <2>6 DEF Tidy, d
<1>14. CASE AddNode(j)
  <2>1. UNCHANGED <<root, sets>> /\ pc[j] = "addnode" /\ Through(j) /\ sets[job[j].d][job[j].c] = job[j].ns
    BY <1>14 DEF AddNode, At
  <2>2. job'[j].d \in {Nil, job[j].d} /\ job[j].d = root /\ root # Nil
    BY <1>0, <1>6, <1>14, <2>1, Written DEF Tidy
  <2>3. \A x \in Call, c \in Cmd, n \in Node : nodes'[<<x, c>>][n] # 0 =>
          nodes[<<x, c>>][n] # 0 \/ (x = job[j].ns /\ c = job[j].c)
    BY <1>14, Written
  <2> QED BY <1>1, <2>1, <2>2, <2>3 DEF Tidy
<1> QED
  BY <1>3, <1>4, <1>5, <1>7, <1>8, <1>9, <1>10, <1>11, <1>12, <1>13, <1>14, StepKinds DEF Work

(* A node that a call has found in a set stays in it until the call takes it out. *)
LEMMA FoundStep ==
  ASSUME TypeInv, Apart, Tidy, Found, NEW j \in Call, CallStep(j), ~raced'
  PROVE  Found'
<1>0. /\ job \in [Call -> Jobs] /\ pc \in [Call -> Points] /\ sets \in [Call -> [Cmd -> Call \cup {Nil}]]
      /\ \A i \in Call : LocalsAt(job[i], pc[i]) /\ job[i].old \in Infos
      /\ root \in Call \cup {Nil} /\ Nil \notin Call
      /\ \A i \in Infos : i.cmds # {} => i.node \in Node
  BY Types, InfoTypes DEF TypeInv, Jobs
<1>1. \A i \in Call \ {j} : job'[i] = job[i] /\ pc'[i] = pc[i]
  BY Frame
<1>2. \A i \in Call : pc[i] = "delnode" => job[i].old.node \in Node /\ job[i].c \in Cmd /\ job[i].ns \in Call /\ Setting(i)
  BY <1>0 DEF LocalsAt, Working, Jobs, Setting
<1>3. CASE AddNode(j)
  <2>1. pc[j] = "addnode" /\ Through(j) /\ Setting(j)
    BY <1>3 DEF AddNode, At, Setting
  <2>2. pc'[j] # "delnode"
    BY <1>0, <2>1, ThroughGoes DEF GoesWith
  <2>3. \A i \in Call \ {j} : pc[i] = "delnode" => job[j].new.node # job[i].old.node
    BY <1>2, <1>3, <2>1, Written DEF Apart
  <2>4. \A i \in Call \ {j} : pc[i] = "delnode" =>
          \A x \in Call : nodes'[<<x, job[i].c>>][job[i].old.node] = nodes[<<x, job[i].c>>][job[i].old.node]
    BY <1>2, <1>3, <2>3, Written
  <2>5. ASSUME NEW i \in Call, pc'[i] = "delnode", NEW x \in Call \ {job'[i].ns}
        PROVE  nodes'[<<x, job'[i].c>>][job'[i].old.node] = 0
    <3>1. i # j /\ job'[i] = job[i] /\ pc[i] = "delnode"
      BY <1>1, <2>2, <2>5
    <3>2. nodes'[<<x, job[i].c>>][job[i].old.node] = nodes[<<x, job[i].c>>][job[i].old.node]
      BY <2>4, <3>1
    <3>3. nodes[<<x, job[i].c>>][job[i].old.node] = 0
      BY <2>5, <3>1 DEF Found
    <3> QED BY <3>1, <3>2, <3>3
  <2> QED BY <2>5 DEF Found
<1>4. CASE DelNode(j)
  <2>1. pc'[j] # "delnode" /\ UNCHANGED job
    BY <1>0, <1>4 DEF DelNode, At, Goes
  <2>2. \A x \in Call, c \in Cmd, n \in Node : nodes[<<x, c>>][n] = 0 => nodes'[<<x, c>>][n] = 0
    BY <1>4, Written
  <2> QED BY <1>1, <1>2, <2>1, <2>2 DEF Found
<1>5. ASSUME NEW c \in Cmd, DelFind(j, c) PROVE Found'
  <2>1. /\ nodes' = nodes /\ pc[j] = "del" /\ c \in job[j].dels
        /\ pc'[j] = "delnode" => /\ job'[j].c = c /\ job'[j].old = job[j].old
                                 /\ job'[j].ns = sets[job[j].d][c] /\ sets[job[j].d][c] # Nil
    BY <1>0, <1>5 DEF DelFind, At, Goes, Jobs, tables, Rest
  <2>2. job[j].old.node \in Node /\ job[j].d \in Call /\ job[j].d = root
    BY <1>0, <2>1 DEF LocalsAt, Working, Tidy
  <2>3. pc'[j] = "delnode" => \A x \in Call \ {job'[j].ns} : nodes[<<x, c>>][job[j].old.node] = 0
    BY <2>1, <2>2 DEF Tidy
  <2>4. ASSUME NEW i \in Call, pc'[i] = "delnode", NEW x \in Call \ {job'[i].ns}
        PROVE  nodes'[<<x, job'[i].c>>][job'[i].old.node] = 0
    <3>1. CASE i = j
      BY <2>1, <2>3, <2>4, <3>1
    <3>2. CASE i # j
      BY <1>1, <2>1, <2>4, <3>2 DEF Found
    <3> QED BY <3>1, <3>2
  <2> QED BY <2>4 DEF Found
<1>6. ASSUME nodes' = nodes, pc'[j] # "delnode" PROVE Found'
  <2>1. ASSUME NEW i \in Call, pc'[i] = "delnode", NEW x \in Call \ {job'[i].ns}
        PROVE  nodes'[<<x, job'[i].c>>][job'[i].old.node] = 0
    <3>1. i # j /\ job'[i] = job[i] /\ pc[i] = "delnode"
      BY <1>1, <1>6, <2>1
    <3> QED BY <1>6, <2>1, <3>1 DEF Found
  <2> QED BY <2>1 DEF Found
<1>7. CASE Prepare(j)
  BY <1>6, <1>7, Preparing DEF Setting, tables
<1>8. CASE Connected(j) \/ Diff(j) \/ Store(j) \/ Close(j)
  BY <1>0, <1>6, <1>8 DEF Connected, Diff, Store, Close, Goes, Ends, Rest, tables
<1>9. CASE FindDomain(j) \/ CreateDomain(j) \/ AddSet(j)
  <2>1. nodes' = nodes
    BY <1>9 DEF FindDomain, CreateDomain, AddSet, tables
  <2>2. pc'[j] # "delnode"
    <3>1. \E to : pc' = [pc EXCEPT ![j] = to] /\ to # "delnode"
      BY <1>9 DEF FindDomain, CreateDomain, AddSet, Goes, Rest
    <3> QED BY <1>0, <3>1
  <2> QED BY <1>6, <2>1, <2>2
<1>10. ASSUME NEW c \in Cmd, AddFind(j, c) PROVE Found'
  BY <1>0, <1>6, <1>10 DEF AddFind, Goes, tables
<1>11. CASE DelSize(j)
  <2>1. pc'[j] # "delnode"
    BY <1>0, <1>11, ThroughGoes DEF DelSize, At, Goes, GoesWith
  <2> QED BY <1>6, <1>11, <2>1 DEF DelSize, tables
<1>12. CASE DelSet(j)
  <2>1. pc'[j] # "delnode"
    BY <1>0, <1>12, ThroughGoes DEF DelSet, At, GoesWith
  <2> QED BY <1>6, <1>12, <2>1 DEF DelSet
<1> QED BY <1>3, <1>4, <1>5, <1>7, <1>8, <1>9, <1>10, <1>11, <1>12, StepKinds DEF Work

------------------------------------------------------------------------------
(* What is listed *)

(* Since no node is in a set outside of the directory, it does not matter for *)
(* what is listed which set is in it.                                         *)
LEMMA ListedIs ==
  ASSUME TypeInv, Tidy
  PROVE  /\ Listed \subseteq Cmd \X Node \X Weights
         /\ \A c \in Cmd, n \in Node, w \in Weights :
              <<c, n, w>> \in Listed <=> \E x \in Call : nodes[<<x, c>>][n] = w
<1>0. root \in Call \cup {Nil} /\ sets \in [Call -> [Cmd -> Call \cup {Nil}]] /\ Weights \subseteq Nat \ {0}
  BY Types, InfoTypes DEF TypeInv
<1>1. ASSUME NEW c \in Cmd, NEW n \in Node, NEW w \in Weights
      PROVE  <<c, n, w>> \in Listed <=> /\ root # Nil /\ sets[root][c] # Nil
                                        /\ nodes[<<sets[root][c], c>>][n] = w
  BY DEF Listed, Weights
<1>2. ASSUME NEW c \in Cmd, NEW n \in Node, NEW w \in Weights
      PROVE  <<c, n, w>> \in Listed <=> \E x \in Call : nodes[<<x, c>>][n] = w
  <2>1. ASSUME <<c, n, w>> \in Listed PROVE \E x \in Call : nodes[<<x, c>>][n] = w
    <3>1. root # Nil /\ sets[root][c] # Nil /\ nodes[<<sets[root][c], c>>][n] = w
      BY <1>1, <2>1
    <3>2. root \in Call /\ sets[root][c] \in Call
      BY <1>0, <3>1
    <3> QED BY <3>1, <3>2
  <2>2. ASSUME NEW x \in Call, nodes[<<x, c>>][n] = w PROVE <<c, n, w>> \in Listed
    <3>1. root # Nil /\ sets[root][c] = x
      BY <1>0, <2>2 DEF Tidy
    <3> QED BY <1>1, <2>2, <3>1, NilAssumption
  <2> QED BY <2>1, <2>2
<1>3. Listed \subseteq Cmd \X Node \X Weights
  BY DEF Listed, Weights
<1> QED BY <1>2, <1>3

LEMMA ListedIsThen ==
  ASSUME TypeInv', Tidy'
  PROVE  /\ Listed' \subseteq Cmd \X Node \X Weights
         /\ \A c \in Cmd, n \in Node, w \in Weights :
              <<c, n, w>> \in Listed' <=> \E x \in Call : nodes'[<<x, c>>][n] = w
<1>0. root' \in Call \cup {Nil} /\ sets' \in [Call -> [Cmd -> Call \cup {Nil}]] /\ Weights \subseteq Nat \ {0}
  BY InfoTypes DEF TypeInv, TypeOK
<1>1. ASSUME NEW c \in Cmd, NEW n \in Node, NEW w \in Weights
      PROVE  <<c, n, w>> \in Listed' <=> /\ root' # Nil /\ sets'[root'][c] # Nil
                                         /\ nodes'[<<sets'[root'][c], c>>][n] = w
  BY DEF Listed, Weights
<1>2. ASSUME NEW c \in Cmd, NEW n \in Node, NEW w \in Weights
      PROVE  <<c, n, w>> \in Listed' <=> \E x \in Call : nodes'[<<x, c>>][n] = w
  <2>1. ASSUME <<c, n, w>> \in Listed' PROVE \E x \in Call : nodes'[<<x, c>>][n] = w
    <3>1. root' # Nil /\ sets'[root'][c] # Nil /\ nodes'[<<sets'[root'][c], c>>][n] = w
      BY <1>1, <2>1
    <3>2. root' \in Call /\ sets'[root'][c] \in Call
      BY <1>0, <3>1
    <3> QED BY <3>1, <3>2
  <2>2. ASSUME NEW x \in Call, nodes'[<<x, c>>][n] = w PROVE <<c, n, w>> \in Listed'
    <3>1. root' # Nil /\ sets'[root'][c] = x
      BY <1>0, <2>2 DEF Tidy
    <3> QED BY <1>1, <2>2, <3>1, NilAssumption
  <2> QED BY <2>1, <2>2
<1>3. Listed' \subseteq Cmd \X Node \X Weights
  BY DEF Listed, Weights
<1> QED BY <1>2, <1>3

(* Only DelNode and AddNode change what is listed. *)
LEMMA ListedMoves ==
  ASSUME TypeInv, TypeInv', Tidy, Tidy', Found, NEW j \in Call, CallStep(j), ~raced'
  PROVE  /\ ~DelNode(j) /\ ~AddNode(j) => Listed' = Listed
         /\ DelNode(j) => \A c \in Cmd, n \in Node, w \in Weights :
              <<c, n, w>> \in Listed' <=> <<c, n, w>> \in Listed /\ ~(c = job[j].c /\ n = job[j].old.node)
         /\ AddNode(j) => \A c \in Cmd, n \in Node, w \in Weights :
              <<c, n, w>> \in Listed' <=> IF c = job[j].c /\ n = job[j].new.node THEN w = job[j].new.weight
                                          ELSE <<c, n, w>> \in Listed
<1>0. Weights \subseteq Nat \ {0}
  BY InfoTypes
<1>01. Listed \subseteq Cmd \X Node \X Weights /\ Listed' \subseteq Cmd \X Node \X Weights
  BY ListedIs, ListedIsThen
<1>02. \A c \in Cmd, n \in Node, w \in Weights : <<c, n, w>> \in Listed <=> \E x \in Call : nodes[<<x, c>>][n] = w
  BY ListedIs
<1>03. \A c \in Cmd, n \in Node, w \in Weights : <<c, n, w>> \in Listed' <=> \E x \in Call : nodes'[<<x, c>>][n] = w
  BY ListedIsThen
<1>1. ASSUME ~DelNode(j), ~AddNode(j) PROVE Listed' = Listed
  <2>1. nodes' = nodes
    <3>1. CASE DelSet(j)
      BY <3>1 DEF DelSet
    <3>2. CASE ~DelSet(j)
      BY <1>1, <3>2 DEF CallStep, Handle, Set, Register, Disconnect, Validate, Reject, Connected, Diff, FindDomain,
        CreateDomain, DelFind, AddFind, DelSize, AddSet, Store, Close, tables
    <3> QED BY <3>1, <3>2
  <2>2. ASSUME NEW c \in Cmd, NEW n \in Node, NEW w \in Weights
        PROVE  <<c, n, w>> \in Listed' <=> <<c, n, w>> \in Listed
    <3>1. <<c, n, w>> \in Listed <=> \E x \in Call : nodes[<<x, c>>][n] = w
      BY <1>02
    <3>2. <<c, n, w>> \in Listed' <=> \E x \in Call : nodes'[<<x, c>>][n] = w
      BY <1>03
    <3> QED BY <2>1, <3>1, <3>2
  <2>3. \A e \in Cmd \X Node \X Weights : e \in Listed' <=> e \in Listed
    BY <2>2
  <2> QED BY <2>3, <1>01
<1>2. ASSUME DelNode(j), NEW c \in Cmd, NEW n \in Node, NEW w \in Weights
      PROVE  <<c, n, w>> \in Listed' <=> <<c, n, w>> \in Listed /\ ~(c = job[j].c /\ n = job[j].old.node)
  <2>01. <<c, n, w>> \in Listed <=> \E x \in Call : nodes[<<x, c>>][n] = w
    BY <1>02
  <2>02. <<c, n, w>> \in Listed' <=> \E x \in Call : nodes'[<<x, c>>][n] = w
    BY <1>03
  <2>1. \A x \in Call : nodes'[<<x, c>>][n] = IF x = job[j].ns /\ c = job[j].c /\ n = job[j].old.node THEN 0
                                              ELSE nodes[<<x, c>>][n]
    BY <1>2, Written
  <2>2. c = job[j].c /\ n = job[j].old.node => \A x \in Call \ {job[j].ns} : nodes[<<x, c>>][n] = 0
    BY <1>2 DEF Found, DelNode, At
  <2>3. \A x \in Call : nodes'[<<x, c>>][n] = w <=> nodes[<<x, c>>][n] = w /\ ~(c = job[j].c /\ n = job[j].old.node)
    BY <1>0, <2>1, <2>2
  <2> QED BY <2>01, <2>02, <2>3
<1>3. ASSUME AddNode(j), NEW c \in Cmd, NEW n \in Node, NEW w \in Weights
      PROVE  <<c, n, w>> \in Listed' <=> IF c = job[j].c /\ n = job[j].new.node THEN w = job[j].new.weight
                                         ELSE <<c, n, w>> \in Listed
  <2>01. <<c, n, w>> \in Listed <=> \E x \in Call : nodes[<<x, c>>][n] = w
    BY <1>02
  <2>02. <<c, n, w>> \in Listed' <=> \E x \in Call : nodes'[<<x, c>>][n] = w
    BY <1>03
  <2>1. \A x \in Call : nodes'[<<x, c>>][n] = IF x = job[j].ns /\ c = job[j].c /\ n = job[j].new.node THEN job[j].new.weight
                                              ELSE nodes[<<x, c>>][n]
    BY <1>3, Written
  <2>2. job[j].ns \in Call /\ job[j].d = root /\ job[j].d \in Call
    BY <1>3, Written, NilAssumption DEF Tidy
  <2>3. sets[root][job[j].c] = job[j].ns
    BY <1>3, <2>2 DEF AddNode
  <2>4. c = job[j].c => \A x \in Call \ {job[j].ns} : nodes[<<x, c>>][n] = 0
    BY <2>3 DEF Tidy
  <2>5. CASE c = job[j].c /\ n = job[j].new.node
    <3>1. \A x \in Call : nodes'[<<x, c>>][n] = IF x = job[j].ns THEN job[j].new.weight ELSE nodes[<<x, c>>][n]
      BY <2>1, <2>5
    <3>2. \A x \in Call \ {job[j].ns} : nodes[<<x, c>>][n] = 0
      BY <2>4, <2>5
    <3>3. (\E x \in Call : nodes'[<<x, c>>][n] = w) <=> w = job[j].new.weight
      BY <1>0, <2>2, <3>1, <3>2
    <3> QED BY <2>02, <2>5, <3>3
  <2>6. CASE ~(c = job[j].c /\ n = job[j].new.node)
    <3>1. \A x \in Call : nodes'[<<x, c>>][n] = nodes[<<x, c>>][n]
      BY <2>1, <2>6
    <3> QED BY <2>01, <2>02, <2>6, <3>1
  <2> QED BY <2>5, <2>6
<1> QED BY <1>1, <1>2, <1>3

(* The loops never take from the directory what belongs to the new infos, and *)
(* what they have given up is not listed any more.                            *)
LEMMA LoopLeft ==
  ASSUME TypeInv, TypeInv', Tidy, Tidy', Found, NEW j \in Call, CallStep(j), Work(j), ~AddNode(j), ~raced'
  PROVE  /\ job[j].news \cup job[j].comms \subseteq job'[j].news \cup job'[j].comms
         /\ \A e \in Listed' : e \in Listed /\ (e[1] \in Left(j) /\ e[2] = job[j].old.node => e[1] \in Left(j)')
         /\ \A e \in Listed \ Listed' : e[1] \in job[j].old.cmds \ job[j].new.cmds /\ e[2] = job[j].old.node
<1>0. /\ job \in [Call -> Jobs] /\ pc \in [Call -> Points] /\ LocalsAt(job[j], pc[j]) /\ job[j] \in Jobs
      /\ root \in Call \cup {Nil} /\ sets \in [Call -> [Cmd -> Call \cup {Nil}]] /\ Nil \notin Call
  BY Types, InfoTypes DEF TypeInv
<1> DEFINE Claim ==
             /\ job[j].news \cup job[j].comms \subseteq job'[j].news \cup job'[j].comms
             /\ \A e \in Listed' : e \in Listed /\ (e[1] \in Left(j) /\ e[2] = job[j].old.node => e[1] \in Left(j)')
             /\ \A e \in Listed \ Listed' : e[1] \in job[j].old.cmds \ job[j].new.cmds /\ e[2] = job[j].old.node
<1>1. ASSUME Listed' = Listed, job'[j].news = job[j].news, job'[j].comms = job[j].comms, Left(j)' = Left(j)
      PROVE  Claim
  BY <1>1
<1>2. ASSUME Through(j), pc[j] \in {"delsize", "delset"}
      PROVE  job'[j].news = job[j].news /\ job'[j].comms = job[j].comms /\ Left(j)' = Left(j)
  <2>1. PICK k \in Jobs, to \in Points :
           /\ GoesWith(j, k, to) /\ to \in {"dels", "news", "comms", "store", "del", "add"}
           /\ k.dels = job[j].dels \ {job[j].c} /\ k.news = job[j].news \ {job[j].c}
           /\ k.comms = job[j].comms \ {job[j].c}
    BY <1>2, ThroughGoes
  <2>2. job'[j] = k /\ pc'[j] = to
    BY <1>0, <2>1 DEF GoesWith
  <2>3. job[j].c \notin job[j].news \cup job[j].comms
    BY <1>0, <1>2 DEF LocalsAt, Working
  <2>4. Left(j) = job[j].comms \cup (job[j].dels \ {job[j].c})
    BY <1>2 DEF Left
  <2>5. Left(j)' = job'[j].comms \cup job'[j].dels
    BY <2>1, <2>2 DEF Left
  <2>6. job'[j].news = job[j].news /\ job'[j].comms = job[j].comms /\ job'[j].dels = job[j].dels \ {job[j].c}
    BY <2>1, <2>2, <2>3
  <2> QED BY <2>4, <2>5, <2>6
<1>3. CASE DelNode(j)
  <2>1. job' = job /\ pc[j] = "delnode" /\ pc'[j] = "delsize"
    BY <1>0, <1>3 DEF DelNode, At, Goes
  <2>2. job[j].c \in job[j].dels /\ job[j].dels \subseteq job[j].old.cmds \ job[j].new.cmds
    BY <1>0, <2>1 DEF LocalsAt, Working
  <2>3. Left(j) = job[j].comms \cup job[j].dels /\ Left(j)' = job[j].comms \cup (job[j].dels \ {job[j].c})
    BY <2>1 DEF Left
  <2>4. \A e \in Cmd \X Node \X Weights : e \in Listed' <=> e \in Listed /\ ~(e[1] = job[j].c /\ e[2] = job[j].old.node)
    BY <1>3, ListedMoves
  <2> QED BY <2>1, <2>2, <2>3, <2>4, ListedIs, ListedIsThen
<1>4. CASE ~DelNode(j)
  <2>0. Listed' = Listed
    BY <1>4, ListedMoves
  <2>1. CASE FindDomain(j)
    <3> DEFINE skip == root = Nil /\ pc[j] = "dels"
               k == [job[j] EXCEPT !.d = root, !.dels = IF skip THEN {} ELSE @]
    <3>1. job'[j] = k /\ pc'[j] \notin {"delsize", "delset"} /\ pc[j] \notin {"delsize", "delset"}
      BY <1>0, <2>1 DEF FindDomain, Goes, Rest
    <3>2. k.news = job[j].news /\ k.comms = job[j].comms /\ (~skip => k.dels = job[j].dels)
      BY <1>0 DEF Jobs
    <3>3. skip => Listed = {}
      BY DEF Listed
    <3> HIDE DEF k
    <3>4. ~skip => Left(j)' = Left(j)
      BY <3>1, <3>2 DEF Left
    <3> QED BY <2>0, <3>1, <3>2, <3>3, <3>4
  <2>2. ASSUME NEW c \in Cmd, DelFind(j, c) PROVE Claim
    <3> DEFINE k == [job[j] EXCEPT !.c = c, !.ns = sets[job[j].d][c]]
               without == [k EXCEPT !.dels = @ \ {c}]
    <3>1. /\ job'[j] = (IF k.ns = Nil THEN without ELSE k)
          /\ pc[j] = "del" /\ pc'[j] \notin {"delsize", "delset"}
      BY <1>0, <2>2 DEF DelFind, At, Goes, Rest
    <3>2. /\ k.news = job[j].news /\ k.comms = job[j].comms /\ k.dels = job[j].dels /\ k.ns = sets[job[j].d][c]
          /\ without.news = job[j].news /\ without.comms = job[j].comms /\ without.dels = job[j].dels \ {c}
      BY <1>0 DEF Jobs
    <3>3. job[j].d = root /\ root # Nil
      BY <1>0, <3>1 DEF Tidy, LocalsAt
    <3>4. k.ns = Nil => \A e \in Listed : e[1] # c
      BY <3>2, <3>3 DEF Listed
    <3> HIDE DEF k, without
    <3>5. CASE k.ns = Nil
      <4>1. Left(j) \ {c} \subseteq Left(j)'
        BY <3>1, <3>2, <3>5 DEF Left
      <4> QED BY <2>0, <3>1, <3>2, <3>4, <3>5, <4>1
    <3>6. CASE k.ns # Nil
      <4>1. Left(j)' = Left(j)
        BY <3>1, <3>2, <3>6 DEF Left
      <4> QED BY <1>1, <2>0, <3>1, <3>2, <3>6, <4>1
    <3> QED BY <3>5, <3>6
  <2>3. ASSUME NEW c \in Cmd, AddFind(j, c) PROVE Claim
    <3>1. /\ job' = [job EXCEPT ![j].c = c, ![j].ns = sets[job[j].d][c]]
          /\ pc[j] = "add" /\ pc'[j] \notin {"delsize", "delset"}
      BY <1>0, <2>3 DEF AddFind, At, Goes
    <3>2. job'[j].news = job[j].news /\ job'[j].comms = job[j].comms /\ job'[j].dels = job[j].dels
      BY <1>0, <3>1 DEF Jobs
    <3>3. Left(j)' = Left(j)
      BY <3>1, <3>2 DEF Left
    <3> QED BY <1>1, <2>0, <3>2, <3>3
  <2>4. CASE CreateDomain(j) \/ AddSet(j)
    <3>1. \/ job' = [job EXCEPT ![j].d = j]
          \/ job' = [job EXCEPT ![j].ns = j]
      BY <2>4 DEF CreateDomain, AddSet
    <3>2. pc[j] \notin {"delsize", "delset"} /\ pc'[j] \notin {"delsize", "delset"}
      BY <1>0, <2>4 DEF CreateDomain, AddSet, At, Goes
    <3>3. job'[j].news = job[j].news /\ job'[j].comms = job[j].comms /\ job'[j].dels = job[j].dels
      BY <1>0, <3>1 DEF Jobs
    <3>4. Left(j)' = Left(j)
      BY <3>2, <3>3 DEF Left
    <3> QED BY <1>1, <2>0, <3>3, <3>4
  <2>5. CASE DelSize(j)
    <3>1. CASE Goes(j, "delset") /\ UNCHANGED job
      <4>1. pc[j] = "delsize" /\ pc'[j] = "delset" /\ job' = job
        BY <1>0, <2>5, <3>1 DEF DelSize, At, Goes
      <4>2. Left(j)' = Left(j)
        BY <4>1 DEF Left
      <4> QED BY <1>1, <2>0, <4>1, <4>2
    <3>2. CASE Through(j)
      BY <1>1, <1>2, <2>0, <2>5, <3>2 DEF DelSize, At
    <3> QED BY <2>5, <3>1, <3>2 DEF DelSize
  <2>6. CASE DelSet(j)
    BY <1>1, <1>2, <2>0, <2>6 DEF DelSet, At
  <2> QED BY <1>4, <2>1, <2>2, <2>3, <2>4, <2>5, <2>6 DEF Work
<1> QED BY <1>3, <1>4

(* A listed entry and whose it is. *)
Excused(e) ==
  \/ \E s \in Stream : Settled(s) /\ e \in Entries(session[s])
  \/ \E j \in Call : /\ Changing(j)
                     /\ e \in Entries(job[j].new) \/ (e \in Entries(job[j].old) /\ e[1] \in Left(j))

LEMMA ExactStep ==
  ASSUME TypeInv, TypeInv', Apart, Apart', Compared, Compared', Tidy, Tidy', Found, Complete, Sound,
         NEW j \in Call, CallStep(j), ~raced'
  PROVE  Complete' /\ Sound'
<1> USE DEF Entries
<1>0. /\ job \in [Call -> Jobs] /\ pc \in [Call -> Points] /\ session \in [Stream -> Infos]
      /\ \A i \in Call : job[i] \in Jobs /\ LocalsAt(job[i], pc[i]) /\ job[i].new \in Infos /\ job[i].old \in Infos
      /\ \A i \in Infos : i.cmds \subseteq Cmd /\ (i.cmds # {} => i # NoInfo /\ i.node \in Node /\ i.weight \in Weights)
      /\ NoInfo.cmds = {}
  BY Types, InfoTypes DEF TypeInv, Jobs, NoInfo
<1>1. \A i \in Call \ {j} : /\ job'[i] = job[i] /\ pc'[i] = pc[i]
                            /\ (Changing(i)' <=> Changing(i)) /\ Left(i)' = Left(i)
  BY Frame DEF Changing, Left
<1>2. \A i \in Call : Changing(i) => Setting(i) /\ job[i].stream \in Stream
  BY <1>0 DEF Changing, Setting, Working, LocalsAt
<1>3. ASSUME ~Changing(j), ~Changing(j)', UNCHANGED <<session, tables>> PROVE Complete' /\ Sound'
  <2>1. Listed' = Listed
    BY <1>3 DEF Listed, tables
  <2>2. \A s \in Stream : Settled(s)' <=> Settled(s)
    BY <1>1, <1>3 DEF Settled
  <2> QED BY <1>1, <1>3, <2>1, <2>2 DEF Complete, Sound
<1>4. CASE Prepare(j)
  BY <1>3, <1>4, Preparing DEF Setting, Changing, Working
<1>5. CASE Connected(j)
  BY <1>0, <1>3, <1>5 DEF Connected, At, Goes, Changing, Working
<1>6. CASE Close(j)
  BY <1>0, <1>3, <1>6 DEF Close, At, Ends, Goes, Changing, Working
<1>7. CASE Diff(j)
  <2> DEFINE s == job[j].stream
             old == session[s]
             new == job[j].new
             k == [job[j] EXCEPT !.old = old, !.dels = old.cmds \ new.cmds, !.news = new.cmds \ old.cmds,
                                 !.comms = IF old.weight # new.weight THEN old.cmds \cap new.cmds ELSE {}]
  <2>1. /\ Setting(j) /\ ~Changing(j) /\ s \in Stream /\ session' = session /\ Listed' = Listed
        /\ job'[j] = k /\ pc'[j] = Rest(k)
    BY <1>0, <1>7 DEF Diff, At, Setting, Changing, Working, LocalsAt, Goes, Listed, tables
  <2>2. ~(old # NoInfo /\ new # NoInfo /\ old.node # new.node)
    BY <1>7 DEF Diff
  <2>3. /\ k.stream = s /\ k.old = old /\ k.new = new /\ k.dels = old.cmds \ new.cmds
        /\ k.news = new.cmds \ old.cmds
        /\ k.comms = IF old.weight # new.weight THEN old.cmds \cap new.cmds ELSE {}
    BY <1>0 DEF Jobs
  <2>4. Rest(k) \in Working /\ Rest(k) \notin {"delsize", "delset"}
    BY DEF Rest, Working
  <2> HIDE DEF k
  <2>5. Changing(j)' /\ Left(j)' = k.comms \cup k.dels
    BY <2>1, <2>4 DEF Changing, Left
  <2>6. /\ Settled(s) /\ ~Settled(s)'
        /\ \A t \in Stream \ {s} : Settled(t)' <=> Settled(t)
    <3>1. \A i \in Call \ {j} : Changing(i) => job[i].stream # s
      BY <1>2, <2>1 DEF Apart
    <3>2. job'[j].stream = s
      BY <2>1, <2>3
    <3> QED BY <1>1, <2>1, <2>5, <3>1, <3>2 DEF Settled
  <2>7. \A c \in old.cmds \cap new.cmds : c \notin k.comms => old.node = new.node /\ old.weight = new.weight
    BY <1>0, <2>1, <2>2, <2>3
  <2>8. Complete'
    <3>1. ASSUME NEW c \in new.cmds \ (k.news \cup k.comms) PROVE <<c, new.node, new.weight>> \in Listed
      <4>1. c \in old.cmds /\ old.node = new.node /\ old.weight = new.weight
        BY <2>3, <2>7
      <4>2. <<c, old.node, old.weight>> \in Listed
        BY <2>1, <2>6, <4>1 DEF Complete
      <4> QED BY <4>1, <4>2
    <3> QED BY <1>1, <2>1, <2>3, <2>6, <3>1 DEF Complete
  <2>9. ASSUME NEW e \in Listed PROVE Excused(e)'
    <3>1. ASSUME e \in Entries(old) PROVE Excused(e)'
      <4>1. PICK c \in old.cmds : e = <<c, old.node, old.weight>>
        BY <3>1
      <4>2. CASE c \in k.comms \cup k.dels
        BY <2>1, <2>3, <2>5, <3>1, <4>1, <4>2 DEF Excused
      <4>3. CASE c \notin k.comms \cup k.dels
        <5>1. c \in new.cmds /\ old.node = new.node /\ old.weight = new.weight
          BY <2>3, <2>7, <4>1, <4>3
        <5>2. e \in Entries(new)
          BY <4>1, <5>1
        <5> QED BY <2>1, <2>3, <2>5, <5>2 DEF Excused
      <4> QED BY <4>2, <4>3
    <3>2. CASE \E t \in Stream : Settled(t) /\ e \in Entries(session[t])
      <4>1. PICK t \in Stream : Settled(t) /\ e \in Entries(session[t])
        BY <3>2
      <4>2. t # s => Settled(t)' /\ session'[t] = session[t]
        BY <2>1, <2>6, <4>1
      <4> QED BY <3>1, <4>1, <4>2 DEF Excused
    <3>3. CASE \E i \in Call \ {j} : /\ Changing(i)
                                     /\ e \in Entries(job[i].new) \/ (e \in Entries(job[i].old) /\ e[1] \in Left(i))
      BY <1>1, <3>3 DEF Excused
    <3> QED BY <2>1, <2>9, <3>2, <3>3 DEF Sound
  <2> QED BY <2>1, <2>8, <2>9 DEF Sound, Excused
<1>8. CASE Store(j)
  <2>0. PICK s \in Stream : s = job[j].stream
    BY <1>0, <1>8 DEF Store, At, LocalsAt
  <2>1. /\ Changing(j) /\ Setting(j) /\ ~Changing(j)' /\ Listed' = Listed
        /\ session' = [session EXCEPT ![s] = job[j].new]
        /\ job[j].dels = {} /\ job[j].news = {} /\ job[j].comms = {}
    BY <1>0, <1>8, <2>0 DEF Store, At, Setting, Changing, Working, LocalsAt, Goes, Ends, Listed, tables
  <2>2. /\ \A t \in Stream : session'[t] = IF t = s THEN job[j].new ELSE session[t]
        /\ \A i \in Call \ {j} : Changing(i) => job[i].stream # s
        /\ \A t \in Stream \ {s} : Settled(t)' <=> Settled(t)
        /\ Settled(s)' /\ ~Settled(s)
    <3>1. \A t \in Stream : session'[t] = IF t = s THEN job[j].new ELSE session[t]
      BY <1>0, <2>1
    <3>2. \A i \in Call \ {j} : Changing(i) => job[i].stream # s
      BY <1>2, <2>0, <2>1 DEF Apart
    <3>3. \A t \in Stream \ {s} : Settled(t)' <=> Settled(t)
      BY <1>1, <2>0, <2>1 DEF Settled
    <3>4. Settled(s)' /\ ~Settled(s)
      BY <1>1, <2>0, <2>1, <3>2 DEF Settled
    <3> QED BY <3>1, <3>2, <3>3, <3>4
  <2>3. Left(j) = {}
    BY <2>1 DEF Left
  <2>4. Complete'
    BY <1>1, <2>1, <2>2 DEF Complete
  <2>5. Sound'
    <3>1. ASSUME NEW e \in Listed PROVE Excused(e)'
      <4>1. CASE \E t \in Stream : Settled(t) /\ e \in Entries(session[t])
        <5>1. PICK t \in Stream : Settled(t) /\ e \in Entries(session[t])
          BY <4>1
        <5>2. t # s /\ Settled(t)' /\ session'[t] = session[t]
          BY <2>2, <5>1
        <5> QED BY <5>1, <5>2 DEF Excused
      <4>2. CASE \E i \in Call \ {j} : /\ Changing(i)
                                       /\ e \in Entries(job[i].new) \/ (e \in Entries(job[i].old) /\ e[1] \in Left(i))
        BY <1>1, <4>2 DEF Excused
      <4>3. CASE e \in Entries(job[j].new) \/ (e \in Entries(job[j].old) /\ e[1] \in Left(j))
        BY <2>1, <2>2, <2>3, <4>3 DEF Excused
      <4> QED BY <3>1, <4>1, <4>2, <4>3 DEF Sound
    <3> QED BY <2>1, <3>1 DEF Sound, Excused
  <2> QED BY <2>4, <2>5
<1>9. CASE Work(j)
  <2>1. /\ Changing(j) /\ Changing(j)' /\ session' = session
        /\ job'[j].stream = job[j].stream /\ job'[j].new = job[j].new /\ job'[j].old = job[j].old
    BY <1>9, Looping DEF Changing
  <2>2. \A s \in Stream : Settled(s)' <=> Settled(s)
    BY <1>1, <2>1 DEF Settled
  <2>3. \A s \in Stream : Settled(s) => s # job[j].stream
    BY <2>1 DEF Settled
  <2>4. session[job[j].stream] = job[j].old /\ job[j].stream \in Stream
    BY <1>2, <2>1 DEF Compared
  <2>5. Listed \subseteq Cmd \X Node \X Weights /\ Listed' \subseteq Cmd \X Node \X Weights
    BY ListedIs, ListedIsThen
  <2>6. CASE ~AddNode(j)
    <3>1. /\ job[j].news \cup job[j].comms \subseteq job'[j].news \cup job'[j].comms
          /\ \A e \in Listed' : e \in Listed /\ (e[1] \in Left(j) /\ e[2] = job[j].old.node => e[1] \in Left(j)')
          /\ \A e \in Listed \ Listed' : e[1] \in job[j].old.cmds \ job[j].new.cmds /\ e[2] = job[j].old.node
      BY <1>9, <2>6, LoopLeft
    <3>2. ASSUME NEW s \in Stream, Settled(s), NEW c \in session[s].cmds
          PROVE  <<c, session[s].node, session[s].weight>> \in Listed'
      <4>1. <<c, session[s].node, session[s].weight>> \in Listed
        BY <3>2 DEF Complete
      <4>2. session[s] # NoInfo
        BY <1>0
      <4>3. session[s].node # job[j].old.node
        BY <2>3, <2>4, <3>2, <4>2 DEF Apart
      <4> QED BY <3>1, <4>1, <4>3
    <3>3. ASSUME NEW i \in Call \ {j}, Changing(i), NEW c \in job[i].new.cmds \ (job[i].news \cup job[i].comms)
          PROVE  <<c, job[i].new.node, job[i].new.weight>> \in Listed'
      <4>1. <<c, job[i].new.node, job[i].new.weight>> \in Listed
        BY <3>3 DEF Complete
      <4>2. job[i].new # NoInfo
        BY <1>0
      <4>3. job[i].new.node # job[j].old.node
        BY <1>2, <2>1, <3>3, <4>2 DEF Apart
      <4> QED BY <3>1, <4>1, <4>3
    <3>4. ASSUME NEW c \in job[j].new.cmds \ (job'[j].news \cup job'[j].comms)
          PROVE  <<c, job[j].new.node, job[j].new.weight>> \in Listed'
      <4>1. <<c, job[j].new.node, job[j].new.weight>> \in Listed
        BY <2>1, <3>1 DEF Complete
      <4> QED BY <3>1, <4>1
    <3>5. Complete'
      BY <1>1, <2>1, <2>2, <3>2, <3>3, <3>4 DEF Complete
    <3>6. ASSUME NEW e \in Listed' PROVE Excused(e)'
      <4>0. e \in Listed /\ (e[1] \in Left(j) /\ e[2] = job[j].old.node => e[1] \in Left(j)')
        BY <3>1
      <4>1. CASE \E t \in Stream : Settled(t) /\ e \in Entries(session[t])
        BY <2>1, <2>2, <4>1 DEF Excused
      <4>2. CASE \E i \in Call \ {j} : /\ Changing(i)
                                       /\ e \in Entries(job[i].new) \/ (e \in Entries(job[i].old) /\ e[1] \in Left(i))
        BY <1>1, <4>2 DEF Excused
      <4>3. CASE e \in Entries(job[j].new)
        BY <2>1, <4>3 DEF Excused
      <4>4. CASE e \in Entries(job[j].old) /\ e[1] \in Left(j)
        BY <2>1, <4>0, <4>4 DEF Excused
      <4> QED BY <4>0, <4>1, <4>2, <4>3, <4>4 DEF Sound
    <3> QED BY <3>5, <3>6 DEF Sound, Excused
  <2>7. CASE AddNode(j)
    <3> DEFINE c == job[j].c
               new == job[j].new
    <3>1. /\ new # NoInfo /\ c \in new.cmds /\ c \in Cmd /\ new.node \in Node /\ new.weight \in Weights
          /\ c \in job[j].news \cup job[j].comms /\ pc[j] = "addnode" /\ Through(j)
      BY <1>0, <2>7, Written DEF AddNode, At, LocalsAt
    <3>2. PICK k \in Jobs, to \in Points :
            /\ GoesWith(j, k, to) /\ to \in {"dels", "news", "comms", "store", "del", "add"}
            /\ k.dels = job[j].dels \ {c} /\ k.news = job[j].news \ {c} /\ k.comms = job[j].comms \ {c}
      BY <3>1, ThroughGoes
    <3>3. job'[j] = k /\ pc'[j] = to
      BY <1>0, <3>2 DEF GoesWith
    <3>4. /\ Left(j) \ {c} \subseteq Left(j)'
          /\ c \in Left(j) => c \in job[j].comms
      <4>1. c \notin job[j].dels
        BY <1>0, <3>1 DEF LocalsAt, Working
      <4> QED BY <3>1, <3>2, <3>3, <4>1 DEF Left
    <3>5. \A e \in Cmd \X Node \X Weights :
            e \in Listed' <=> IF e[1] = c /\ e[2] = new.node THEN e[3] = new.weight ELSE e \in Listed
      BY <2>7, ListedMoves
    <3>6. <<c, new.node, new.weight>> \in Listed'
      BY <3>1, <3>5
    <3>7. \A e \in Listed : e[2] # new.node \/ e[1] # c => e \in Listed'
      BY <2>5, <3>5
    <3> HIDE DEF c
    <3>8. ASSUME NEW s \in Stream, Settled(s), NEW y \in session[s].cmds
          PROVE  <<y, session[s].node, session[s].weight>> \in Listed'
      <4>1. <<y, session[s].node, session[s].weight>> \in Listed
        BY <3>8 DEF Complete
      <4>2. session[s].node # new.node
        BY <1>2, <2>1, <2>3, <3>1, <3>8 DEF Apart
      <4> QED BY <3>7, <4>1, <4>2
    <3>9. ASSUME NEW i \in Call \ {j}, Changing(i), NEW y \in job[i].new.cmds \ (job[i].news \cup job[i].comms)
          PROVE  <<y, job[i].new.node, job[i].new.weight>> \in Listed'
      <4>1. <<y, job[i].new.node, job[i].new.weight>> \in Listed
        BY <3>9 DEF Complete
      <4>2. job[i].new.node # new.node
        BY <1>2, <2>1, <3>1, <3>9 DEF Apart
      <4> QED BY <3>7, <4>1, <4>2
    <3>10. ASSUME NEW y \in new.cmds \ (k.news \cup k.comms)
           PROVE  <<y, new.node, new.weight>> \in Listed'
      <4>1. CASE y = c
        BY <3>6, <4>1
      <4>2. CASE y # c
        <5>1. <<y, new.node, new.weight>> \in Listed
          BY <2>1, <3>2, <4>2 DEF Complete, c
        <5> QED BY <3>7, <4>2, <5>1
      <4> QED BY <4>1, <4>2
    <3>11. Complete'
      BY <1>1, <2>1, <2>2, <3>3, <3>8, <3>9, <3>10 DEF Complete
    <3>12. ASSUME NEW e \in Listed' PROVE Excused(e)'
      <4>1. CASE e[1] = c /\ e[2] = new.node
        <5>1. e = <<c, new.node, new.weight>>
          BY <2>5, <3>5, <4>1
        <5>2. e \in Entries(new)
          BY <3>1, <5>1
        <5> QED BY <2>1, <5>2 DEF Excused
      <4>2. CASE ~(e[1] = c /\ e[2] = new.node)
        <5>0. e \in Listed
          BY <2>5, <3>5, <4>2
        <5>1. CASE \E t \in Stream : Settled(t) /\ e \in Entries(session[t])
          BY <2>1, <2>2, <5>1 DEF Excused
        <5>2. CASE \E i \in Call \ {j} : /\ Changing(i)
                                         /\ e \in Entries(job[i].new) \/ (e \in Entries(job[i].old) /\ e[1] \in Left(i))
          BY <1>1, <5>2 DEF Excused
        <5>3. CASE e \in Entries(new)
          BY <2>1, <5>3 DEF Excused
        <5>4. CASE e \in Entries(job[j].old) /\ e[1] \in Left(j)
          <6>1. e[2] = job[j].old.node /\ e[1] \in job[j].old.cmds
            BY <5>4
          <6>2. job[j].old.node = new.node
            BY <1>0, <2>1, <3>1, <6>1 DEF Compared
          <6>3. e[1] \in Left(j)'
            BY <3>4, <4>2, <5>4, <6>1, <6>2
          <6> QED BY <2>1, <5>4, <6>3 DEF Excused
        <5> QED BY <5>0, <5>1, <5>2, <5>3, <5>4 DEF Sound
      <4> QED BY <4>1, <4>2
    <3> QED BY <3>11, <3>12 DEF Sound, Excused
  <2> QED BY <2>6, <2>7
<1> QED BY <1>4, <1>5, <1>6, <1>7, <1>8, <1>9, StepKinds

LEMMA ExactInit == Init => Exact
<1> SUFFICES ASSUME Init PROVE Exact
  OBVIOUS
<1>1. /\ \A j \in Call : ~Setting(j) /\ ~Changing(j) /\ pc[j] = "new" /\ job[j] = Blank
      /\ \A s \in Stream : session[s] = NoInfo
      /\ Listed = {} /\ Entries(NoInfo) = {} /\ root = Nil
  BY DEF Init, Setting, Changing, Working, Listed, Entries, NoInfo
<1>2. Apart /\ Compared /\ Found
  BY <1>1 DEF Apart, Compared, Found
<1>3. Tidy
  BY <1>1 DEF Tidy, Init, Blank
<1>4. Complete /\ Sound
  BY <1>1 DEF Complete, Sound
<1> QED BY <1>2, <1>3, <1>4 DEF Exact

LEMMA ExactNext == TypeInv /\ TypeInv' /\ Exact /\ [Next]_vars => Exact'
<1> SUFFICES ASSUME TypeInv, TypeInv', Exact, [Next]_vars, ~raced' PROVE Exact'
  BY DEF Exact
<1>1. ASSUME NEW j \in Call, CallStep(j) PROVE Exact'
  <2>1. ~raced
    BY <1>1, Frame
  <2>2. Apart /\ Compared /\ Tidy /\ Found /\ Complete /\ Sound
    BY <2>1 DEF Exact
  <2>3. Apart' /\ Compared' /\ Tidy' /\ Found'
    BY <1>1, <2>2, ApartStep, TidyStep, FoundStep
  <2>4. Complete' /\ Sound'
    BY <1>1, <2>2, <2>3, ExactStep
  <2> QED BY <2>3, <2>4 DEF Exact
<1>2. ASSUME UNCHANGED <<open, session, tables, job, pc, dropped, raced>> PROVE Exact'
  <2>1. UNCHANGED <<session, root, sets, nodes, job, pc, raced>>
    BY <1>2 DEF tables
  <2>2. Listed' = Listed
    BY <2>1 DEF Listed
  <2>3. \A s \in Stream : Settled(s)' <=> Settled(s)
    BY <2>1 DEF Settled, Changing
  <2>4. Apart' /\ Compared' /\ Tidy' /\ Found'
    <3>1. Apart /\ Compared /\ Tidy /\ Found
      BY <2>1 DEF Exact
    <3>2. \A j \in Call : (Setting(j)' <=> Setting(j)) /\ (Changing(j)' <=> Changing(j))
      BY <2>1 DEF Setting, Changing
    <3>3. Apart'
      BY <2>1, <3>1, <3>2 DEF Apart
    <3>4. Compared'
      BY <2>1, <3>1, <3>2 DEF Compared
    <3>5. Tidy' /\ Found'
      BY <2>1, <3>1 DEF Tidy, Found
    <3> QED BY <3>3, <3>4, <3>5
  <2>5. Complete'
    BY <2>1, <2>2, <2>3 DEF Exact, Complete, Changing
  <2>6. Sound'
    BY <2>1, <2>2, <2>3 DEF Exact, Sound, Changing, Left
  <2> QED BY <2>4, <2>5, <2>6 DEF Exact
<1>3. CASE HandleQuery
  BY <1>2, <1>3 DEF HandleQuery, Query, QueryDomain, QuerySets, QueryNodes, Answer, Asks
<1>4. CASE UNCHANGED vars
  BY <1>2, <1>4 DEF vars
<1> QED BY <1>1, <1>3, <1>4, Steps

LEMMA ExactAlways == Spec => [](TypeInv /\ Exact)
<1>1. Init => TypeInv /\ Exact
  BY TypeInit, ExactInit
<1>2. TypeInv /\ Exact /\ [Next]_vars => TypeInv' /\ Exact'
  BY TypeStep, ExactNext
<1> QED BY <1>1, <1>2, PTL DEF Spec

(* A stream that no call is setting is settled. *)
LEMMA IdleIsSettled == ASSUME NEW s \in Stream \ Busy PROVE Settled(s)
BY DEF Busy, Settled, Changing, Setting, Working

(* Whatever overlaps, up to a marked race no step of another stream's call *)
(* takes what a stream has registered out of the directory.                *)
THEOREM NoneLostHolds == Spec => []NoneLost
<1>1. TypeInv /\ Exact => NoneLost
  BY IdleIsSettled DEF Exact, Complete, NoneLost
<1> QED BY <1>1, ExactAlways, PTL

(* Whatever overlaps, up to a marked race the directory holds nothing that is *)
(* neither registered nor being changed.                                      *)
THEOREM NoneLeftHolds == Spec => []NoneLeft
<1>1. Exact => NoneLeft
  <2> SUFFICES ASSUME Exact, ~raced, NEW e \in Listed
               PROVE  \/ e \in UNION {Entries(session[s]) : s \in Stream}
                      \/ e \in UNION {Entries(job[j].old) \cup Entries(job[j].new) : j \in {k \in Call : Setting(k)}}
    BY DEF NoneLeft
  <2>1. \A j \in Call : Changing(j) => Setting(j)
    BY DEF Changing, Setting, Working
  <2> QED BY <2>1 DEF Exact, Sound
<1> QED BY <1>1, ExactAlways, PTL

------------------------------------------------------------------------------
(* Sessions and their connections *)

(* What a session or a call that is to write it needs. *)
Vouched(j) == /\ job[j].fiber => job[j].new = NoInfo
              /\ Setting(j) /\ job[j].new # NoInfo => open[job[j].stream] \/ job[j].stream \in dropped
              /\ pc[j] = "close" => session[job[j].stream] = NoInfo

Alive == raced \/ (SessionIsConnected /\ \A j \in Call : Vouched(j))

LEMMA AliveStep ==
  ASSUME TypeInv, TypeInv', Exact, Alive, NEW j \in Call, CallStep(j)
  PROVE  Alive'
<1> SUFFICES ASSUME ~raced' PROVE SessionIsConnected' /\ \A i \in Call : Vouched(i)'
  BY DEF Alive
<1>0. /\ job \in [Call -> Jobs] /\ pc \in [Call -> Points] /\ session \in [Stream -> Infos] /\ open \in [Stream -> BOOLEAN]
      /\ \A i \in Call : job[i] \in Jobs /\ LocalsAt(job[i], pc[i])
  BY Types DEF TypeInv
<1>1. /\ \A i \in Call \ {j} : job'[i] = job[i] /\ pc'[i] = pc[i] /\ (Setting(i)' <=> Setting(i))
      /\ ~raced
  BY Frame DEF Setting
<1>2. /\ \A s \in Stream : \/ s \in dropped \/ session[s] = NoInfo \/ open[s]
                           \/ \E i \in Call : Setting(i) /\ job[i].stream = s
      /\ \A i \in Call : Vouched(i)
      /\ \A i, k \in Call : Setting(i) /\ Setting(k) /\ i # k => job[i].stream # job[k].stream
  BY <1>1 DEF Alive, SessionIsConnected, Busy, Exact, Apart
<1>3. ASSUME \A s \in Stream : \/ s \in dropped' \/ session'[s] = NoInfo \/ open'[s]
                               \/ \E i \in Call : Setting(i)' /\ job'[i].stream = s
      PROVE  SessionIsConnected'
  BY <1>3 DEF SessionIsConnected, Busy
<1>4. CASE Prepare(j)
  <2>1. ~Setting(j) /\ ~Setting(j)' /\ session' = session
    BY <1>4, Preparing
  <2>2. /\ dropped \subseteq dropped'
        /\ \A s \in Stream : open[s] => open'[s] \/ s \in dropped'
        /\ job'[j].fiber => job'[j].new = NoInfo
    <3>1. ASSUME NEW s \in Stream, Disconnect(j, s)
          PROVE  open' = open /\ dropped' = dropped /\ job'[j].new = NoInfo
      BY <1>0, <3>1 DEF Disconnect, Blank
    <3>2. ASSUME NEW s \in Stream, NEW o \in Infos, Register(j, s, o)
          PROVE  open' = open /\ dropped' = dropped /\ ~job'[j].fiber
      BY <1>0, <3>2 DEF Register, Blank
    <3>3. CASE Validate(j)
      BY <1>2, <3>3 DEF Validate, Vouched
    <3>4. CASE Reject(j)
      BY <1>0, <3>4 DEF Reject, Ends, Blank
    <3> QED BY <1>4, <3>1, <3>2, <3>3, <3>4 DEF Prepare
  <2>3. \A i \in Call \ {j} : Setting(i) => job[i].stream \in Stream
    BY <1>0 DEF Setting, LocalsAt
  <2>4. \A i \in Call \ {j} : Vouched(i)'
    BY <1>1, <1>2, <2>1, <2>2, <2>3 DEF Vouched
  <2>5. Vouched(j)'
    BY <2>1, <2>2 DEF Vouched, Setting
  <2> QED BY <1>1, <1>2, <1>3, <2>1, <2>2, <2>4, <2>5
<1>5. CASE Connected(j)
  <2>1. /\ session' = session /\ open' = open /\ dropped' = dropped /\ pc'[j] = "old" /\ pc[j] = "connected"
        /\ job'[j].stream = job[j].stream /\ job'[j].fiber = job[j].fiber
        /\ job'[j].new = IF open[job[j].stream] THEN job[j].new ELSE NoInfo
    <3>1. job' = [job EXCEPT ![j].new = IF open[job[j].stream] THEN job[j].new ELSE NoInfo]
      BY <1>5 DEF Connected
    <3>2. job[j] \in Jobs
      BY <1>0
    <3>3. /\ job'[j].stream = job[j].stream /\ job'[j].fiber = job[j].fiber
          /\ job'[j].new = IF open[job[j].stream] THEN job[j].new ELSE NoInfo
      BY <1>0, <3>1, <3>2 DEF Jobs
    <3> QED BY <1>0, <1>5, <3>3 DEF Connected, At, Goes
  <2>2. ~Setting(j) /\ Setting(j)'
    BY <2>1 DEF Setting
  <2>3. \A i \in Call : Vouched(i)'
    BY <1>1, <1>2, <2>1 DEF Vouched, Setting
  <2> QED BY <1>1, <1>2, <1>3, <2>1, <2>2, <2>3
<1>6. CASE Diff(j) \/ Work(j)
  <2>1. /\ session' = session /\ open' = open /\ dropped' = dropped /\ Setting(j) /\ Setting(j)' /\ pc'[j] # "close"
        /\ job'[j].stream = job[j].stream /\ job'[j].fiber = job[j].fiber /\ job'[j].new = job[j].new
    <3>1. CASE Diff(j)
      <4>1. PICK old, dels, news, comms :
              job' = [job EXCEPT ![j] = [job[j] EXCEPT !.old = old, !.dels = dels, !.news = news, !.comms = comms]]
        BY <3>1 DEF Diff
      <4>2. job[j] \in Jobs
        BY <1>0
      <4>3. job'[j].stream = job[j].stream /\ job'[j].fiber = job[j].fiber /\ job'[j].new = job[j].new
        BY <1>0, <4>1, <4>2 DEF Jobs
      <4>4. pc'[j] \in Working /\ pc[j] = "old"
        BY <1>0, <3>1 DEF Diff, At, Goes, Rest, Working
      <4> QED BY <3>1, <4>3, <4>4 DEF Diff, Setting, Working
    <3>2. CASE Work(j)
      BY <3>2, Looping DEF Setting, Working
    <3> QED BY <1>6, <3>1, <3>2
  <2>2. \A i \in Call : Vouched(i)'
    BY <1>1, <1>2, <2>1 DEF Vouched
  <2> QED BY <1>1, <1>2, <1>3, <2>1, <2>2
<1>7. CASE Store(j)
  <2>0. PICK s \in Stream : s = job[j].stream
    BY <1>0, <1>7 DEF Store, At, LocalsAt
  <2>1. /\ open' = open /\ dropped' = dropped /\ Setting(j) /\ pc'[j] \in {"close", "done"}
        /\ \A t \in Stream : session'[t] = IF t = s THEN job[j].new ELSE session[t]
        /\ pc'[j] = "close" => job[j].fiber /\ job'[j] = job[j]
        /\ pc'[j] = "done" => job'[j] = Blank
    BY <1>0, <1>7, <2>0 DEF Store, At, Setting, Goes, Ends
  <2>2. \A i \in Call \ {j} : Vouched(i)'
    <3>1. \A i \in Call \ {j} : Setting(i) => job[i].stream \in Stream \ {s}
      BY <1>0, <1>2, <2>0, <2>1 DEF Setting, LocalsAt
    <3> QED BY <1>1, <1>2, <2>1, <3>1 DEF Vouched, Setting
  <2>3. Vouched(j)'
    BY <1>2, <2>0, <2>1 DEF Vouched, Setting, Blank
  <2>4. \/ s \in dropped' \/ session'[s] = NoInfo \/ open'[s]
    BY <1>2, <2>0, <2>1 DEF Vouched
  <2>5. ASSUME NEW t \in Stream \ {s}
        PROVE  \/ t \in dropped' \/ session'[t] = NoInfo \/ open'[t]
               \/ \E i \in Call : Setting(i)' /\ job'[i].stream = t
    BY <1>1, <1>2, <2>0, <2>1
  <2> QED BY <1>3, <2>2, <2>3, <2>4, <2>5
<1>8. CASE Close(j)
  <2>0. PICK s \in Stream : s = job[j].stream
    BY <1>0, <1>8 DEF Close, At, LocalsAt
  <2>1. /\ session' = session /\ dropped' = dropped /\ Setting(j) /\ pc[j] = "close" /\ pc'[j] = "done" /\ job'[j] = Blank
        /\ \A t \in Stream \ {s} : open'[t] <=> open[t]
    <3>1. open' = [open EXCEPT ![s] = FALSE]
      BY <1>8, <2>0 DEF Close
    <3>2. \A t \in Stream \ {s} : open'[t] <=> open[t]
      BY <1>0, <3>1
    <3> QED BY <1>0, <1>8, <3>2 DEF Close, At, Setting, Goes, Ends
  <2>2. session[s] = NoInfo
    BY <1>2, <2>0, <2>1 DEF Vouched
  <2>3. \A i \in Call \ {j} : Vouched(i)'
    <3>1. \A i \in Call \ {j} : Setting(i) => job[i].stream \in Stream \ {s}
      BY <1>0, <1>2, <2>0, <2>1 DEF Setting, LocalsAt
    <3> QED BY <1>1, <1>2, <2>1, <3>1 DEF Vouched, Setting
  <2>4. Vouched(j)'
    BY <2>1 DEF Vouched, Setting, Blank
  <2>5. ASSUME NEW t \in Stream \ {s}
        PROVE  \/ t \in dropped' \/ session'[t] = NoInfo \/ open'[t]
               \/ \E i \in Call : Setting(i)' /\ job'[i].stream = t
    BY <1>1, <1>2, <2>0, <2>1
  <2> QED BY <1>3, <2>1, <2>2, <2>3, <2>4, <2>5
<1> QED BY <1>4, <1>5, <1>6, <1>7, <1>8, StepKinds

(* Up to a marked race, a session that no call is setting is one of a connected *)
(* stream or of one that handleRequest has closed.                              *)
THEOREM SessionIsConnectedHolds == Spec => []SessionIsConnected
<1>1. Init => Alive
  BY DEF Init, Alive, SessionIsConnected, Vouched, Blank, Setting
<1>2. TypeInv /\ TypeInv' /\ Exact /\ Alive /\ [Next]_vars => Alive'
  <2> SUFFICES ASSUME TypeInv, TypeInv', Exact, Alive, [Next]_vars PROVE Alive'
    OBVIOUS
  <2>1. ASSUME UNCHANGED <<open, session, job, pc, dropped, raced>> PROVE Alive'
    BY <2>1 DEF Alive, SessionIsConnected, Busy, Vouched, Setting
  <2>2. CASE HandleQuery
    BY <2>1, <2>2 DEF HandleQuery, Query, QueryDomain, QuerySets, QueryNodes, Answer, Asks
  <2> QED BY <2>1, <2>2, AliveStep, Steps DEF vars
<1>3. Alive => SessionIsConnected
  BY DEF Alive, SessionIsConnected
<1> QED BY <1>1, <1>2, <1>3, ExactAlways, PTL DEF Spec

------------------------------------------------------------------------------
(* Queries *)

(* The set of a listed entry stays in the directory as long as no race is marked. *)
LEMMA SetsStay ==
  ASSUME TypeInv, Tidy, NEW j \in Call, CallStep(j), ~raced'
  PROVE  /\ root # Nil => root' = root
         /\ \A e \in Listed : sets'[root'][e[1]] = sets[root][e[1]]
<1>0. /\ sets \in [Call -> [Cmd -> Call \cup {Nil}]] /\ root \in Call \cup {Nil} /\ LocalsAt(job[j], pc[j])
      /\ job[j] \in Jobs /\ Weights \subseteq Nat \ {0} /\ Nil \notin Call
      /\ Listed \subseteq Cmd \X Node \X Weights
  BY Types, InfoTypes, ListedIs DEF TypeInv
<1>1. \A e \in Listed : /\ e[1] \in Cmd /\ e[2] \in Node /\ root \in Call /\ sets[root][e[1]] # Nil
                        /\ nodes[<<sets[root][e[1]], e[1]>>][e[2]] # 0
  BY <1>0 DEF Listed
<1>2. CASE UNCHANGED <<root, sets>>
  BY <1>2
<1>3. CASE CreateDomain(j)
  <2>1. root = Nil
    BY <1>3, ZenonT(20) DEF CreateDomain
  <2> QED BY <1>0, <1>1, <2>1
<1>4. CASE DelSet(j)
  <2> DEFINE d == job[j].d
             c == job[j].c
  <2>1. /\ sets' = [sets EXCEPT ![d][c] = Nil] /\ root' = root /\ pc[j] = "delset"
        /\ sets[d][c] = job[j].ns /\ Empty(job[j].ns, c)
    BY <1>4, ZenonT(20) DEF DelSet, At
  <2>2. d \in Call /\ c \in Cmd /\ d = root
    BY <1>0, <2>1 DEF LocalsAt, Jobs, Tidy
  <2>3. \A e \in Listed : e[1] # c
    BY <1>1, <2>1, <2>2 DEF Empty
  <2> HIDE DEF d, c
  <2> QED BY <1>0, <1>1, <2>1, <2>2, <2>3
<1>5. CASE AddSet(j)
  <2> DEFINE d == job[j].d
             c == job[j].c
  <2>1. /\ sets' = [sets EXCEPT ![d][c] = j] /\ root' = root /\ pc[j] = "addset" /\ sets[d][c] = Nil
    BY <1>5 DEF AddSet, At
  <2>2. d \in Call /\ c \in Cmd /\ d = root
    BY <1>0, <2>1 DEF LocalsAt, Jobs, Tidy
  <2>3. \A e \in Listed : e[1] # c
    BY <1>1, <2>1, <2>2
  <2> HIDE DEF d, c
  <2> QED BY <1>0, <1>1, <2>1, <2>2, <2>3
<1>6. CASE ~CreateDomain(j) /\ ~DelSet(j) /\ ~AddSet(j)
  BY <1>2, <1>6 DEF CallStep, Handle, Set, Register, Disconnect, Validate, Reject, Connected, Diff, FindDomain,
    DelFind, AddFind, DelSize, DelNode, AddNode, Store, Close, tables
<1> QED BY <1>3, <1>4, <1>5, <1>6

LEMMA RegularStep ==
  ASSUME TypeInv, TypeInv', Exact, Regular, [Next]_vars
  PROVE  Regular'
<1> SUFFICES ASSUME ~raced', query'.at # "none" PROVE Watching'
  BY DEF Regular, Watching
<1> DEFINE QT == [at : {"none", "domain", "sets", "nodes", "answer"}, d : Call \cup {Nil},
                  todo : SUBSET (Call \X Cmd), got : SUBSET (Cmd \X Node \X Weights),
                  always : SUBSET (Cmd \X Node \X Weights), ever : SUBSET (Cmd \X Node \X Weights)]
<1>0. /\ query \in QT
      /\ sets \in [Call -> [Cmd -> Call \cup {Nil}]] /\ root \in Call \cup {Nil}
      /\ nodes \in [Call \X Cmd -> [Node -> Weights \cup {0}]] /\ Weights \subseteq Nat \ {0} /\ Nil \notin Call
  BY Types, InfoTypes DEF TypeInv
<1>1. ASSUME NEW j \in Call, CallStep(j), Watched PROVE Watching'
  <2>1. ~raced
    BY <1>1, Frame
  <2>2. query.at # "none" /\ query' = [query EXCEPT !.always = @ \cap Listed', !.ever = @ \cup Listed']
    BY <1>1 DEF Watched
  <2>3. /\ query'.at = query.at /\ query'.got = query.got /\ query'.d = query.d /\ query'.todo = query.todo
        /\ query'.always = query.always \cap Listed' /\ query'.ever = query.ever \cup Listed'
    BY <1>0, <2>2
  <2>4. Watching /\ Tidy
    BY <2>1 DEF Regular, Exact
  <2>5. (root # Nil => root' = root) /\ \A e \in Listed : sets'[root'][e[1]] = sets[root][e[1]]
    BY <1>1, <2>4, SetsStay
  <2>6. query.at = "sets" => query.d = root /\ root # Nil
    BY <1>0, <2>2, <2>4 DEF Watching, TypeInv, QueryLocals
  <2> QED BY <2>2, <2>3, <2>4, <2>5, <2>6 DEF Watching
<1>2. ASSUME UNCHANGED <<open, session, tables, job, pc, dropped, raced>>
      PROVE  Listed' = Listed /\ UNCHANGED <<root, sets, nodes>> /\ Tidy /\ (query.at # "none" => Watching)
  BY <1>2 DEF Listed, tables, Regular, Exact, Watching
<1>3. Listed \subseteq Cmd \X Node \X Weights
  BY DEF Listed, Weights
<1>4. CASE HandleQuery
  <2>0. UNCHANGED <<open, session, tables, job, pc, dropped, raced>>
    BY <1>4 DEF HandleQuery, Query, QueryDomain, QuerySets, QueryNodes, Answer, Asks
  <2>1. CASE Query
    <3>1. query' = [at |-> "domain", d |-> Nil, todo |-> {}, got |-> {}, always |-> Listed, ever |-> Listed]
      BY <2>1 DEF Query, Asks, NoQuery
    <3> QED BY <1>2, <2>0, <3>1 DEF Watching
  <2>2. CASE QueryDomain
    <3>1. /\ query.at = "domain" /\ query'.at = (IF root = Nil THEN "answer" ELSE "sets") /\ query'.d = root
          /\ query'.got = query.got /\ query'.always = query.always /\ query'.ever = query.ever
      BY <1>0, <2>2 DEF QueryDomain, Asks
    <3>2. root = Nil => Listed = {}
      BY DEF Listed
    <3> QED BY <1>2, <2>0, <3>1, <3>2 DEF Watching
  <2>3. CASE QuerySets
    <3> DEFINE found == {x \in Call \X Cmd : sets[query.d][x[2]] = x[1]}
    <3>1. /\ query.at = "sets" /\ query' = [query EXCEPT !.at = IF found = {} THEN "answer" ELSE "nodes", !.todo = found]
      BY <2>3 DEF QuerySets, Asks
    <3>2. /\ query'.at = (IF found = {} THEN "answer" ELSE "nodes") /\ query'.todo = found
          /\ query'.got = query.got /\ query'.always = query.always /\ query'.ever = query.ever
      BY <1>0, <3>1
    <3>3. query.d = root /\ root \in Call /\ query.got = {} /\ query.always \subseteq Listed
      BY <1>0, <1>2, <2>0, <3>1 DEF Watching, TypeInv, QueryLocals
    <3>4. \A e \in Listed : <<sets[root][e[1]], e[1]>> \in found
      <4>1. ASSUME NEW e \in Listed PROVE sets[root][e[1]] \in Call /\ e[1] \in Cmd
        <5>1. e[1] \in Cmd /\ sets[root][e[1]] # Nil
          BY <1>3 DEF Listed
        <5> QED BY <1>0, <3>3, <5>1
      <4> QED BY <3>3, <4>1
    <3> HIDE DEF found
    <3>5. Listed' = Listed /\ root' = root /\ sets' = sets /\ Watching
      BY <1>2, <2>0, <3>1
    <3>6. found = {} => query.always = {}
      BY <3>3, <3>4
    <3>7. \A e \in query.always : <<sets[root][e[1]], e[1]>> \in found
      BY <3>3, <3>4
    <3>8. query.always \subseteq Listed /\ Listed \subseteq query.ever /\ query.got \subseteq query.ever
      BY <3>1, <3>5 DEF Watching
    <3>9. CASE found = {}
      BY <3>2, <3>5, <3>6, <3>8, <3>9 DEF Watching
    <3>10. CASE found # {}
      BY <3>2, <3>5, <3>7, <3>8, <3>10 DEF Watching
    <3> QED BY <3>9, <3>10
  <2>4. ASSUME NEW x \in query.todo, QueryNodes(x) PROVE Watching'
    <3> DEFINE new == {<<x[2], n, nodes[x][n]>> : n \in {n \in Node : nodes[x][n] # 0}}
    <3>1. query.at = "nodes" /\ query' = [query EXCEPT !.at = IF query.todo = {x} THEN "answer" ELSE @,
                                                       !.todo = @ \ {x}, !.got = @ \cup new]
      BY <2>4 DEF QueryNodes, Asks
    <3>2. /\ query'.at = (IF query.todo = {x} THEN "answer" ELSE "nodes") /\ query'.todo = query.todo \ {x}
          /\ query'.got = query.got \cup new /\ query'.always = query.always /\ query'.ever = query.ever
      BY <1>0, <3>1
    <3>3. x \in Call \X Cmd
      BY <1>0
    <3>4. new \subseteq Listed
      <4>1. ASSUME NEW n \in Node, nodes[x][n] # 0 PROVE <<x[2], n, nodes[x][n]>> \in Listed
        <5>1. PICK d \in Call, c \in Cmd : x = <<d, c>>
          BY <3>3
        <5>2. root # Nil /\ sets[root][c] = d
          BY <1>2, <2>0, <4>1, <5>1 DEF Tidy
        <5>3. nodes[x][n] \in Weights
          BY <1>0, <3>3, <4>1
        <5> QED BY <1>0, <4>1, <5>1, <5>2, <5>3 DEF Listed, Weights
      <4> QED BY <4>1
    <3>5. \A e \in Listed : <<sets[root][e[1]], e[1]>> = x => e \in new
      <4>1. ASSUME NEW e \in Listed, <<sets[root][e[1]], e[1]>> = x PROVE e \in new
        <5>1. /\ e[1] \in Cmd /\ e[2] \in Node /\ e[3] \in Weights /\ e = <<e[1], e[2], e[3]>>
              /\ nodes[x][e[2]] = e[3] /\ x[2] = e[1]
          BY <1>3, <4>1 DEF Listed
        <5>2. e[3] # 0
          BY <1>0, <5>1
        <5> QED BY <5>1, <5>2
      <4> QED BY <4>1
    <3> HIDE DEF new
    <3>6. Listed' = Listed /\ root' = root /\ sets' = sets /\ Watching
      BY <1>2, <2>0, <3>1
    <3>7. /\ query.always \subseteq Listed /\ Listed \subseteq query.ever /\ query.got \subseteq query.ever
          /\ \A e \in query.always \ query.got : <<sets[root][e[1]], e[1]>> \in query.todo
      BY <3>1, <3>6 DEF Watching
    <3>8. \A e \in query.always \ (query.got \cup new) : <<sets[root][e[1]], e[1]>> \in query.todo \ {x}
      BY <3>5, <3>7
    <3>9. query.todo = {x} => query.always \subseteq query.got \cup new
      BY <3>8
    <3> QED BY <3>2, <3>4, <3>6, <3>7, <3>8, <3>9 DEF Watching
  <2>5. CASE Answer
    BY <2>5 DEF Answer, Asks, NoQuery
  <2> QED BY <1>4, <2>1, <2>2, <2>3, <2>4, <2>5 DEF HandleQuery
<1>5. CASE UNCHANGED vars
  <2>1. UNCHANGED <<open, session, tables, job, pc, dropped, raced>> /\ query' = query
    BY <1>5 DEF vars
  <2> QED BY <1>2, <2>1 DEF Watching
<1> QED BY <1>1, <1>4, <1>5, Steps

(* Up to a marked race, the answer to a query holds what was listed all the time, *)
(* and nothing that was not listed at some time, while the query ran.             *)
THEOREM QueryIsRegularHolds == Spec => []QueryIsRegular
<1>1. Init => Regular
  BY DEF Init, Regular, Watching, NoQuery
<1>2. TypeInv /\ TypeInv' /\ Exact /\ Regular /\ [Next]_vars => Regular'
  BY RegularStep
<1>3. Regular => QueryIsRegular
  BY DEF Regular, Watching, QueryIsRegular
<1> QED BY <1>1, <1>2, <1>3, ExactAlways, PTL DEF Spec
=============================================================================
