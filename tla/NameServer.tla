----------------------------- MODULE NameServer -----------------------------
(***************************************************************************)
(* The name server: NameServerModule (core/ns/name_server_module.cpp) on    *)
(* the tables of core/ns/ns_protocol.cpp, called by the sessions of a       *)
(* RockServer.                                                              *)
(*                                                                          *)
(* Requests of a connection are handled by the workers, so calls of         *)
(* handleRegister run side by side, also those of one connection, and the   *)
(* disconnect callback runs in the fibers that read from and write to it.   *)
(* Every lock guards one access to one table; a step is one such access.    *)
(*                                                                          *)
(* One domain is followed. An NSDomain or NSNodeSet is named by the call    *)
(* that made it, which makes one at most for a command. Who registers is    *)
(* not in src/: a client that sends REGISTER and whose connection drops.    *)
(***************************************************************************)
EXTENDS Naturals, FiniteSets

CONSTANTS Stream, Node, Cmd, Call,
          Offers,  \* what a REGISTER may carry: records of node, cmds and weight
          Nil      \* nullptr

NoInfo == [node |-> Nil, cmds |-> {}, weight |-> 0]

ASSUME OffersAssumption == Offers \subseteq [node : Node, cmds : (SUBSET Cmd) \ {{}}, weight : Nat \ {0}]
ASSUME NilAssumption == Nil \notin Stream \cup Node \cup Cmd \cup Call

VARIABLES open,     \* isConnected()
          session,  \* m_sessions: what a stream has registered
          root,     \* m_domains: the NSDomain of the domain
          sets,     \* m_datas of an NSDomain: the NSNodeSet of a command
          nodes,    \* m_datas of an NSNodeSet: the weight of a node, 0 if it is not in it
          job,      \* the local variables of a call
          pc,       \* where a call is
          query,    \* the local variables of handleQuery, and what has been listed since it began
          dropped,  \* history: streams that handleRequest has closed
          raced     \* history: have two calls met in one of the ways the code does not guard?

tables == <<root, sets, nodes>>
vars == <<open, session, tables, job, pc, query, dropped, raced>>

Blank == [stream |-> Nil, fiber |-> FALSE, new |-> NoInfo, old |-> NoInfo,
          dels |-> {}, news |-> {}, comms |-> {}, d |-> Nil, c |-> Nil,
          ns |-> Nil]

(* What a query is answered from. *)
Listed == {e \in Cmd \X Node \X {o.weight : o \in Offers} :
             /\ root # Nil /\ sets[root][e[1]] # Nil
             /\ nodes[<<sets[root][e[1]], e[1]>>][e[2]] = e[3]}

NoQuery == [at |-> "none", d |-> Nil, todo |-> {}, got |-> {}, always |-> {}, ever |-> {}]

Init ==
  /\ open = [s \in Stream |-> TRUE]
  /\ session = [s \in Stream |-> NoInfo]
  /\ root = Nil
  /\ sets = [d \in Call |-> [c \in Cmd |-> Nil]]
  /\ nodes = [x \in Call \X Cmd |-> [n \in Node |-> 0]]
  /\ job = [j \in Call |-> Blank]
  /\ pc = [j \in Call |-> "new"]
  /\ query = NoQuery
  /\ dropped = {} /\ raced = FALSE

(* The calls that are in set(). *)
Setting(j) == pc[j] \notin {"new", "validate", "connected", "reject", "done"}

At(j, from) == pc[j] = from
Goes(j, to) == pc' = [pc EXCEPT ![j] = to]
Ends(j) == Goes(j, "done") /\ job' = [job EXCEPT ![j] = Blank]

(* Where set() goes on when it is to do what is left of k. *)
Rest(k) == IF k.dels # {} THEN "dels"
           ELSE IF k.news # {} THEN "news"
           ELSE IF k.comms # {} THEN "comms" ELSE "store"

------------------------------------------------------------------------------
(* handleRegister *)

(* REGISTER arrives; one without infos takes everything back. *)
Register(j, s, offer) ==
  /\ At(j, "new") /\ open[s] /\ offer \in Offers \cup {NoInfo}
  /\ job' = [job EXCEPT ![j] = [Blank EXCEPT !.stream = s, !.new = offer]]
  /\ Goes(j, "validate")
  /\ UNCHANGED <<open, session, tables, dropped, raced>>

(* A connection speaks for one node. *)
Validate(j) ==
  LET old == session[job[j].stream]
  IN /\ At(j, "validate")
     /\ Goes(j, IF job[j].new # NoInfo /\ old # NoInfo /\ old.node # job[j].new.node
                THEN "reject" ELSE "connected")
     /\ UNCHANGED <<open, session, tables, job, dropped, raced>>

(* handleRequest closes the connection; close() calls no disconnect callback. *)
Reject(j) ==
  /\ At(j, "reject") /\ Ends(j)
  /\ open' = [open EXCEPT ![job[j].stream] = FALSE]
  /\ dropped' = dropped \cup {job[j].stream}
  /\ UNCHANGED <<session, tables, raced>>

(* The fiber that reads or the one that writes finds the peer gone: innerClose *)
(* calls onDisconnect while the stream still counts as connected.              *)
Disconnect(j, s) ==
  /\ At(j, "new") /\ open[s]
  /\ Cardinality({k \in Call : pc[k] \notin {"new", "done"} /\ job[k].fiber /\ job[k].stream = s}) < 2
  /\ job' = [job EXCEPT ![j] = [Blank EXCEPT !.stream = s, !.fiber = TRUE]]
  /\ Goes(j, "connected")
  /\ UNCHANGED <<open, session, tables, dropped, raced>>

------------------------------------------------------------------------------
(* set() *)

(* History: another call sets the same stream, or another stream has the node. *)
Meets(j, new) ==
  LET s == job[j].stream
  IN \/ \E k \in Call : Setting(k) /\ job[k].stream = s
     \/ /\ new # NoInfo
        /\ \/ \E t \in Stream \ {s} : session[t].node = new.node
           \/ \E k \in Call : Setting(k) /\ new.node \in {job[k].new.node, job[k].old.node}

(* Mutant: the check is made when the request arrives only. *)
ConnectedOnce(j) ==
  /\ At(j, "connected") /\ Goes(j, "old")
  /\ raced' = (raced \/ Meets(j, job[j].new))
  /\ UNCHANGED <<open, session, tables, job, dropped>>

(* A stream that is not connected registers nothing. *)
Connected(j) ==
  LET new == IF open[job[j].stream] THEN job[j].new ELSE NoInfo
  IN /\ At(j, "connected") /\ Goes(j, "old")
     /\ job' = [job EXCEPT ![j].new = new]
     /\ raced' = (raced \/ Meets(j, new))
     /\ UNCHANGED <<open, session, tables, dropped>>

(* Mutant: what is not registered again stays. *)
DiffAddsOnly(j) ==
  LET old == session[job[j].stream]
      new == job[j].new
      k == [job[j] EXCEPT !.old = old,
                          !.dels = IF new = NoInfo THEN old.cmds ELSE {},
                          !.news = new.cmds \ old.cmds,
                          !.comms = IF old.weight # new.weight THEN old.cmds \cap new.cmds ELSE {}]
  IN /\ At(j, "old") /\ Goes(j, Rest(k))
     /\ job' = [job EXCEPT ![j] = k]
     /\ UNCHANGED <<open, session, tables, dropped, raced>>

(* Mutant: the arguments of diff are swapped. *)
DiffSwapped(j) ==
  LET old == session[job[j].stream]
      new == job[j].new
      k == [job[j] EXCEPT !.old = old,
                          !.dels = new.cmds \ old.cmds,
                          !.news = old.cmds \ new.cmds]
  IN /\ At(j, "old") /\ Goes(j, Rest(k))
     /\ job' = [job EXCEPT ![j] = k]
     /\ UNCHANGED <<open, session, tables, dropped, raced>>

(* diff() of what the stream had and what it is to have: the nodes are not  *)
(* compared, Validate has seen to that, unless the session has changed since. *)
Diff(j) ==
  LET old == session[job[j].stream]
      new == job[j].new
      k == [job[j] EXCEPT !.old = old,
                          !.dels = old.cmds \ new.cmds,
                          !.news = new.cmds \ old.cmds,
                          !.comms = IF old.weight # new.weight THEN old.cmds \cap new.cmds ELSE {}]
  IN /\ At(j, "old") /\ Goes(j, Rest(k))
     /\ job' = [job EXCEPT ![j] = k]
     /\ raced' = (raced \/ (old # NoInfo /\ new # NoInfo /\ old.node # new.node))
     /\ UNCHANGED <<open, session, tables, dropped>>

(* m_domains->get, at the head of each of the three loops *)
FindDomain(j) ==
  LET skip == root = Nil /\ pc[j] = "dels"
      k == [job[j] EXCEPT !.d = root, !.dels = IF skip THEN {} ELSE @]
  IN /\ pc[j] \in {"dels", "news", "comms"}
     /\ job' = [job EXCEPT ![j] = k]
     /\ Goes(j, IF skip THEN Rest(k)
                ELSE IF pc[j] = "dels" THEN "del"
                ELSE IF root = Nil THEN "create" ELSE "add")
     /\ UNCHANGED <<open, session, tables, dropped, raced>>

CreateDomain(j) ==
  /\ At(j, "create") /\ Goes(j, "add")
  /\ root' = j
  /\ job' = [job EXCEPT ![j].d = j]
  /\ raced' = (raced \/ root # Nil)
  /\ UNCHANGED <<open, session, sets, nodes, dropped>>

(* The loop of a phase is through with command c; it goes on with the next. *)
Through(j) ==
  LET c == job[j].c
      k == [job[j] EXCEPT !.dels = @ \ {c}, !.news = @ \ {c}, !.comms = @ \ {c},
                         !.c = Nil, !.ns = Nil]
      same == Rest(k) = Rest(job[j])
  IN /\ job' = [job EXCEPT ![j] = IF same THEN k ELSE [k EXCEPT !.d = Nil]]
     /\ Goes(j, IF ~same THEN Rest(k) ELSE IF k.dels # {} THEN "del" ELSE "add")

(* NSDomain::del(cmd, id) *)
DelFind(j, c) ==
  LET k == [job[j] EXCEPT !.c = c, !.ns = sets[job[j].d][c]]
      without == [k EXCEPT !.dels = @ \ {c}]
  IN /\ At(j, "del") /\ c \in job[j].dels
     /\ job' = [job EXCEPT ![j] = IF k.ns = Nil THEN without ELSE k]
     /\ Goes(j, IF k.ns # Nil THEN "delnode" ELSE IF without.dels = {} THEN Rest(without) ELSE "del")
     /\ UNCHANGED <<open, session, tables, dropped, raced>>

DelNode(j) ==
  /\ At(j, "delnode") /\ Goes(j, "delsize")
  /\ nodes' = [nodes EXCEPT ![<<job[j].ns, job[j].c>>][job[j].old.node] = 0]
  /\ UNCHANGED <<open, session, root, sets, job, dropped, raced>>

Empty(ns, c) == \A n \in Node : nodes[<<ns, c>>][n] = 0

DelSize(j) ==
  /\ At(j, "delsize")
  /\ IF Empty(job[j].ns, job[j].c) THEN Goes(j, "delset") /\ UNCHANGED job ELSE Through(j)
  /\ UNCHANGED <<open, session, tables, dropped, raced>>

(* A set that has been filled again, or another one, may be removed. *)
DelSet(j) ==
  LET d == job[j].d
      c == job[j].c
      ns == job[j].ns
  IN /\ At(j, "delset") /\ Through(j)
     /\ sets' = [sets EXCEPT ![d][c] = Nil]
     /\ raced' = (raced \/ sets[d][c] # ns \/ ~Empty(ns, c))
     /\ UNCHANGED <<open, session, root, nodes, dropped>>

(* NSDomain::add(cmd, node) *)
AddFind(j, c) ==
  LET ns == sets[job[j].d][c]
  IN /\ At(j, "add")
     /\ c \in (IF job[j].news # {} THEN job[j].news ELSE job[j].comms)
     /\ job' = [job EXCEPT ![j].c = c, ![j].ns = ns]
     /\ Goes(j, IF ns = Nil THEN "addset" ELSE "addnode")
     /\ UNCHANGED <<open, session, tables, dropped, raced>>

(* A set that another call has put there meanwhile is lost. *)
AddSet(j) ==
  LET d == job[j].d
      c == job[j].c
  IN /\ At(j, "addset") /\ Goes(j, "addnode")
     /\ sets' = [sets EXCEPT ![d][c] = j]
     /\ job' = [job EXCEPT ![j].ns = j]
     /\ raced' = (raced \/ sets[d][c] # Nil)
     /\ UNCHANGED <<open, session, root, nodes, dropped>>

(* The set may not be in the directory any more. *)
AddNode(j) ==
  LET k == job[j]
  IN /\ At(j, "addnode") /\ Through(j)
     /\ nodes' = [nodes EXCEPT ![<<k.ns, k.c>>][k.new.node] = k.new.weight]
     /\ raced' = (raced \/ sets[k.d][k.c] # k.ns)
     /\ UNCHANGED <<open, session, root, sets, dropped>>

Store(j) ==
  /\ At(j, "store")
  /\ IF job[j].fiber THEN Goes(j, "close") /\ UNCHANGED job ELSE Ends(j)
  /\ session' = [session EXCEPT ![job[j].stream] = job[j].new]
  /\ UNCHANGED <<open, tables, dropped, raced>>

(* innerClose goes on after the callback. *)
Close(j) ==
  /\ At(j, "close") /\ Ends(j)
  /\ open' = [open EXCEPT ![job[j].stream] = FALSE]
  /\ UNCHANGED <<session, tables, dropped, raced>>

------------------------------------------------------------------------------
(* handleQuery; queries write nothing, so one at a time is followed. *)

Asks(q) == query' = q /\ UNCHANGED <<open, session, tables, job, pc, dropped, raced>>

Query == /\ query.at = "none"
         /\ Asks([NoQuery EXCEPT !.at = "domain", !.always = Listed, !.ever = Listed])

QueryDomain == /\ query.at = "domain"
               /\ Asks([query EXCEPT !.at = IF root = Nil THEN "answer" ELSE "sets", !.d = root])

QuerySets ==
  LET found == {x \in Call \X Cmd : sets[query.d][x[2]] = x[1]}
  IN /\ query.at = "sets"
     /\ Asks([query EXCEPT !.at = IF found = {} THEN "answer" ELSE "nodes", !.todo = found])

(* Mutant: the loop ends after the first set. *)
QueryFirst(x) ==
  /\ query.at = "nodes" /\ x \in query.todo
  /\ Asks([query EXCEPT !.at = "answer", !.todo = {},
                        !.got = {<<x[2], n, nodes[x][n]>> : n \in {n \in Node : nodes[x][n] # 0}}])

QueryNodes(x) ==
  /\ query.at = "nodes" /\ x \in query.todo
  /\ Asks([query EXCEPT !.at = IF query.todo = {x} THEN "answer" ELSE @, !.todo = @ \ {x},
                        !.got = @ \cup {<<x[2], n, nodes[x][n]>> : n \in {n \in Node : nodes[x][n] # 0}}])

Answer == query.at = "answer" /\ Asks(NoQuery)

HandleQuery == \/ Query \/ QueryDomain \/ QuerySets \/ Answer
               \/ \E x \in query.todo : QueryNodes(x)

(* History: what a query that is under way might have seen. *)
Watched == query' = IF query.at = "none" THEN query
                    ELSE [query EXCEPT !.always = @ \cap Listed', !.ever = @ \cup Listed']

------------------------------------------------------------------------------
Set(j) == \/ Connected(j) \/ Diff(j) \/ FindDomain(j) \/ CreateDomain(j)
          \/ \E c \in Cmd : DelFind(j, c) \/ AddFind(j, c)
          \/ DelNode(j) \/ DelSize(j) \/ DelSet(j) \/ AddSet(j) \/ AddNode(j)
          \/ Store(j) \/ Close(j)

Handle(j) == Validate(j) \/ Reject(j) \/ Set(j)

Clients == \E j \in Call, s \in Stream :
              \/ \E offer \in Offers \cup {NoInfo} : Register(j, s, offer)
              \/ Disconnect(j, s)

Next == \/ (Clients \/ \E j \in Call : Handle(j)) /\ Watched
        \/ HandleQuery

Spec == Init /\ [][Next]_vars
------------------------------------------------------------------------------
(* The types of the tables and of the local variables: the tables hold what   *)
(* was offered, and objects that some call has made.                          *)
TypeOK ==
  LET infos == Offers \cup {NoInfo}
      weights == {o.weight : o \in Offers} \cup {0}
      entries == Cmd \X Node \X (weights \ {0})
  IN /\ open \in [Stream -> BOOLEAN] /\ session \in [Stream -> infos]
     /\ root \in Call \cup {Nil} /\ sets \in [Call -> [Cmd -> Call \cup {Nil}]]
     /\ nodes \in [Call \X Cmd -> [Node -> weights]]
     /\ job \in [Call -> [stream : Stream \cup {Nil}, fiber : BOOLEAN, new : infos, old : infos,
                          dels : SUBSET Cmd, news : SUBSET Cmd, comms : SUBSET Cmd,
                          d : Call \cup {Nil}, c : Cmd \cup {Nil}, ns : Call \cup {Nil}]]
     /\ pc \in [Call -> {"new", "validate", "reject", "connected", "old", "dels", "news", "comms", "create",
                         "del", "delnode", "delsize", "delset", "add", "addset", "addnode",
                         "store", "close", "done"}]
     /\ query \in [at : {"none", "domain", "sets", "nodes", "answer"}, d : Call \cup {Nil},
                   todo : SUBSET (Call \X Cmd), got : SUBSET entries,
                   always : SUBSET entries, ever : SUBSET entries]
     /\ dropped \subseteq Stream /\ raced \in BOOLEAN

Entries(info) == {<<c, info.node, info.weight>> : c \in info.cmds}

(* The streams that a call is setting. *)
Busy == {job[j].stream : j \in {k \in Call : Setting(k)}}

(* Whatever the calls of other streams do meanwhile, everything that a stream  *)
(* has registered is in the directory under its commands with its weight: the  *)
(* loops of set() and the removal of empty sets take nobody else's entry.      *)
NoneLost == raced \/ \A s \in Stream \ Busy : Entries(session[s]) \subseteq Listed

(* An entry of the directory is one of a session, or of one that a call is     *)
(* setting just now: a service that has gone, has moved to other commands or   *)
(* has another weight leaves nothing behind.                                   *)
NoneLeft ==
  LET registered == UNION {Entries(session[s]) : s \in Stream}
      changing == UNION {Entries(job[j].old) \cup Entries(job[j].new) : j \in {k \in Call : Setting(k)}}
  IN raced \/ Listed \subseteq registered \cup changing

(* A session is one of a connected stream, so that its entry goes with the     *)
(* connection. The code breaks this for a connection that handleRequest itself *)
(* closes.                                                                     *)
SessionIsConnected ==
  raced \/ \A s \in Stream \ (Busy \cup dropped) : session[s] = NoInfo \/ open[s]

(* An answer holds what was listed all the time while the query ran, and       *)
(* nothing that was not listed at some time of it, although handleQuery copies *)
(* set after set, each under a lock of its own, and a set may have left the    *)
(* directory by then.                                                          *)
QueryIsRegular ==
  raced \/ query.at # "answer" \/ (query.always \subseteq query.got /\ query.got \subseteq query.ever)
=============================================================================
