----------------------------- MODULE Server_proofs -----------------------------
(***************************************************************************)
(* Proofs about Server, for any number of clients, of requests and of      *)
(* vertices.                                                               *)
(***************************************************************************)
EXTENDS Server, NaturalsInduction, FiniteSetTheorems, WellFoundedInduction, TLAPS

(* The nodes that the server has not accepted, or that do not exist yet.   *)
Fresh(x) == socket[x] = "none" \/ \E i \in DOMAIN backlog : backlog[i] = x

(* A connection waits to be accepted once, and is accepted once.           *)
Accepting ==
  /\ at \in [Clients -> Nat]
  /\ \A i, j \in DOMAIN backlog : backlog[i] = backlog[j] => i = j
  /\ \A i \in DOMAIN backlog : socket[backlog[i]] # "none"
  /\ \A x \in readset : socket[x] # "none"

(* Where the server is in a request, and what a request is at that point.  *)
Serving ==
  /\ serving # "none" => tmpNode \in rdyset /\ inbox[tmpNode] = <<>>
  /\ serving = "init" => IsInit(tmpNode)
  /\ serving \in {"wait", "insert"} => ~IsInit(tmpNode)
  /\ \A x \in Conns : inbox[x] # <<>> \/ (serving # "none" /\ tmpNode = x)
                        => socket[x] \in {"sent", "closed"}

(* The semaphore: of value 1 at most, and with it nobody inside; if not,   *)
(* no two are, as long as graph_init posted it for nobody else.            *)
Semaphore ==
  /\ TheServer \in inside <=> serving = "insert"
  /\ posts = 0 => /\ lock <= 1
                  /\ inside # {} => lock = 0
                  /\ \A p, q \in inside : p = q

(* The server is through with a request: it will do nothing more for it.   *)
Served(x) ==
  up => /\ socket[x] \in {"sent", "closed"} /\ inbox[x] = <<>>
        /\ serving # "none" => tmpNode # x

(* A client makes its requests one after the other.                        *)
Sequential ==
  /\ \A x \in Conns : reply[x] # "none" => Served(x)
  /\ \A x \in success : Served(x)
  /\ \A x \in Conns : socket[x] # "none" =>
       \A j \in 0 .. x[2] - 1 : socket[<<x[1], j>>] = "closed" /\ Served(<<x[1], j>>)
  /\ \A c \in Clients : up /\ c \notin dead =>
       \A j \in 0 .. at[c] - 1 : socket[<<c, j>>] = "closed" /\ Served(<<c, j>>)

(* What InsertedKept says of a request.                                    *)
Kept(x) ==
  \/ IsInit(x) \/ OtherInit(x[1])
  \/ v1[x] = 0 /\ \E i \in DOMAIN graph.vertices : graph.vertices[i] = x
  \/ /\ v1[x] # 0
     /\ \/ x \in G!Neighbors(graph, v1[x])
        \/ G!Grown(graph)
        \/ v1[x] \notin DOMAIN graph.vertices
        \/ graph.vertices[v1[x]][2] > x[2]

AllKept == \A x \in Conns : x \in success \/ reply[x] = "success" => Kept(x)

(* A list with the nodes of s: what the pointers of each of them are.      *)
IsPath(l, n, s) ==
  /\ \A i, j \in 1 .. n : s[i] = s[j] => i = j
  /\ l.head = IF n = 0 THEN Null ELSE s[1]
  /\ \A i \in 1 .. n : /\ l.next[s[i]] = IF i = n THEN Null ELSE s[i + 1]
                       /\ l.prev[s[i]] = IF i = 1 THEN Null ELSE s[i - 1]

(* The nodes of the server's list are open connections, the loop stands on *)
(* one of them, and the tail pointer, when it points to one, to the last.  *)
Linked(l, n, s) ==
  /\ IsPath(l, n, s)
  /\ \A i \in 1 .. n : s[i] \in readset
  /\ tmpNode # Null => \E i \in 1 .. n : tmpNode = s[i]
  /\ n = 0 \/ l.tail # Null
  /\ \A i \in 1 .. n : l.tail = s[i] => i = n

ListInv ==
  up => /\ \E n \in Nat : \E s \in [1 .. n -> Conns] : Linked(clientList, n, s)
        /\ \A x \in Conns : Fresh(x) =>
             /\ x \notin readset /\ clientList.tail # x
             /\ clientList.next[x] = Null /\ clientList.prev[x] = Null

IInv ==
  /\ TypeOK /\ Accepting /\ Serving /\ Semaphore /\ Sequential /\ AllKept
  /\ ListInv

-----------------------------------------------------------------------------
(* Connections are pairs of a client and the number of its request.        *)
LEMMA Connections ==
  /\ Null \notin Conns /\ Null \notin Clients
  /\ \A x \in Conns : x = <<x[1], x[2]>> /\ x[1] \in Clients /\ x[2] \in 0 .. Inserts[x[1]]
  /\ \A c \in Clients : \A k \in 0 .. Inserts[c] : <<c, k>> \in Conns
  /\ \A c \in Clients : Inserts[c] \in Nat
BY ServerAssumption DEF Conns

(* What the operations on the list and the graph leave well typed.       *)
LEMMA NodeTyped ==
  ASSUME NEW l \in L!ListType, NEW x \in Conns
  PROVE  L!AddNode(l, x) \in L!ListType /\ L!RemoveNode(l, x) \in L!ListType
<1>1. L!AddNode(l, x) \in L!ListType
  BY DEF L!AddNode, L!ListType
<1>2. L!RemoveNode(l, x) \in L!ListType
  BY DEF L!RemoveNode, L!ListType
<1> QED BY <1>1, <1>2

LEMMA GraphTyped ==
  ASSUME NEW g \in G!GraphType, NEW x \in Conns, NEW v \in Nat
  PROVE  /\ G!NewGraph \in G!GraphType /\ G!AddVertex(g, x) \in G!GraphType
         /\ G!AddNeighbor(g, v, x) \in G!GraphType
<1>1. G!NewGraph \in G!GraphType
  BY DEF G!NewGraph, G!GraphType
<1>2. /\ g.vertices \in Seq(Conns) /\ g.neighborsPtr \subseteq Nat /\ g.lists \in Nat
      /\ g.neighbors \subseteq Conns \X Nat
      /\ g = [vertices |-> g.vertices, neighborsPtr |-> g.neighborsPtr, lists |-> g.lists,
              neighbors |-> g.neighbors]
  BY DEF G!GraphType
<1>3. G!AddVertex(g, x) \in G!GraphType
  <2> DEFINE ptr == IF G!Grows(Len(g.vertices) + 1) THEN {}
                    ELSE g.neighborsPtr \ {Len(g.vertices) + 1}
             app == Append(g.vertices, x)
  <2>1. G!AddVertex(g, x) = [g EXCEPT !.vertices = app, !.neighborsPtr = ptr]
    BY DEF G!AddVertex
  <2>2. ptr \subseteq Nat
    BY <1>2
  <2>3. app \in Seq(Conns)
    BY <1>2
  <2> HIDE DEF ptr, app
  <2> QED BY <2>1, <2>2, <2>3 DEF G!GraphType
<1>4. G!AddNeighbor(g, v, x) \in G!GraphType
  <2> DEFINE nbs == (IF G!Grows(g.lists + 1) \/ G!Grows(g.lists + 2) THEN {}
                     ELSE {n \in g.neighbors : n[2] # v}) \cup {<<x, v>>}
             ptr == g.neighborsPtr \cup {v}
             num == g.lists + 2
  <2>1. G!AddNeighbor(g, v, x) = [g EXCEPT !.neighborsPtr = ptr, !.lists = num, !.neighbors = nbs]
    BY DEF G!AddNeighbor
  <2>2. nbs \subseteq Conns \X Nat /\ ptr \subseteq Nat /\ num \in Nat
    BY <1>2
  <2> HIDE DEF nbs, ptr, num
  <2> QED BY <2>1, <2>2 DEF G!GraphType
<1> QED BY <1>1, <1>3, <1>4

(* What a step of the clients, or of the server, leaves well typed.        *)
LEMMA ClientsTyped ==
  ASSUME TypeOK, Accepting, Serving, NEW c \in Clients, Connect(c) \/ Talk(c) \/ Die(c)
  PROVE  TypeOK' /\ at' \in [Clients -> Nat]
<1> USE DEF serverVars, graphVars, lockVars, netVars, clientVars, TheServer
<1> DEFINE x == Current(c)
<1>0. /\ at \in [Clients -> Nat] /\ at[c] \in 0 .. Inserts[c] + 1 /\ Inserts[c] \in Nat
      /\ Null \notin Clients
      /\ x \in Conns <=> at[c] \in 0 .. Inserts[c]
  BY Connections DEF Accepting, TypeOK, Current
<1>1. CASE Connect(c)
  <2>1. x \in Conns /\ x \notin readset
    BY <1>1 DEF Connect, Accepting
  <2>2. backlog' \in Seq(Conns \ readset)
    BY <1>1, <2>1 DEF Connect, TypeOK
  <2> QED BY <1>0, <1>1, <2>1, <2>2 DEF Connect, TypeOK
<1>2. CASE Send(c)
  <2>1. v1' \in [Conns -> Vertices \cup {0}]
    BY <1>2 DEF Send, TypeOK
  <2>2. x \in Conns /\ inbox[x] = <<>> /\ inbox' = [inbox EXCEPT ![x] = <<"header", "payload">>]
    BY <1>2 DEF Send, Serving
  <2>3. inbox' \in [Conns -> {<<>>, <<"payload">>, <<"header", "payload">>}]
    BY <2>2 DEF TypeOK
  <2>4. <<"header", "payload">> # <<"payload">> /\ <<>> # <<"payload">>
    OBVIOUS
  <2>5. header = {y \in Conns : inbox'[y] = <<"payload">>}
    BY <2>2, <2>4 DEF TypeOK
  <2> QED BY <1>0, <1>2, <2>1, <2>2, <2>3, <2>5 DEF Send, TypeOK
<1>3. CASE ReceiveReply(c)
  BY <1>0, <1>3 DEF ReceiveReply, TypeOK
<1>4. CASE ReceiveNothing(c)
  BY <1>0, <1>4 DEF ReceiveNothing, Open, TypeOK
<1>5. CASE WaitForGraph(c) \/ CopyGraph(c)
  <2>1. /\ lock' \in Nat /\ inside' \subseteq Clients \cup {TheServer} /\ copying' \subseteq copying
        /\ inside' \ {TheServer} \subseteq copying' \cup dead'
    BY <1>0, <1>5 DEF WaitForGraph, CopyGraph, Wait, Post, TypeOK
  <2> QED BY <1>0, <1>5, <2>1 DEF WaitForGraph, CopyGraph, Wait, Post, TypeOK
<1>6. CASE MapNothing(c)
  BY <1>0, <1>6 DEF MapNothing, TypeOK
<1>7. CASE Die(c)
  <2>1. /\ socket' \in [Conns -> {"none", "connected", "sent", "closed"}]
        /\ reply' \in [Conns -> {"none", "success"}]
        /\ \A y \in Conns : reply'[y] # "none" => socket'[y] = "sent"
        /\ \A y \in Conns : socket[y] = "closed" => socket'[y] = "closed"
    BY <1>0, <1>7 DEF Die, Open, TypeOK
  <2>2. /\ at' \in [Clients -> Nat] /\ \A d \in Clients : at'[d] \in 0 .. Inserts[d] + 1
        /\ inside' \ {TheServer} \subseteq copying' \cup dead'
    BY <1>0, <1>7 DEF Die, TypeOK
  <2> QED BY <1>0, <1>7, <2>1, <2>2 DEF Die, TypeOK
<1> QED BY <1>1, <1>2, <1>3, <1>4, <1>5, <1>6, <1>7 DEF Talk

(* A sequence is one over every set that all of its members are in.        *)
LEMMA Narrowed ==
  ASSUME NEW S, NEW T, NEW s \in Seq(S), \A i \in 1 .. Len(s) : s[i] \in T
  PROVE  s \in Seq(T)
OBVIOUS

(* What a step of the loop leaves well typed.                            *)
LEMMA ServerTyped ==
  ASSUME TypeOK, Accepting, Serving, Loop
  PROVE  TypeOK'
<1> USE DEF serverVars, graphVars, lockVars, netVars, clientVars, TheServer
<1>1. /\ rdyset \subseteq Conns /\ Null \notin Conns /\ Null \notin Clients
      /\ serving # "none" => tmpNode \in Conns
      /\ \A x \in Conns : clientList.next[x] \in Conns \cup {Null}
      /\ clientList.head \in Conns \cup {Null}
      /\ \A x \in Conns : v1[x] \in Nat
  BY Connections, ServerAssumption DEF TypeOK, L!ListType, Serving
<1>2. CASE Select
  <2>1. CASE backlog # <<>>
    <3> DEFINE x == Head(backlog)
    <3>1. /\ x \in Conns /\ readset' = readset \cup {x}
          /\ clientList' = L!AddNode(clientList, x) /\ backlog' = Tail(backlog)
          /\ rdyset' = {y \in readset : Readable(y)} /\ tmpNode' = clientList'.head
          /\ UNCHANGED <<up, header, serving, graphVars, lockVars, inbox, reply, clientVars>>
      BY <1>2, <2>1 DEF Select, TypeOK
    <3>2. clientList' \in L!ListType
      BY <3>1, NodeTyped DEF TypeOK
    <3>3. tmpNode' \in Conns \cup {Null}
      BY <3>1, <3>2 DEF L!ListType
    <3>4. backlog' \in Seq(Conns \ readset')
      <4>1. /\ Tail(backlog) \in Seq(Conns \ readset) /\ Len(Tail(backlog)) = Len(backlog) - 1
            /\ \A i \in 1 .. Len(backlog) - 1 : Tail(backlog)[i] = backlog[i + 1]
            /\ x = backlog[1] /\ Len(backlog) \in Nat \ {0} /\ DOMAIN backlog = 1 .. Len(backlog)
        BY <2>1 DEF TypeOK
      <4>2. \A i \in 1 .. Len(backlog) - 1 : Tail(backlog)[i] # x
        BY <4>1 DEF Accepting
      <4> HIDE DEF x
      <4>3. \A i \in 1 .. Len(Tail(backlog)) : Tail(backlog)[i] \in Conns \ readset'
        BY <3>1, <4>1, <4>2
      <4> QED BY <3>1, <4>1, <4>3, Narrowed
    <3> HIDE DEF x
    <3> QED BY <3>1, <3>2, <3>3, <3>4 DEF TypeOK
  <2>2. CASE backlog = <<>>
    BY <1>1, <1>2, <2>2 DEF Select, TypeOK
  <2> QED BY <2>1, <2>2
<1>3. CASE SkipClient
  <2>1. tmpNode' \in Conns \cup {Null}
    BY <1>1, <1>3 DEF SkipClient, Advance, TypeOK
  <2> QED BY <1>3, <2>1 DEF SkipClient, TypeOK
<1>4. ASSUME ReadHeader \/ ReadPayload
      PROVE  /\ inbox' \in [Conns -> {<<>>, <<"payload">>, <<"header", "payload">>}]
             /\ header' = {x \in Conns : inbox'[x] = <<"payload">>}
             /\ header' \subseteq readset
  <2>1. /\ tmpNode \in rdyset /\ inbox[tmpNode] # <<>>
        /\ inbox' = [inbox EXCEPT ![tmpNode] = Tail(@)]
        /\ \/ tmpNode \notin header /\ header' = header \cup {tmpNode}
           \/ tmpNode \in header /\ header' = header \ {tmpNode}
    BY <1>4 DEF ReadHeader, ReadPayload
  <2>2. /\ inbox[tmpNode] \in {<<>>, <<"payload">>, <<"header", "payload">>}
        /\ tmpNode \in header <=> inbox[tmpNode] = <<"payload">>
    BY <1>1, <2>1 DEF TypeOK
  <2>3. /\ Tail(<<"header", "payload">>) = <<"payload">> /\ Tail(<<"payload">>) = <<>>
        /\ <<>> # <<"payload">>
    OBVIOUS
  <2>4. /\ tmpNode \notin header => Tail(inbox[tmpNode]) = <<"payload">>
        /\ tmpNode \in header => Tail(inbox[tmpNode]) = <<>>
    BY <2>1, <2>2, <2>3
  <2>5. /\ tmpNode \in Conns /\ tmpNode \in readset
        /\ header = {x \in Conns : inbox[x] = <<"payload">>} /\ header \subseteq readset
        /\ inbox \in [Conns -> {<<>>, <<"payload">>, <<"header", "payload">>}]
    BY <1>1, <2>1 DEF TypeOK
  <2> DEFINE rest == Tail(inbox[tmpNode])
  <2>6. /\ inbox' = [inbox EXCEPT ![tmpNode] = rest]
        /\ \/ rest = <<"payload">> /\ header' = header \cup {tmpNode}
           \/ rest = <<>> /\ header' = header \ {tmpNode}
    BY <2>1, <2>4
  <2> HIDE DEF rest
  <2> QED BY <2>3, <2>5, <2>6
<1>5. CASE ReadHeader
  <2>1. tmpNode' \in Conns \cup {Null}
    BY <1>1, <1>5 DEF ReadHeader, Advance
  <2> QED BY <1>4, <1>5, <2>1 DEF ReadHeader, TypeOK
<1>6. CASE ReadPayload
  BY <1>4, <1>6 DEF ReadPayload, TypeOK
<1>7. ASSUME Reply, serving # "none"
      PROVE  /\ reply' \in [Conns -> {"none", "success"}]
             /\ \A x \in Conns : reply'[x] # "none" => socket[x] = "sent"
             /\ tmpNode' \in Conns \cup {Null}
  BY <1>1, <1>7 DEF Reply, Advance, TypeOK
<1>8. CASE InitGraph
  <2>1. graph' \in G!GraphType
    BY <1>8 DEF InitGraph, G!NewGraph, G!GraphType
  <2>2. lock' \in Nat /\ posts' \in Nat
    BY <1>8 DEF InitGraph, TypeOK
  <2> QED BY <1>7, <1>8, <2>1, <2>2 DEF InitGraph, Reply, TypeOK
<1>9. CASE LockGraph
  <2>1. lock' \in Nat /\ inside' \subseteq Clients \cup {Null}
        /\ inside' \ {TheServer} \subseteq inside \ {TheServer}
    BY <1>9 DEF LockGraph, Wait, TypeOK
  <2> QED BY <1>9, <2>1 DEF LockGraph, Wait, TypeOK
<1>10. ASSUME Post(TheServer)
       PROVE  /\ lock' \in Nat /\ inside' \subseteq Clients \cup {Null}
              /\ inside' \ {TheServer} \subseteq inside \ {TheServer} /\ UNCHANGED posts
  BY <1>10 DEF Post, TypeOK
<1>11. CASE AddVertices
  <2>1. graph' \in G!GraphType
    BY <1>1, <1>11, GraphTyped DEF AddVertices, TypeOK
  <2> QED BY <1>7, <1>10, <1>11, <2>1 DEF AddVertices, Reply, TypeOK
<1>12. CASE AddNeighbor
  <2>1. graph' \in G!GraphType
    BY <1>1, <1>12, GraphTyped DEF AddNeighbor, TypeOK
  <2> QED BY <1>7, <1>10, <1>12, <2>1 DEF AddNeighbor, Reply, TypeOK
<1>13. CASE AddFurtherNeighbor
  BY <1>13 DEF AddFurtherNeighbor, TypeOK
<1>14. CASE CloseClient
  <2>1. clientList' \in L!ListType
    BY <1>1, <1>14, NodeTyped DEF CloseClient, TypeOK
  <2>2. tmpNode' \in Conns \cup {Null} /\ up' \in BOOLEAN
    <3>1. tmpNode' \in {clientList.next[tmpNode], tmpNode} /\ up' \in {up, FALSE}
      BY <1>14 DEF CloseClient, Advance
    <3>2. tmpNode \in Conns /\ up \in BOOLEAN
      BY <1>1, <1>14 DEF CloseClient, TypeOK
    <3> QED BY <1>1, <3>1, <3>2
  <2>3. header' = header /\ header \subseteq readset'
    <3>1. <<>> # <<"payload">>
      OBVIOUS
    <3>2. tmpNode \notin header /\ header \subseteq readset
      BY <1>14, <3>1 DEF CloseClient, TypeOK
    <3> QED BY <1>14, <3>2 DEF CloseClient
  <2>4. backlog \in Seq(Conns \ readset')
    BY <1>14 DEF CloseClient, TypeOK
  <2> QED BY <1>14, <2>1, <2>2, <2>3, <2>4 DEF CloseClient, TypeOK
<1> QED BY <1>2, <1>3, <1>5, <1>6, <1>8, <1>9, <1>11, <1>12, <1>13, <1>14 DEF Loop

(* Each part of the invariant is preserved by every step.                *)
LEMMA AcceptingStep ==
  ASSUME TypeOK, Accepting, Serving, Next
  PROVE  Accepting'
<1> USE DEF serverVars, graphVars, lockVars, netVars, clientVars
<1>1. /\ backlog \in Seq(Conns) /\ DOMAIN backlog = 1 .. Len(backlog) /\ Len(backlog) \in Nat
      /\ readset \subseteq Conns /\ socket \in [Conns -> {"none", "connected", "sent", "closed"}]
      /\ \A i \in DOMAIN backlog : backlog[i] \in Conns
  BY DEF TypeOK
<1>2. at' \in [Clients -> Nat]
  BY ClientsTyped DEF Next, Loop, Select, SkipClient, ReadHeader, ReadPayload, CloseClient, InitGraph,
     LockGraph, AddVertices, AddNeighbor, AddFurtherNeighbor, Reply, Accepting
<1>3. ASSUME NEW c \in Clients, Connect(c) PROVE Accepting'
  <2> DEFINE x == Current(c)
  <2>1. /\ x \in Conns /\ socket[x] = "none" /\ socket' = [socket EXCEPT ![x] = "connected"]
        /\ backlog' = Append(backlog, x) /\ UNCHANGED readset
    BY <1>3 DEF Connect
  <2> HIDE DEF x
  <2>2. /\ DOMAIN backlog' = 1 .. Len(backlog) + 1 /\ backlog'[Len(backlog) + 1] = x
        /\ \A i \in 1 .. Len(backlog) : backlog'[i] = backlog[i]
    BY <1>1, <2>1
  <2> QED BY <1>1, <1>2, <2>1, <2>2 DEF Accepting
<1>4. CASE Select
  <2>1. CASE backlog # <<>>
    <3>1. /\ readset' = readset \cup {Head(backlog)} /\ backlog' = Tail(backlog) /\ UNCHANGED socket
      BY <1>4, <2>1 DEF Select
    <3>2. /\ DOMAIN Tail(backlog) = 1 .. Len(backlog) - 1 /\ Head(backlog) = backlog[1]
          /\ \A i \in 1 .. Len(backlog) - 1 : Tail(backlog)[i] = backlog[i + 1]
          /\ Len(backlog) >= 1
      BY <1>1, <2>1
    <3> DEFINE rest == Tail(backlog)
               x == Head(backlog)
    <3>3. \A i, j \in DOMAIN rest : rest[i] = rest[j] => i = j
      BY <1>1, <3>2 DEF Accepting
    <3>4. (\A i \in DOMAIN rest : socket[rest[i]] # "none") /\ socket[x] # "none"
      BY <1>1, <3>2 DEF Accepting
    <3> HIDE DEF rest, x
    <3> QED BY <1>2, <3>1, <3>3, <3>4 DEF Accepting, rest, x
  <2>2. CASE backlog = <<>>
    BY <1>2, <1>4, <2>2 DEF Select, Accepting
  <2> QED BY <2>1, <2>2
<1>5. ASSUME UNCHANGED backlog, readset' \subseteq readset,
             \A x \in Conns : socket[x] # "none" => socket'[x] # "none"
      PROVE  Accepting'
  BY <1>1, <1>2, <1>5 DEF Accepting
<1>6. ASSUME NEW c \in Clients, Talk(c) \/ Die(c) PROVE Accepting'
  <2>1. UNCHANGED backlog /\ UNCHANGED readset
    BY <1>6 DEF Talk, Send, ReceiveReply, ReceiveNothing, WaitForGraph, CopyGraph, MapNothing, Die
  <2>2. \A x \in Conns : socket[x] # "none" => socket'[x] # "none"
    BY <1>1, <1>6 DEF Talk, Send, ReceiveReply, ReceiveNothing, WaitForGraph, CopyGraph, MapNothing, Die
  <2> QED BY <1>5, <2>1, <2>2
<1>7. CASE Loop /\ ~Select
  <2>1. UNCHANGED <<backlog, socket>> /\ readset' \subseteq readset
    BY <1>7 DEF Loop, SkipClient, ReadHeader, ReadPayload, CloseClient, InitGraph,
       LockGraph, AddVertices, AddNeighbor, AddFurtherNeighbor, Reply
  <2> QED BY <1>5, <2>1
<1> QED BY <1>3, <1>4, <1>6, <1>7 DEF Next

LEMMA ServingStep ==
  ASSUME TypeOK, Accepting, Serving, Next
  PROVE  Serving'
<1> USE DEF serverVars, graphVars, lockVars, netVars, clientVars
<1>1. /\ rdyset \subseteq Conns /\ Null \notin Conns
      /\ socket \in [Conns -> {"none", "connected", "sent", "closed"}]
      /\ inbox \in [Conns -> {<<>>, <<"payload">>, <<"header", "payload">>}]
      /\ \A x \in Conns : x \in header <=> inbox[x] = <<"payload">>
      /\ Tail(<<"payload">>) = <<>>
  BY Connections DEF TypeOK
<1>2. ASSUME NEW c \in Clients, Connect(c) \/ Talk(c) \/ Die(c) PROVE Serving'
  <2>1. UNCHANGED <<serving, tmpNode, rdyset>>
    BY <1>2 DEF Connect, Talk, Send, ReceiveReply, ReceiveNothing, WaitForGraph, CopyGraph,
                MapNothing, Die
  <2>2. \A x \in Conns : /\ socket[x] \in {"sent", "closed"} => socket'[x] \in {"sent", "closed"}
                         /\ inbox'[x] # <<>> => inbox[x] # <<>> \/ socket'[x] = "sent"
                         /\ socket[x] \in {"sent", "closed"} => inbox'[x] = inbox[x]
    BY <1>1, <1>2 DEF Connect, Talk, Send, ReceiveReply, ReceiveNothing, WaitForGraph, CopyGraph,
                      MapNothing, Die
  <2> QED BY <1>1, <2>1, <2>2 DEF Serving
<1>3. CASE Select
  <2>1. serving = "none"
    BY <1>1, <1>3 DEF Select, Serving
  <2> QED BY <1>1, <1>3, <2>1 DEF Select, Serving
<1>4. CASE SkipClient
  BY <1>4 DEF SkipClient, Serving
<1>5. CASE ReadHeader
  BY <1>1, <1>5 DEF ReadHeader, Serving
<1>6. CASE ReadPayload
  <2>1. /\ tmpNode \in rdyset /\ inbox[tmpNode] = <<"payload">>
        /\ inbox' = [inbox EXCEPT ![tmpNode] = <<>>] /\ UNCHANGED <<rdyset, tmpNode, socket>>
        /\ \/ IsInit(tmpNode) /\ serving' = "init"
           \/ ~IsInit(tmpNode) /\ serving' = "wait"
        /\ serving = "none" /\ inbox[tmpNode] # <<>>
    BY <1>1, <1>6 DEF ReadPayload
  <2> QED BY <1>1, <2>1 DEF Serving, IsInit
<1>7. CASE InitGraph \/ AddVertices \/ AddNeighbor
  BY <1>7 DEF InitGraph, AddVertices, AddNeighbor, Reply, Serving
<1>8. CASE LockGraph
  BY <1>8 DEF LockGraph, Serving, IsInit
<1>9. CASE AddFurtherNeighbor
  BY <1>9 DEF AddFurtherNeighbor, Reply, Serving, IsInit
<1>10. CASE CloseClient
  BY <1>10 DEF CloseClient, Serving
<1> QED BY <1>2, <1>3, <1>4, <1>5, <1>6, <1>7, <1>8, <1>9, <1>10 DEF Next, Loop

(* The semaphore is posted by those who waited for it, or by graph_init.   *)
LEMMA SemaphoreStep ==
  ASSUME TypeOK, Serving, Semaphore, Next
  PROVE  Semaphore'
<1> USE DEF serverVars, graphVars, lockVars, netVars, clientVars, TheServer
<1>1. lock \in Nat /\ posts \in Nat /\ Null \notin Clients
  BY Connections DEF TypeOK
<1>2. ASSUME NEW c \in Clients, WaitForGraph(c) PROVE Semaphore'
  BY <1>1, <1>2 DEF WaitForGraph, Wait, Semaphore
<1>3. ASSUME NEW c \in Clients, CopyGraph(c) PROVE Semaphore'
  BY <1>1, <1>3 DEF CopyGraph, Post, Semaphore
<1>4. ASSUME UNCHANGED lockVars, serving' = "insert" <=> serving = "insert" PROVE Semaphore'
  BY <1>4 DEF Semaphore
<1>5. ASSUME NEW c \in Clients,
             \/ Connect(c) \/ Die(c) \/ Send(c) \/ ReceiveReply(c) \/ ReceiveNothing(c) \/ MapNothing(c)
      PROVE  Semaphore'
  BY <1>4, <1>5 DEF Connect, Die, Send, ReceiveReply, ReceiveNothing, MapNothing
<1>6. CASE Select \/ SkipClient \/ ReadHeader \/ ReadPayload \/ CloseClient
  BY <1>4, <1>6 DEF Select, SkipClient, ReadHeader, ReadPayload, CloseClient
<1>7. CASE InitGraph
  BY <1>1, <1>7 DEF InitGraph, Reply, Semaphore
<1>8. CASE LockGraph
  BY <1>1, <1>8 DEF LockGraph, Wait, Semaphore
<1>9. CASE AddVertices \/ AddNeighbor
  BY <1>1, <1>9 DEF AddVertices, AddNeighbor, Post, Reply, Semaphore
<1>10. CASE AddFurtherNeighbor
  BY <1>4, <1>10 DEF AddFurtherNeighbor
<1> QED BY <1>2, <1>3, <1>5, <1>6, <1>7, <1>8, <1>9, <1>10 DEF Next, Loop, Talk

-----------------------------------------------------------------------------
(* A request that the server is through with stays so, and a closed        *)
(* connection stays closed.                                                *)
LEMMA ServedStays ==
  ASSUME TypeOK, Serving, Next
  PROVE  /\ up' => up
         /\ \A x \in Conns : socket[x] = "closed" => socket'[x] = "closed"
         /\ \A x \in Conns : socket[x] \in {"sent", "closed"} => socket'[x] \in {"sent", "closed"}
         /\ \A x \in Conns : Served(x) => Served(x)'
<1> USE DEF serverVars, graphVars, lockVars, netVars, clientVars
<1>1. /\ rdyset \subseteq Conns /\ Null \notin Conns
      /\ socket \in [Conns -> {"none", "connected", "sent", "closed"}]
      /\ inbox \in [Conns -> {<<>>, <<"payload">>, <<"header", "payload">>}]
  BY Connections DEF TypeOK
<1>2. ASSUME NEW c \in Clients, Connect(c) \/ Talk(c) \/ Die(c)
      PROVE  /\ UNCHANGED <<up, serving, tmpNode>>
             /\ \A x \in Conns : socket[x] = "closed" => socket'[x] = "closed"
             /\ \A x \in Conns : socket[x] \in {"sent", "closed"} => /\ socket'[x] \in {"sent", "closed"}
                                                                 /\ inbox'[x] = inbox[x]
  BY <1>1, <1>2 DEF Connect, Talk, Send, ReceiveReply, ReceiveNothing, WaitForGraph, CopyGraph,
                    MapNothing, Die
<1>3. ASSUME Loop
      PROVE  /\ up /\ UNCHANGED socket
             /\ \A x \in Conns : inbox[x] = <<>> => inbox'[x] = <<>>
             /\ serving' # "none" =>
                  tmpNode' = tmpNode /\ (serving # "none" \/ inbox[tmpNode] # <<>>)
  <2>1. up /\ UNCHANGED socket
    BY <1>3 DEF Loop, Select, SkipClient, ReadHeader, ReadPayload, CloseClient, InitGraph,
       LockGraph, AddVertices, AddNeighbor, AddFurtherNeighbor, Reply
  <2>2. \A x \in Conns : inbox[x] = <<>> => inbox'[x] = <<>>
    BY <1>1, <1>3 DEF Loop, Select, SkipClient, ReadHeader, ReadPayload, CloseClient, InitGraph,
       LockGraph, AddVertices, AddNeighbor, AddFurtherNeighbor, Reply
  <2>3. CASE Select \/ SkipClient \/ CloseClient
    BY <1>1, <2>3 DEF Select, SkipClient, CloseClient, Serving
  <2>4. CASE ReadHeader \/ ReadPayload \/ LockGraph
    <3>1. \/ serving' = "none"
          \/ tmpNode' = tmpNode /\ inbox[tmpNode] # <<>>
          \/ tmpNode' = tmpNode /\ serving = "wait"
      BY <2>4 DEF ReadHeader, ReadPayload, LockGraph
    <3> QED BY <2>1, <2>2, <3>1
  <2>5. CASE InitGraph \/ AddVertices \/ AddNeighbor \/ AddFurtherNeighbor
    BY <2>5 DEF InitGraph, AddVertices, AddNeighbor, AddFurtherNeighbor, Reply
  <2> QED BY <1>3, <2>1, <2>2, <2>3, <2>4, <2>5 DEF Loop
<1>4. CASE Loop
  BY <1>3, <1>4 DEF Served
<1>5. CASE \E c \in Clients : Connect(c) \/ Talk(c) \/ Die(c)
  BY <1>2, <1>5 DEF Served
<1> QED BY <1>4, <1>5 DEF Next, Talk

LEMMA SequentialStep ==
  ASSUME TypeOK, Accepting, Serving, Sequential, Next
  PROVE  Sequential'
<1> USE DEF serverVars, graphVars, lockVars, netVars, clientVars
<1>1. /\ rdyset \subseteq Conns /\ Null \notin Conns
      /\ socket \in [Conns -> {"none", "connected", "sent", "closed"}]
      /\ reply \in [Conns -> {"none", "success"}]
      /\ at \in [Clients -> Nat] /\ success \subseteq Conns
  BY Connections DEF TypeOK, Accepting
<1>2. /\ up' => up
      /\ \A x \in Conns : socket[x] = "closed" => socket'[x] = "closed"
      /\ \A x \in Conns : Served(x) => Served(x)'
  BY ServedStays
<1>3. \A x \in Conns : \A j \in 0 .. x[2] : <<x[1], j>> \in Conns
  BY Connections
<1>4. \A c \in Clients : \A j \in 0 .. at[c] - 1 : <<c, j>> \in Conns
  <2>1. \A c \in Clients : at[c] \in 0 .. Inserts[c] + 1 /\ Inserts[c] \in Nat
    BY Connections DEF TypeOK
  <2> SUFFICES ASSUME NEW c \in Clients, NEW j \in 0 .. at[c] - 1 PROVE <<c, j>> \in Conns
    OBVIOUS
  <2>2. j \in 0 .. Inserts[c]
    BY <2>1
  <2>3. \A k \in 0 .. Inserts[c] : <<c, k>> \in Conns
    BY Connections, Zenon
  <2> QED BY <2>2, <2>3
<1>5. \A x \in Conns : reply'[x] # "none" => Served(x)'
  <2>1. ASSUME NEW c \in Clients, Connect(c) \/ Talk(c) \/ Die(c), NEW x \in Conns, reply'[x] # "none"
        PROVE  reply[x] # "none"
    BY <1>1, <2>1 DEF Connect, Talk, Send, ReceiveReply, ReceiveNothing, WaitForGraph, CopyGraph,
                MapNothing, Die
  <2>2. ASSUME Reply, serving # "none",
               NEW x \in Conns, reply'[x] # "none", reply[x] = "none"
        PROVE  Served(x)'
    <3>1. /\ x = tmpNode /\ socket[x] = "sent" /\ serving' = "none"
          /\ UNCHANGED <<socket, inbox>>
      BY <1>1, <2>2 DEF Reply
    <3> QED BY <2>2, <3>1 DEF Served, Serving
  <2>3. CASE InitGraph \/ AddVertices \/ AddNeighbor
    BY <1>2, <2>2, <2>3 DEF InitGraph, AddVertices, AddNeighbor, Sequential
  <2>4. CASE AddFurtherNeighbor
    BY <1>2, <2>2, <2>4 DEF AddFurtherNeighbor, Sequential
  <2>5. CASE Select \/ SkipClient \/ ReadHeader \/ ReadPayload \/ CloseClient \/ LockGraph
    BY <1>2, <2>5 DEF Select, SkipClient, ReadHeader, ReadPayload, CloseClient, LockGraph, Sequential
  <2> QED BY <1>2, <2>1, <2>3, <2>4, <2>5 DEF Next, Loop, Sequential, Talk
<1>6. \A x \in success' : Served(x)'
  <2>1. \A x \in success' : x \in Conns /\ (x \in success \/ reply[x] # "none")
    BY <1>1 DEF Next, Connect, Talk, Send, ReceiveReply, ReceiveNothing, WaitForGraph, CopyGraph,
       MapNothing, Die, Loop, Select, SkipClient, ReadHeader, ReadPayload, CloseClient, InitGraph,
       LockGraph, AddVertices, AddNeighbor, AddFurtherNeighbor, Reply
  <2> QED BY <1>2, <2>1 DEF Sequential
<1>7. \A x \in Conns : socket'[x] # "none" =>
        \A j \in 0 .. x[2] - 1 : socket'[<<x[1], j>>] = "closed" /\ Served(<<x[1], j>>)'
  <2>1. ASSUME NEW x \in Conns, socket'[x] # "none"
        PROVE  \A j \in 0 .. x[2] - 1 : socket[<<x[1], j>>] = "closed" /\ Served(<<x[1], j>>)
    <3>1. CASE socket[x] # "none"
      BY <3>1 DEF Sequential
    <3>2. CASE socket[x] = "none"
      <4>1. PICK c \in Clients : Connect(c) /\ x = Current(c)
        BY <1>1, <2>1, <3>2 DEF Next, Connect, Talk, Send, ReceiveReply, ReceiveNothing, WaitForGraph,
           CopyGraph, MapNothing, Die, Open, Loop, Select, SkipClient, ReadHeader, ReadPayload,
           CloseClient, InitGraph, LockGraph, AddVertices, AddNeighbor, AddFurtherNeighbor, Reply,
           TypeOK
      <4>2. up /\ c \notin dead /\ x[1] = c /\ x[2] = at[c]
        BY <4>1 DEF Connect, Current
      <4> QED BY <4>2 DEF Sequential
    <3> QED BY <3>1, <3>2
  <2>2. \A x \in Conns : \A j \in 0 .. x[2] - 1 : <<x[1], j>> \in Conns
    BY Connections
  <2> QED BY <1>2, <2>1, <2>2
<1>8. \A c \in Clients : up' /\ c \notin dead' =>
        \A j \in 0 .. at'[c] - 1 : socket'[<<c, j>>] = "closed" /\ Served(<<c, j>>)'
  <2> SUFFICES ASSUME NEW c \in Clients, up', c \notin dead', NEW j \in 0 .. at'[c] - 1
               PROVE  socket'[<<c, j>>] = "closed" /\ Served(<<c, j>>)'
    OBVIOUS
  <2>1. up /\ c \notin dead
    <3>1. dead \subseteq dead'
      BY DEF Next, Connect, Talk, Send, ReceiveReply, ReceiveNothing, WaitForGraph, CopyGraph,
         MapNothing, Die, Loop, Select, SkipClient, ReadHeader, ReadPayload, CloseClient, InitGraph,
         LockGraph, AddVertices, AddNeighbor, AddFurtherNeighbor, Reply
    <3> QED BY <1>2, <3>1
  <2>2. CASE at'[c] = at[c]
    BY <1>2, <1>4, <2>1, <2>2 DEF Sequential
  <2>3. CASE at'[c] # at[c]
    <3>1. ReceiveReply(c) /\ at' = [at EXCEPT ![c] = @ + 1]
      BY <1>1, <2>1, <2>3 DEF Next, Connect, Talk, Send, ReceiveReply, ReceiveNothing, WaitForGraph,
         CopyGraph, MapNothing, Die, Loop, Select, SkipClient, ReadHeader, ReadPayload,
         CloseClient, InitGraph, LockGraph, AddVertices, AddNeighbor, AddFurtherNeighbor, Reply
    <3>2. CASE j = at[c]
      <4>1. /\ Current(c) \in Conns /\ reply[Current(c)] # "none"
            /\ socket' = [socket EXCEPT ![Current(c)] = "closed"]
        BY <3>1 DEF ReceiveReply
      <4> QED BY <1>1, <1>2, <3>2, <4>1 DEF Current, Sequential
    <3>3. CASE j # at[c]
      <4>1. j \in 0 .. at[c] - 1
        BY <1>1, <3>1, <3>3
      <4> QED BY <1>2, <1>4, <2>1, <4>1 DEF Sequential
    <3> QED BY <3>2, <3>3
  <2> QED BY <2>2, <2>3
<1> QED BY <1>5, <1>6, <1>7, <1>8 DEF Sequential

-----------------------------------------------------------------------------
(* A request that the server is through with is an earlier one of the same *)
(* client than that which it is at, or of a client other than one that     *)
(* initialised the graph.                                                  *)
LEMMA InService ==
  ASSUME TypeOK, Serving, Sequential, up, serving # "none", NEW x \in Conns, Served(x)
  PROVE  \/ OtherInit(x[1])
         \/ x[1] = tmpNode[1] /\ x[2] < tmpNode[2]
<1> DEFINE y == tmpNode
<1>1. /\ y \in Conns /\ socket[y] \in {"sent", "closed"} /\ x # y
      /\ socket[x] \in {"sent", "closed"}
  BY DEF TypeOK, Serving, Served
<1>2. /\ x = <<x[1], x[2]>> /\ y = <<y[1], y[2]>> /\ x[2] \in Nat /\ y[2] \in Nat
      /\ y[1] \in Clients
  BY <1>1, Connections
<1>3. CASE x[1] = y[1]
  <2>1. x[2] # y[2]
    BY <1>1, <1>2, <1>3
  <2>2. ~(y[2] < x[2])
    <3> SUFFICES ASSUME y[2] < x[2] PROVE FALSE
      OBVIOUS
    <3>1. y[2] \in 0 .. x[2] - 1
      BY <1>2
    <3>2. Served(<<x[1], y[2]>>)
      BY <1>1, <3>1 DEF Sequential
    <3> QED BY <1>2, <1>3, <3>2 DEF Served
  <2> QED BY <1>2, <1>3, <2>1, <2>2
<1>4. CASE x[1] # y[1]
  <2>1. socket[<<y[1], 0>>] \in {"sent", "closed"}
    <3>1. CASE y[2] = 0
      BY <1>1, <1>2, <3>1
    <3>2. CASE y[2] # 0
      <4>1. 0 \in 0 .. y[2] - 1
        BY <1>2, <3>2
      <4> QED BY <1>1, <4>1 DEF Sequential
    <3> QED BY <3>1, <3>2
  <2> QED BY <1>2, <1>4, <2>1 DEF OtherInit
<1> QED BY <1>3, <1>4

(* An array that grows has at least as many slots as a new one.            *)
LEMMA GrowsLate ==
  ASSUME NEW n \in Nat \ {0}, G!Grows(n)
  PROVE  n >= Slots
<1>1. Slots \in Int /\ Slots > 0 /\ n \in Int /\ n > 0
  BY ServerAssumption
<1>2. (n % Slots) = 0
  BY DEF G!Grows
<1>3. n < Slots => (n % Slots) = n
  BY <1>1
<1> QED BY <1>1, <1>2, <1>3

(* An insertion loses no vertex, and no neighbour but of a vertex that the *)
(* same client inserts later, until an array grows.                        *)
LEMMA KeptByVertex ==
  ASSUME TypeOK, NEW x \in Conns, NEW y \in Conns, y[2] > x[2], Kept(x), ~OtherInit(x[1])',
         graph' = G!AddVertex(graph, y), UNCHANGED v1, OtherInit(x[1]) => OtherInit(x[1])'
  PROVE  Kept(x)'
<1> DEFINE v == Len(graph.vertices) + 1
<1>1. /\ graph.vertices \in Seq(Conns) /\ graph.neighborsPtr \subseteq Nat /\ graph.lists \in Nat
      /\ v \in Nat \ {0} /\ DOMAIN graph.vertices = 1 .. v - 1 /\ Slots \in Nat
  BY ServerAssumption DEF TypeOK, G!GraphType
<1>2. /\ graph'.vertices = Append(graph.vertices, y)
      /\ graph'.neighborsPtr = IF G!Grows(v) THEN {} ELSE graph.neighborsPtr \ {v}
      /\ graph'.lists = graph.lists /\ graph'.neighbors = graph.neighbors
  BY DEF G!AddVertex, TypeOK, G!GraphType
<1>3. /\ DOMAIN graph'.vertices = 1 .. v /\ Len(graph'.vertices) = v
      /\ graph'.vertices[v] = y
      /\ \A i \in 1 .. v - 1 : graph'.vertices[i] = graph.vertices[i]
  BY <1>1, <1>2
<1> HIDE DEF v
<1>4. G!Grows(v) => G!Grown(graph')
  BY <1>1, <1>3, GrowsLate DEF G!Grown
<1>5. CASE IsInit(x) \/ OtherInit(x[1])
  BY <1>5 DEF Kept
<1>6. CASE v1[x] = 0 /\ \E i \in DOMAIN graph.vertices : graph.vertices[i] = x
  BY <1>1, <1>3, <1>6 DEF Kept
<1>7. CASE v1[x] # 0 /\ G!Grown(graph)
  <2>1. G!Grown(graph')
    BY <1>1, <1>2, <1>3, <1>7 DEF G!Grown, v
  <2> QED BY <1>7, <2>1 DEF Kept
<1>8. CASE v1[x] # 0 /\ v1[x] = v
  BY <1>1, <1>3, <1>8 DEF Kept
<1>9. CASE v1[x] # 0 /\ v1[x] # v /\ v1[x] \notin DOMAIN graph.vertices
  BY <1>1, <1>3, <1>9 DEF Kept
<1>10. CASE v1[x] # 0 /\ v1[x] \in DOMAIN graph.vertices /\ graph.vertices[v1[x]][2] > x[2]
  BY <1>1, <1>3, <1>10 DEF Kept
<1>11. CASE v1[x] # 0 /\ v1[x] # v /\ x \in G!Neighbors(graph, v1[x])
  <2>1. G!Grows(v) \/ x \in G!Neighbors(graph', v1[x])
    BY <1>2, <1>11 DEF G!Neighbors
  <2> QED BY <1>4, <1>11, <2>1 DEF Kept
<1> QED BY <1>5, <1>6, <1>7, <1>8, <1>9, <1>10, <1>11 DEF Kept

(* addNeighbor keeps what was in the graph, if no array grows.           *)
LEMMA KeptByNeighbor ==
  ASSUME TypeOK, NEW x \in Conns, NEW y \in Conns, NEW w \in Nat, Kept(x),
         w \notin graph.neighborsPtr, graph' = G!AddNeighbor(graph, w, y), UNCHANGED v1,
         OtherInit(x[1]) => OtherInit(x[1])'
  PROVE  Kept(x)'
<1>1. /\ graph.vertices \in Seq(Conns) /\ graph.neighborsPtr \subseteq Nat /\ graph.lists \in Nat
      /\ Slots \in Nat
  BY ServerAssumption DEF TypeOK, G!GraphType
<1> DEFINE grows == G!Grows(graph.lists + 1) \/ G!Grows(graph.lists + 2)
<1>2. /\ graph'.vertices = graph.vertices /\ graph'.neighborsPtr = graph.neighborsPtr \cup {w}
      /\ graph'.lists = graph.lists + 2
      /\ graph'.neighbors = (IF grows THEN {} ELSE {n \in graph.neighbors : n[2] # w}) \cup {<<y, w>>}
  BY DEF G!AddNeighbor, TypeOK, G!GraphType
<1>3. grows => G!Grown(graph')
  BY <1>1, <1>2, GrowsLate DEF G!Grown
<1> HIDE DEF grows
<1>4. G!Grown(graph) => G!Grown(graph')
  BY <1>1, <1>2 DEF G!Grown
<1>5. ~grows /\ x \in G!Neighbors(graph, v1[x]) => x \in G!Neighbors(graph', v1[x])
  BY <1>2 DEF G!Neighbors
<1> QED BY <1>2, <1>3, <1>4, <1>5 DEF Kept

LEMMA KeptStep ==
  ASSUME TypeOK, Accepting, Serving, Sequential, AllKept, Next
  PROVE  AllKept'
<1> USE DEF serverVars, graphVars, lockVars, netVars, clientVars
<1> SUFFICES ASSUME NEW x \in Conns, x \in success' \/ reply'[x] = "success" PROVE Kept(x)'
  BY DEF AllKept
<1>1. /\ rdyset \subseteq Conns /\ Null \notin Conns
      /\ socket \in [Conns -> {"none", "connected", "sent", "closed"}]
      /\ reply \in [Conns -> {"none", "success"}]
      /\ v1 \in [Conns -> Vertices \cup {0}] /\ success \subseteq Conns
      /\ \A y \in Conns : v1[y] \in Nat /\ y[2] \in Nat
      /\ \A c \in Clients : <<c, 0>> \in Conns
      /\ x[1] \in Clients
  <2>1. \A c \in Clients : Inserts[c] \in Nat
    BY Connections
  <2>2. \A c \in Clients : <<c, 0>> \in Conns
    <3> SUFFICES ASSUME NEW c \in Clients PROVE <<c, 0>> \in Conns
      OBVIOUS
    <3>1. 0 \in 0 .. Inserts[c]
      BY <2>1
    <3>2. \A k \in 0 .. Inserts[c] : <<c, k>> \in Conns
      BY Connections, Zenon
    <3> QED BY <3>1, <3>2
  <2>3. \A y \in Conns : y[1] \in Clients /\ y[2] \in Nat
    BY <2>1, Connections
  <2> QED BY <2>2, <2>3, Connections, ServerAssumption DEF TypeOK
<1>2. OtherInit(x[1]) => OtherInit(x[1])'
  BY <1>1, ServedStays DEF OtherInit
<1>3. ASSUME Kept(x), UNCHANGED graph, v1'[x] = v1[x] PROVE Kept(x)'
  BY <1>2, <1>3 DEF Kept
<1>4. CASE x \in success \/ reply[x] = "success"
  <2>1. Kept(x) /\ Served(x) /\ socket[x] \in {"sent", "closed"}
    BY <1>4 DEF AllKept, Sequential, TypeOK
  <2>2. ASSUME NEW c \in Clients, Connect(c) \/ Talk(c) \/ Die(c) PROVE Kept(x)'
    <3>1. UNCHANGED graph
      BY <2>2 DEF Connect, Talk, Send, ReceiveReply, ReceiveNothing, WaitForGraph, CopyGraph,
                  MapNothing, Die
    <3>2. v1'[x] = v1[x]
      BY <1>1, <2>1, <2>2 DEF Connect, Talk, Send, ReceiveReply, ReceiveNothing, WaitForGraph,
                         CopyGraph, MapNothing, Die
    <3> QED BY <1>3, <2>1, <3>1, <3>2
  <2>3. CASE Select \/ SkipClient \/ ReadHeader \/ ReadPayload \/ CloseClient \/ LockGraph
             \/ AddFurtherNeighbor
    BY <1>3, <2>1, <2>3 DEF Select, SkipClient, ReadHeader, ReadPayload, CloseClient, LockGraph,
                       AddFurtherNeighbor, Reply
  <2>4. ASSUME up, serving # "none" PROVE OtherInit(x[1]) \/ x[2] < tmpNode[2]
    BY <2>1, <2>4, InService
  <2>5. OtherInit(x[1])' => Kept(x)'
    BY DEF Kept
  <2>6. CASE InitGraph
    <3>1. tmpNode[2] = 0 /\ up /\ serving # "none"
      BY <2>6 DEF InitGraph, Serving, IsInit
    <3> QED BY <1>1, <1>2, <2>4, <2>5, <3>1
  <2>7. CASE AddVertices
    <3>1. /\ up /\ serving # "none" /\ tmpNode \in Conns /\ UNCHANGED v1
          /\ graph' = G!AddVertex(graph, tmpNode)
      BY <1>1, <2>7 DEF AddVertices, Reply, Serving
    <3> QED BY <1>1, <1>2, <2>1, <2>4, <2>5, <3>1, KeptByVertex
  <2>8. CASE AddNeighbor
    <3>1. /\ tmpNode \in Conns /\ UNCHANGED v1 /\ v1[tmpNode] \in Nat
          /\ v1[tmpNode] \notin graph.neighborsPtr
          /\ graph' = G!AddNeighbor(graph, v1[tmpNode], tmpNode)
      BY <1>1, <2>8 DEF AddNeighbor, Reply, Serving
    <3> QED BY <1>2, <2>1, <3>1, KeptByNeighbor
  <2> QED BY <2>2, <2>3, <2>6, <2>7, <2>8 DEF Next, Loop, Talk
<1>5. CASE ~(x \in success \/ reply[x] = "success")
  <2>1. CASE \E c \in Clients : Connect(c) \/ Talk(c) \/ Die(c)
    BY <1>1, <1>5, <2>1 DEF Connect, Talk, Send, ReceiveReply, ReceiveNothing, WaitForGraph,
                       CopyGraph, MapNothing, Die
  <2>2. CASE Select \/ SkipClient \/ ReadHeader \/ ReadPayload \/ CloseClient \/ LockGraph
    BY <1>5, <2>2 DEF Select, SkipClient, ReadHeader, ReadPayload, CloseClient, LockGraph
  <2>3. ASSUME Reply
        PROVE  x = tmpNode /\ UNCHANGED v1
    BY <1>1, <1>5, <2>3 DEF Reply
  <2>4. CASE AddFurtherNeighbor
    BY <1>5, <2>3, <2>4 DEF AddFurtherNeighbor
  <2>5. CASE InitGraph
    <3>1. x = tmpNode /\ IsInit(tmpNode)
      BY <2>3, <2>5 DEF InitGraph, Serving
    <3> QED BY <3>1 DEF Kept
  <2>6. CASE AddVertices
    <3>1. x = tmpNode /\ v1'[x] = 0 /\ graph' = G!AddVertex(graph, x)
      BY <2>3, <2>6 DEF AddVertices
    <3>2. graph.vertices \in Seq(Conns) /\ graph'.vertices = Append(graph.vertices, x)
      BY <3>1 DEF TypeOK, G!GraphType, G!AddVertex
    <3>3. \E i \in DOMAIN graph'.vertices : graph'.vertices[i] = x
      <4>1. /\ Len(graph.vertices) + 1 \in DOMAIN graph'.vertices
            /\ graph'.vertices[Len(graph.vertices) + 1] = x
        BY <3>2
      <4> QED BY <4>1
    <3> QED BY <3>1, <3>3 DEF Kept
  <2>7. CASE AddNeighbor
    <3>1. x = tmpNode /\ v1'[x] = v1[x] /\ v1[x] # 0 /\ graph' = G!AddNeighbor(graph, v1[x], x)
      BY <2>3, <2>7 DEF AddNeighbor
    <3>2. v1[x] \in graph'.neighborsPtr /\ <<x, v1[x]>> \in graph'.neighbors
      BY <3>1 DEF TypeOK, G!GraphType, G!AddNeighbor
    <3> QED BY <3>1, <3>2 DEF Kept, G!Neighbors
  <2> QED BY <2>1, <2>2, <2>4, <2>5, <2>6, <2>7 DEF Next, Loop, Talk
<1> QED BY <1>4, <1>5

-----------------------------------------------------------------------------
(* What linkedList_addNode does to a list: the node is at its end, or, if  *)
(* the tail pointer is that of a freed node, in none.                      *)
LEMMA PathAdd ==
  ASSUME NEW l \in L!ListType, NEW n \in Nat, NEW s \in [1 .. n -> Conns], IsPath(l, n, s),
         NEW x \in Conns, \A i \in 1 .. n : s[i] # x,
         l.next[x] = Null, l.prev[x] = Null, l.tail # x,
         n = 0 \/ l.tail # Null, \A i \in 1 .. n : l.tail = s[i] => i = n
  PROVE  \E m \in Nat : \E t \in [1 .. m -> Conns] :
           /\ IsPath(L!AddNode(l, x), m, t)
           /\ \A i \in 1 .. m : t[i] = x \/ \E j \in 1 .. n : t[i] = s[j]
           /\ m = 0 \/ L!AddNode(l, x).tail # Null
           /\ \A i \in 1 .. m : L!AddNode(l, x).tail = t[i] => i = m
<1> DEFINE a == L!AddNode(l, x)
<1>1. /\ l.next \in [Conns -> Conns \cup {Null}] /\ l.prev \in [Conns -> Conns \cup {Null}]
      /\ l.tail \in Conns \cup {Null} /\ Null \notin Conns
      /\ \A i \in 1 .. n : s[i] \in Conns
  BY Connections DEF L!ListType
<1>2. CASE n = 0
  <2>1. l.head = Null
    BY <1>2 DEF IsPath
  <2>2. a.head = x /\ a.tail = x /\ a.next = l.next /\ a.prev = l.prev
    BY <2>1 DEF L!AddNode, L!ListType
  <2> DEFINE t == [i \in 1 .. 1 |-> x]
  <2>3. t \in [1 .. 1 -> Conns] /\ IsPath(a, 1, t)
    BY <2>2 DEF IsPath
  <2>4. \A i \in 1 .. 1 : t[i] = x
    OBVIOUS
  <2>5. /\ a.tail # Null
        /\ \A i \in 1 .. 1 : a.tail = t[i] => i = 1
    BY <1>1, <2>2
  <2> HIDE DEF t, a
  <2> USE <2>3
  <2> WITNESS 1 \in Nat
  <2> WITNESS t \in [1 .. 1 -> Conns]
  <2> QED BY <2>3, <2>4, <2>5 DEF a
<1>3. CASE n # 0
  <2>1. l.head # Null /\ l.tail \in Conns
    BY <1>1, <1>3 DEF IsPath
  <2>2. /\ a.head = l.head /\ a.tail = x
        /\ a.next = [l.next EXCEPT ![l.tail] = x] /\ a.prev = [l.prev EXCEPT ![x] = l.tail]
    BY <2>1 DEF L!AddNode, L!ListType
  <2> HIDE DEF a
  <2>3. CASE l.tail = s[n]
    <3> DEFINE t == [i \in 1 .. n + 1 |-> IF i = n + 1 THEN x ELSE s[i]]
    <3>1. t \in [1 .. n + 1 -> Conns] /\ t[n + 1] = x /\ \A i \in 1 .. n : t[i] = s[i]
      BY <1>1
    <3> HIDE DEF t
    <3>2. \A i, j \in 1 .. n + 1 : t[i] = t[j] => i = j
      BY <3>1 DEF IsPath
    <3>3. a.head = t[1]
      BY <1>3, <2>2, <3>1 DEF IsPath
    <3>4. \A i \in 1 .. n + 1 : a.next[t[i]] = IF i = n + 1 THEN Null ELSE t[i + 1]
      BY <1>1, <2>1, <2>2, <2>3, <3>1, <3>2 DEF IsPath
    <3>5. \A i \in 1 .. n + 1 : a.prev[t[i]] = IF i = 1 THEN Null ELSE t[i - 1]
      BY <1>1, <1>3, <2>2, <2>3, <3>1 DEF IsPath
    <3>6. IsPath(a, n + 1, t)
      BY <3>2, <3>3, <3>4, <3>5 DEF IsPath
    <3> QED BY <1>1, <2>2, <3>1, <3>2, <3>6 DEF a
  <2>4. CASE l.tail # s[n]
    <3>1. \A i \in 1 .. n : s[i] # l.tail
      BY <2>4
    <3>2. IsPath(a, n, s)
      BY <1>1, <2>2, <3>1 DEF IsPath
    <3> QED BY <1>1, <2>2, <3>2 DEF a
  <2> QED BY <2>3, <2>4
<1> QED BY <1>2, <1>3

(* The list r has the nodes of s but for the one at k.                     *)
Without(r, n, s, k) ==
  \E m \in Nat : \E t \in [1 .. m -> Conns] :
  /\ IsPath(r, m, t)
  /\ \A i \in 1 .. m : \E j \in 1 .. n : t[i] = s[j] /\ j # k
  /\ \A j \in 1 .. n : j # k => \E i \in 1 .. m : t[i] = s[j]
  /\ m = 0 \/ r.tail # Null
  /\ \A i \in 1 .. m : r.tail = t[i] => i = m

(* What linkedList_removeNode does to it: the others remain, in order.     *)
LEMMA PathRemove ==
  ASSUME NEW l \in L!ListType, NEW n \in Nat, NEW s \in [1 .. n -> Conns], IsPath(l, n, s),
         NEW k \in 1 .. n, n = 0 \/ l.tail # Null, \A i \in 1 .. n : l.tail = s[i] => i = n
  PROVE  Without(L!RemoveNode(l, s[k]), n, s, k)
<1> SUFFICES \E m \in Nat : \E t \in [1 .. m -> Conns] :
               /\ IsPath(L!RemoveNode(l, s[k]), m, t)
               /\ \A i \in 1 .. m : \E j \in 1 .. n : t[i] = s[j] /\ j # k
               /\ \A j \in 1 .. n : j # k => \E i \in 1 .. m : t[i] = s[j]
               /\ m = 0 \/ L!RemoveNode(l, s[k]).tail # Null
               /\ \A i \in 1 .. m : L!RemoveNode(l, s[k]).tail = t[i] => i = m
  BY DEF Without
<1> DEFINE r == L!RemoveNode(l, s[k])
           t == [i \in 1 .. n - 1 |-> IF i < k THEN s[i] ELSE s[i + 1]]
<1>1. /\ l.next \in [Conns -> Conns \cup {Null}] /\ l.prev \in [Conns -> Conns \cup {Null}]
      /\ Null \notin Conns /\ n \in Nat \ {0} /\ n - 1 \in Nat
      /\ \A i \in 1 .. n : s[i] \in Conns
  BY Connections DEF L!ListType
<1>2. /\ t \in [1 .. n - 1 -> Conns]
      /\ \A i \in 1 .. n - 1 : t[i] = IF i < k THEN s[i] ELSE s[i + 1]
  BY <1>1
<1>3. /\ l.next[s[k]] = IF k = n THEN Null ELSE s[k + 1]
      /\ l.prev[s[k]] = IF k = 1 THEN Null ELSE s[k - 1]
      /\ l.head = s[1]
  BY <1>1 DEF IsPath
<1>4. /\ r.head = IF k # 1 THEN l.head ELSE IF n = 1 THEN Null ELSE s[2]
      /\ n # 1 => r.tail = l.tail
      /\ r.next = IF k = 1 THEN l.next
                  ELSE [l.next EXCEPT ![s[k - 1]] = IF k = n THEN Null ELSE s[k + 1]]
      /\ r.prev = IF k = n THEN l.prev
                  ELSE [l.prev EXCEPT ![s[k + 1]] = IF k = 1 THEN Null ELSE s[k - 1]]
  <2>1. k # n => s[k + 1] \in Conns
    BY <1>1
  <2>2. k # 1 => s[k - 1] \in Conns
    BY <1>1
  <2>3. CASE k # 1 /\ k # n
    BY <1>1, <1>3, <2>1, <2>2, <2>3 DEF L!RemoveNode, L!ListType
  <2>4. CASE k = 1 /\ k # n
    BY <1>1, <1>3, <2>1, <2>4 DEF L!RemoveNode, L!ListType
  <2>5. CASE k # 1 /\ k = n
    BY <1>1, <1>3, <2>2, <2>5 DEF L!RemoveNode, L!ListType
  <2>6. CASE k = 1 /\ k = n
    BY <1>1, <1>3, <2>6 DEF L!RemoveNode, L!ListType
  <2> QED BY <2>3, <2>4, <2>5, <2>6
<1> HIDE DEF r, t
<1>5. \A i, j \in 1 .. n - 1 : t[i] = t[j] => i = j
  BY <1>2 DEF IsPath
<1>6. r.head = IF n - 1 = 0 THEN Null ELSE t[1]
  BY <1>2, <1>3, <1>4
<1>7. \A i \in 1 .. n - 1 : r.next[t[i]] = IF i = n - 1 THEN Null ELSE t[i + 1]
  BY <1>1, <1>2, <1>4 DEF IsPath
<1>8. \A i \in 1 .. n - 1 : r.prev[t[i]] = IF i = 1 THEN Null ELSE t[i - 1]
  <2> SUFFICES ASSUME NEW i \in 1 .. n - 1 PROVE r.prev[t[i]] = IF i = 1 THEN Null ELSE t[i - 1]
    OBVIOUS
  <2>1. CASE i < k
    <3>1. t[i] = s[i] /\ r.prev[s[i]] = l.prev[s[i]]
      BY <1>1, <1>2, <1>4, <2>1 DEF IsPath
    <3>2. i # 1 => t[i - 1] = s[i - 1]
      BY <1>2, <2>1
    <3> QED BY <3>1, <3>2 DEF IsPath
  <2>2. CASE i = k
    <3>1. t[i] = s[k + 1] /\ r.prev[s[k + 1]] = IF k = 1 THEN Null ELSE s[k - 1]
      BY <1>1, <1>2, <1>4, <2>2
    <3>2. i # 1 => t[i - 1] = s[k - 1]
      BY <1>2, <2>2
    <3> QED BY <2>2, <3>1, <3>2
  <2>3. CASE i > k
    <3>1. t[i] = s[i + 1] /\ r.prev[s[i + 1]] = l.prev[s[i + 1]]
      BY <1>1, <1>2, <1>4, <2>3 DEF IsPath
    <3>2. t[i - 1] = s[i]
      BY <1>2, <2>3
    <3> QED BY <2>3, <3>1, <3>2 DEF IsPath
  <2> QED BY <2>1, <2>2, <2>3
<1>9. IsPath(r, n - 1, t)
  BY <1>5, <1>6, <1>7, <1>8 DEF IsPath
<1>10. \A i \in 1 .. n - 1 : \E j \in 1 .. n : t[i] = s[j] /\ j # k
  BY <1>2
<1>11. \A j \in 1 .. n : j # k => \E i \in 1 .. n - 1 : t[i] = s[j]
  <2> SUFFICES ASSUME NEW j \in 1 .. n, j # k PROVE \E i \in 1 .. n - 1 : t[i] = s[j]
    OBVIOUS
  <2>1. CASE j < k
    BY <1>2, <2>1
  <2>2. CASE j > k
    <3>1. j - 1 \in 1 .. n - 1 /\ t[j - 1] = s[j]
      BY <1>2, <2>2
    <3> QED BY <3>1
  <2> QED BY <2>1, <2>2
<1>12. \A i \in 1 .. n - 1 : r.tail = t[i] => i = n - 1
  BY <1>2, <1>4
<1>13. n - 1 = 0 \/ r.tail # Null
  BY <1>1, <1>4
<1> USE <1>1, <1>2
<1> WITNESS n - 1 \in Nat
<1> WITNESS t \in [1 .. n - 1 -> Conns]
<1> QED BY <1>9, <1>10, <1>11, <1>12, <1>13 DEF r

(* A connection, once accepted, is never fresh again.                    *)
LEMMA FreshShrinks ==
  ASSUME TypeOK, Accepting, Next
  PROVE  \A x \in Conns : Fresh(x)' => Fresh(x)
<1> USE DEF serverVars, graphVars, lockVars, netVars, clientVars
<1>1. /\ backlog \in Seq(Conns) /\ DOMAIN backlog = 1 .. Len(backlog) /\ Len(backlog) \in Nat
      /\ socket \in [Conns -> {"none", "connected", "sent", "closed"}]
  BY DEF TypeOK
<1>2. ASSUME NEW c \in Clients, Connect(c) PROVE \A x \in Conns : Fresh(x)' => Fresh(x)
  <2> DEFINE y == Current(c)
  <2>1. /\ y \in Conns /\ socket[y] = "none" /\ socket' = [socket EXCEPT ![y] = "connected"]
        /\ backlog' = Append(backlog, y)
    BY <1>2 DEF Connect
  <2> HIDE DEF y
  <2>2. /\ DOMAIN backlog' = 1 .. Len(backlog) + 1 /\ backlog'[Len(backlog) + 1] = y
        /\ \A i \in 1 .. Len(backlog) : backlog'[i] = backlog[i]
    BY <1>1, <2>1
  <2> QED BY <1>1, <2>1, <2>2 DEF Fresh
<1>3. ASSUME NEW c \in Clients, Talk(c) \/ Die(c) PROVE \A x \in Conns : Fresh(x)' => Fresh(x)
  <2>1. UNCHANGED backlog
    BY <1>3 DEF Talk, Send, ReceiveReply, ReceiveNothing, WaitForGraph, CopyGraph, MapNothing, Die
  <2>2. \A x \in Conns : socket'[x] = "none" => socket[x] = "none"
    BY <1>1, <1>3 DEF Talk, Send, ReceiveReply, ReceiveNothing, WaitForGraph, CopyGraph, MapNothing, Die
  <2> QED BY <2>1, <2>2 DEF Fresh
<1>4. CASE Select
  <2>1. CASE backlog # <<>>
    <3>1. backlog' = Tail(backlog) /\ UNCHANGED socket
      BY <1>4, <2>1 DEF Select
    <3>2. /\ DOMAIN backlog' = 1 .. Len(backlog) - 1
          /\ \A i \in 1 .. Len(backlog) - 1 : backlog'[i] = backlog[i + 1]
      BY <1>1, <2>1, <3>1
    <3>3. \A i \in 1 .. Len(backlog) - 1 : i + 1 \in DOMAIN backlog
      BY <1>1
    <3> QED BY <3>1, <3>2, <3>3 DEF Fresh
  <2>2. CASE backlog = <<>>
    BY <1>4, <2>2 DEF Select, Fresh
  <2> QED BY <2>1, <2>2
<1>5. CASE Loop /\ ~Select
  <2>1. UNCHANGED <<backlog, socket>>
    BY <1>5 DEF Loop, SkipClient, ReadHeader, ReadPayload, CloseClient, InitGraph,
       LockGraph, AddVertices, AddNeighbor, AddFurtherNeighbor, Reply
  <2> QED BY <2>1 DEF Fresh
<1> QED BY <1>2, <1>3, <1>4, <1>5 DEF Next

(* addNode and removeNode keep the list a path of open connections.      *)
LEMMA ListStep ==
  ASSUME TypeOK, Accepting, Serving, ListInv, Next
  PROVE  ListInv'
<1> USE DEF serverVars, graphVars, lockVars, netVars, clientVars
<1> DEFINE AllFresh ==
             \A x \in Conns : Fresh(x) => /\ x \notin readset /\ clientList.tail # x
                                          /\ clientList.next[x] = Null /\ clientList.prev[x] = Null
           SomeList == \E n \in Nat : \E s \in [1 .. n -> Conns] : Linked(clientList, n, s)
<1>1. /\ rdyset \subseteq readset /\ readset \subseteq Conns /\ Null \notin Conns
      /\ clientList \in L!ListType
      /\ \A x \in Conns : Fresh(x)' => Fresh(x)
  BY Connections, FreshShrinks DEF TypeOK
<1>2. CASE \E c \in Clients : Connect(c) \/ Talk(c) \/ Die(c)
  <2>1. UNCHANGED <<up, clientList, readset, tmpNode>>
    BY <1>2 DEF Connect, Talk, Send, ReceiveReply, ReceiveNothing, WaitForGraph, CopyGraph,
                MapNothing, Die
  <2> QED BY <1>1, <2>1 DEF ListInv, Linked
<1>3. ASSUME Loop PROVE up /\ SomeList /\ AllFresh
  <2>1. up
    BY <1>3 DEF Loop, Select, SkipClient, ReadHeader, ReadPayload, CloseClient, InitGraph,
       LockGraph, AddVertices, AddNeighbor, AddFurtherNeighbor
  <2> QED BY <2>1 DEF ListInv
<1>4. ASSUME Loop, UNCHANGED <<clientList, readset>>,
             tmpNode' \in {tmpNode, clientList.head} \/ (tmpNode # Null /\ Advance)
      PROVE  ListInv'
  <2>1. AllFresh'
    BY <1>1, <1>3, <1>4
  <2>2. PICK n \in Nat : \E s \in [1 .. n -> Conns] : Linked(clientList, n, s)
    BY <1>3, <1>4
  <2>3. PICK s \in [1 .. n -> Conns] : Linked(clientList, n, s)
    BY <2>2
  <2>4. tmpNode' # Null => \E i \in 1 .. n : tmpNode' = s[i]
    <3>1. CASE tmpNode' = tmpNode
      BY <2>3, <3>1 DEF Linked
    <3>2. CASE tmpNode' = clientList.head
      BY <2>3, <3>2 DEF Linked, IsPath
    <3>3. CASE tmpNode # Null /\ Advance
      <4>1. PICK i \in 1 .. n : tmpNode = s[i]
        BY <2>3, <3>3 DEF Linked
      <4>2. tmpNode' = IF i = n THEN Null ELSE s[i + 1]
        BY <2>3, <3>3, <4>1 DEF Advance, Linked, IsPath
      <4> QED BY <4>2
    <3> QED BY <1>4, <3>1, <3>2, <3>3
  <2>5. Linked(clientList, n, s)'
    BY <1>4, <2>3, <2>4 DEF Linked
  <2> QED BY <2>1, <2>5 DEF ListInv
<1>5. CASE Select
  <2>1. CASE backlog = <<>>
    <3>1. Loop /\ UNCHANGED <<clientList, readset>> /\ tmpNode' = clientList.head
      BY <1>5, <2>1 DEF Select, Loop
    <3> QED BY <1>4, <3>1
  <2>2. CASE backlog # <<>>
    <3>0. /\ backlog \in Seq(Conns) /\ Len(backlog) \in Nat \ {0}
          /\ DOMAIN backlog = 1 .. Len(backlog) /\ Head(backlog) \in Conns
          /\ Head(backlog) = backlog[1]
          /\ DOMAIN Tail(backlog) = 1 .. Len(backlog) - 1
          /\ \A i \in 1 .. Len(backlog) - 1 : Tail(backlog)[i] = backlog[i + 1]
      BY <2>2 DEF TypeOK
    <3> PICK x \in Conns : x = Head(backlog)
      BY <3>0
    <3>1. Fresh(x) /\ ~Fresh(x)'
      <4>2. 1 \in DOMAIN backlog /\ x = backlog[1]
        BY <3>0
      <4>3. backlog' = Tail(backlog) /\ UNCHANGED socket
        BY <1>5, <2>2 DEF Select
      <4>4. socket[x] # "none"
        BY <4>2 DEF Accepting
      <4>5. \A i \in 1 .. Len(backlog) - 1 : Tail(backlog)[i] # x
        BY <3>0, <4>2 DEF Accepting
      <4>6. Fresh(x)
        BY <4>2 DEF Fresh
      <4>7. DOMAIN backlog' = 1 .. Len(backlog) - 1
        BY <3>0, <4>3
      <4> QED BY <4>3, <4>4, <4>5, <4>6, <4>7 DEF Fresh
    <3>2. /\ readset' = readset \cup {x} /\ clientList' = L!AddNode(clientList, x)
          /\ tmpNode' = clientList'.head /\ Loop
      BY <1>5, <2>2 DEF Select, Loop
    <3>3. PICK n \in Nat : \E s \in [1 .. n -> Conns] : Linked(clientList, n, s)
      BY <1>3, <3>2
    <3>4. PICK s \in [1 .. n -> Conns] : Linked(clientList, n, s)
      BY <3>3
    <3>5. /\ x \notin readset /\ clientList.tail # x
          /\ clientList.next[x] = Null /\ clientList.prev[x] = Null
      BY <1>3, <3>1, <3>2
    <3>6. \E m \in Nat : \E t \in [1 .. m -> Conns] :
           /\ IsPath(L!AddNode(clientList, x), m, t)
           /\ \A i \in 1 .. m : t[i] = x \/ \E j \in 1 .. n : t[i] = s[j]
           /\ m = 0 \/ L!AddNode(clientList, x).tail # Null
           /\ \A i \in 1 .. m : L!AddNode(clientList, x).tail = t[i] => i = m
      <4>1. \A i \in 1 .. n : s[i] # x
        BY <3>4, <3>5 DEF Linked
      <4> QED BY <1>1, <3>1, <3>4, <3>5, <4>1, PathAdd DEF Linked
    <3>7. \E m \in Nat : \E t \in [1 .. m -> Conns] : Linked(clientList, m, t)'
      <4>1. PICK m \in Nat : \E t \in [1 .. m -> Conns] :
           /\ IsPath(clientList', m, t)
           /\ \A i \in 1 .. m : t[i] = x \/ \E j \in 1 .. n : t[i] = s[j]
           /\ m = 0 \/ clientList'.tail # Null
           /\ \A i \in 1 .. m : clientList'.tail = t[i] => i = m
        BY <3>2, <3>6
      <4>2. PICK t \in [1 .. m -> Conns] :
           /\ IsPath(clientList', m, t)
           /\ \A i \in 1 .. m : t[i] = x \/ \E j \in 1 .. n : t[i] = s[j]
           /\ m = 0 \/ clientList'.tail # Null
           /\ \A i \in 1 .. m : clientList'.tail = t[i] => i = m
        BY <4>1
      <4>3. \A i \in 1 .. m : t[i] \in readset'
        BY <3>2, <3>4, <4>2 DEF Linked
      <4>4. tmpNode' # Null => \E i \in 1 .. m : tmpNode' = t[i]
        BY <3>2, <4>2 DEF IsPath
      <4> QED BY <4>2, <4>3, <4>4 DEF Linked
    <3>8. AllFresh'
      <4> SUFFICES ASSUME NEW y \in Conns, Fresh(y)'
                   PROVE  /\ y \notin readset' /\ clientList'.tail # y
                          /\ clientList'.next[y] = Null /\ clientList'.prev[y] = Null
        OBVIOUS
      <4>1. /\ y # x /\ y \notin readset /\ clientList.tail # y
            /\ clientList.next[y] = Null /\ clientList.prev[y] = Null
        BY <1>1, <1>3, <3>1, <3>2
      <4>2. /\ clientList'.tail = x
            /\ clientList'.next[y] = clientList.next[y] /\ clientList'.prev[y] = clientList.prev[y]
        BY <1>1, <3>2, <4>1 DEF L!AddNode, L!ListType
      <4> QED BY <3>2, <4>1, <4>2
    <3> QED BY <3>7, <3>8 DEF ListInv
  <2> QED BY <2>1, <2>2
<1>6. CASE SkipClient \/ ReadHeader \/ ReadPayload \/ LockGraph
  <2>1. Loop /\ UNCHANGED <<clientList, readset>> /\ (tmpNode' = tmpNode \/ (tmpNode # Null /\ Advance))
    BY <1>1, <1>6 DEF SkipClient, ReadHeader, ReadPayload, LockGraph, Loop
  <2> QED BY <1>4, <2>1
<1>7. CASE InitGraph \/ AddVertices \/ AddNeighbor \/ AddFurtherNeighbor
  <2>1. Loop /\ serving # "none" /\ UNCHANGED <<clientList, readset>> /\ (tmpNode' = tmpNode \/ Advance)
    BY <1>7 DEF InitGraph, AddVertices, AddNeighbor, AddFurtherNeighbor, Reply, Loop
  <2>2. tmpNode # Null
    BY <1>1, <2>1 DEF Serving
  <2> QED BY <1>4, <2>1, <2>2
<1>8. CASE CloseClient
  <2>1. CASE ~up'
    BY <2>1 DEF ListInv
  <2>2. CASE up'
    <3> DEFINE x == tmpNode
    <3>1. /\ x \in Conns /\ x # Null /\ readset' = readset \ {x} /\ Loop
          /\ clientList' = L!RemoveNode(clientList, x) /\ Advance
      BY <1>1, <1>8, <2>2 DEF CloseClient, Loop
    <3>2. PICK n \in Nat : \E s \in [1 .. n -> Conns] : Linked(clientList, n, s)
      BY <1>3, <3>1
    <3>3. PICK s \in [1 .. n -> Conns] : Linked(clientList, n, s)
      BY <3>2
    <3>4. PICK k \in 1 .. n : x = s[k]
      BY <3>1, <3>3 DEF Linked
    <3>5. Without(L!RemoveNode(clientList, s[k]), n, s, k)
      <4>1. /\ IsPath(clientList, n, s) /\ (n = 0 \/ clientList.tail # Null)
            /\ \A i \in 1 .. n : clientList.tail = s[i] => i = n
        BY <3>3 DEF Linked
      <4>2. clientList \in L!ListType
        BY <1>1
      <4> QED BY <4>1, <4>2, PathRemove
    <3>6. PICK m \in Nat : \E t \in [1 .. m -> Conns] :
           /\ IsPath(clientList', m, t)
           /\ \A i \in 1 .. m : \E j \in 1 .. n : t[i] = s[j] /\ j # k
           /\ \A j \in 1 .. n : j # k => \E i \in 1 .. m : t[i] = s[j]
           /\ m = 0 \/ clientList'.tail # Null
           /\ \A i \in 1 .. m : clientList'.tail = t[i] => i = m
      BY <3>1, <3>4, <3>5 DEF Without
    <3>7. PICK t \in [1 .. m -> Conns] :
           /\ IsPath(clientList', m, t)
           /\ \A i \in 1 .. m : \E j \in 1 .. n : t[i] = s[j] /\ j # k
           /\ \A j \in 1 .. n : j # k => \E i \in 1 .. m : t[i] = s[j]
           /\ m = 0 \/ clientList'.tail # Null
           /\ \A i \in 1 .. m : clientList'.tail = t[i] => i = m
      BY <3>6
    <3>8. \A i \in 1 .. m : t[i] \in readset'
      BY <3>1, <3>3, <3>4, <3>7 DEF Linked, IsPath
    <3>9. /\ clientList.next[x] = IF k = n THEN Null ELSE s[k + 1]
          /\ clientList.prev[x] = IF k = 1 THEN Null ELSE s[k - 1]
      BY <3>3, <3>4 DEF Linked, IsPath
    <3>10. tmpNode' # Null => \E i \in 1 .. m : tmpNode' = t[i]
      <4>1. tmpNode' = IF k = n THEN Null ELSE s[k + 1]
        BY <3>1, <3>9 DEF Advance
      <4>2. k # n => k + 1 \in 1 .. n /\ k + 1 # k
        OBVIOUS
      <4> QED BY <3>7, <4>1, <4>2
    <3>11. Linked(clientList, m, t)'
      BY <3>7, <3>8, <3>10 DEF Linked
    <3>12. AllFresh'
      <4> SUFFICES ASSUME NEW y \in Conns, Fresh(y)'
                   PROVE  /\ y \notin readset' /\ clientList'.tail # y
                          /\ clientList'.next[y] = Null /\ clientList'.prev[y] = Null
        OBVIOUS
      <4>1. /\ y \notin readset /\ clientList.tail # y
            /\ clientList.next[y] = Null /\ clientList.prev[y] = Null
        BY <1>1, <1>3, <3>1
      <4>2. \A i \in 1 .. n : s[i] # y
        BY <3>3, <4>1 DEF Linked
      <4>3. clientList.next[x] # y /\ clientList.prev[x] # y
        <5>1. k # n => k + 1 \in 1 .. n
          OBVIOUS
        <5>2. k # 1 => k - 1 \in 1 .. n
          OBVIOUS
        <5> QED BY <1>1, <3>9, <4>2, <5>1, <5>2
      <4>4. /\ clientList'.tail \in {clientList.tail, Null}
            /\ clientList'.next[y] = clientList.next[y] /\ clientList'.prev[y] = clientList.prev[y]
        BY <1>1, <3>1, <4>3 DEF L!RemoveNode, L!ListType
      <4> QED BY <1>1, <3>1, <4>1, <4>4
    <3> QED BY <3>11, <3>12 DEF ListInv
  <2> QED BY <2>1, <2>2
<1> QED BY <1>2, <1>5, <1>6, <1>7, <1>8 DEF Next, Loop
-----------------------------------------------------------------------------
(* The invariant holds at first, and every step preserves it.            *)
LEMMA IInvInit ==
  ASSUME Init
  PROVE  IInv
<1> USE DEF Init
<1>1. /\ Null \notin Conns /\ Null \notin Clients /\ \A c \in Clients : Inserts[c] \in Nat
      /\ 0 \in Vertices \cup {0}
      /\ \A x \in Conns : x[2] \in Nat
  BY Connections
<1>2. TypeOK
  <2>1. /\ clientList \in L!ListType /\ graph \in G!GraphType
    BY DEF L!ListType, L!EmptyList, L!NoPointers, G!GraphType, G!NewGraph
  <2>2. /\ inbox \in [Conns -> {<<>>, <<"payload">>, <<"header", "payload">>}]
        /\ header = {x \in Conns : inbox[x] = <<"payload">>}
    OBVIOUS
  <2>3. /\ reply \in [Conns -> {"none", "success"}]
        /\ \A x \in Conns : reply[x] # "none" => socket[x] = "sent"
        /\ v1 \in [Conns -> Vertices \cup {0}]
        /\ socket \in [Conns -> {"none", "connected", "sent", "closed"}]
        /\ \A c \in Clients : at[c] \in 0 .. Inserts[c] + 1
    BY <1>1
  <2>4. /\ up \in BOOLEAN /\ segments \in BOOLEAN
        /\ rdyset \subseteq readset /\ header \subseteq readset /\ readset \subseteq Conns
        /\ tmpNode \in Conns \cup {Null}
        /\ serving \in {"none", "init", "wait", "insert"}
        /\ success \subseteq {x \in Conns : socket[x] = "closed"}
        /\ copying \subseteq Clients /\ dead \subseteq Clients
    OBVIOUS
  <2>5. /\ lock \in Nat /\ posts \in Nat /\ inside \subseteq Clients \cup {TheServer}
        /\ inside \ {TheServer} \subseteq copying \cup dead
    OBVIOUS
  <2>6. backlog \in Seq(Conns \ readset)
    OBVIOUS
  <2> QED BY ONLY <2>1, <2>2, <2>3, <2>4, <2>5, <2>6 DEF TypeOK
<1>3. Accepting /\ Serving
  <2>1. DOMAIN backlog = {}
    OBVIOUS
  <2> QED BY <1>1, <2>1 DEF Accepting, Serving
<1>4. Semaphore
  BY DEF Semaphore, TheServer
<1>5. Sequential
  <2>1. \A x \in Conns : reply[x] = "none" /\ socket[x] = "none"
    OBVIOUS
  <2>2. \A c \in Clients : 0 .. at[c] - 1 = {}
    OBVIOUS
  <2> QED BY <2>1, <2>2 DEF Sequential
<1>6. AllKept
  BY DEF AllKept
<1>7. ListInv
  <2> DEFINE s == [i \in 1 .. 0 |-> Null]
  <2>1. /\ clientList.head = Null /\ clientList.tail = Null
        /\ \A x \in Conns : clientList.next[x] = Null /\ clientList.prev[x] = Null
    BY DEF L!EmptyList, L!NoPointers
  <2>2. s \in [1 .. 0 -> Conns] /\ 1 .. 0 = {}
    OBVIOUS
  <2> HIDE DEF s
  <2>3. Linked(clientList, 0, s)
    BY <2>1, <2>2 DEF Linked, IsPath
  <2>4. \E n \in Nat : \E t \in [1 .. n -> Conns] : Linked(clientList, n, t)
    BY <2>2, <2>3
  <2> QED BY <1>1, <2>1, <2>4 DEF ListInv
<1> QED BY <1>2, <1>3, <1>4, <1>5, <1>6, <1>7 DEF IInv

LEMMA IInvStep ==
  ASSUME IInv, [Next]_vars
  PROVE  IInv'
<1>1. CASE Next
  <2> USE <1>1 DEF IInv
  <2>1. TypeOK'
    BY ClientsTyped, ServerTyped DEF Next
  <2>2. Accepting' /\ Serving'
    BY AcceptingStep, ServingStep
  <2>3. Semaphore'
    BY SemaphoreStep
  <2>4. Sequential' /\ AllKept'
    BY SequentialStep, KeptStep
  <2>5. ListInv'
    BY ListStep
  <2> QED BY <2>1, <2>2, <2>3, <2>4, <2>5
<1>2. CASE UNCHANGED vars
  <2> USE <1>2 DEF IInv, vars, serverVars, graphVars, lockVars, netVars, clientVars
  <2>1. TypeOK' /\ Accepting' /\ Serving' /\ Semaphore'
    BY DEF TypeOK, Accepting, Serving, Semaphore
  <2>2. Sequential'
    BY DEF Sequential, Served
  <2>3. AllKept'
    BY DEF AllKept, Kept, OtherInit
  <2>4. ListInv'
    BY DEF ListInv, Linked, Fresh
  <2> QED BY <2>1, <2>2, <2>3, <2>4
<1> QED BY <1>1, <1>2

(* The inductive invariant: what the server's loop, its list, the          *)
(* semaphore and the requests of every client are at every step.           *)
THEOREM Inductive == Spec => []IInv
<1>1. Init => IInv
  BY IInvInit
<1>2. IInv /\ [Next]_vars => IInv'
  BY IInvStep
<1> QED BY <1>1, <1>2, PTL DEF Spec

(* Two are never between sem_wait and sem_post, as long as graph_init has  *)
(* not posted the semaphore for somebody inside (OneInside).               *)
THEOREM AlwaysOneInside == Spec => []OneInside
<1>1. IInv => OneInside
  <2> SUFFICES ASSUME IInv, posts = 0 PROVE Cardinality(inside) <= 1
    BY DEF OneInside
  <2>1. \A p, q \in inside : p = q
    BY DEF IInv, Semaphore
  <2>2. CASE inside = {}
    BY <2>2, FS_EmptySet
  <2>3. CASE inside # {}
    <3>1. PICK p : inside = {p}
      BY <2>1, <2>3
    <3>2. Cardinality({p}) = 1
      BY FS_Singleton
    <3> QED BY <3>1, <3>2
  <2> QED BY <2>2, <2>3
<1> QED BY <1>1, Inductive, PTL

(* While no other client initialises the graph, a vertex whose insertion   *)
(* the client was told of stays in it, and a neighbour at its vertex, if   *)
(* that was there first and until an array grows (InsertedKept).           *)
THEOREM AlwaysInsertedKept == Spec => []InsertedKept
<1>1. IInv => InsertedKept
  BY DEF IInv, AllKept, InsertedKept, Kept, TypeOK
<1> QED BY <1>1, Inductive, PTL
-----------------------------------------------------------------------------
(* A set of natural numbers has a smallest member.                       *)
LEMMA Smallest ==
  ASSUME NEW S, S \subseteq Nat, S # {}
  PROVE  \E n \in S : \A m \in S : n <= m
<1> DEFINE R == OpToRel(<, Nat)
<1>1. IsWellFoundedOn(R, Nat)
  BY NatLessThanWellFounded
<1> HIDE DEF R
<1>2. PICK n \in S : \A m \in S : ~(<<m, n>> \in R)
  BY <1>1, WFMin
<1>3. \A m \in S : ~(m < n)
  BY <1>2 DEF R, OpToRel
<1> QED BY <1>3

(* There are finitely many connections: a walk of Elements is long enough. *)
LEMMA FiniteConns == IsFiniteSet(Conns)
<1> DEFINE Of == [c \in Clients |-> {c} \X (0 .. Inserts[c])]
           Parts == {Of[c] : c \in Clients}
<1>1. Conns = UNION Parts
  BY DEF Conns
<1>2. Of \in Surjection(Clients, Parts)
  BY DEF Surjection
<1>3. \A T \in Parts : IsFiniteSet(T)
  <2> SUFFICES ASSUME NEW c \in Clients PROVE IsFiniteSet({c} \X (0 .. Inserts[c]))
    OBVIOUS
  <2>1. IsFiniteSet({c})
    BY FS_Singleton
  <2>2. IsFiniteSet(0 .. Inserts[c])
    <3>1. 0 \in Int /\ Inserts[c] \in Int
      BY Connections
    <3> QED BY <3>1, FS_Interval
  <2> QED BY <2>1, <2>2, FS_Product
<1> HIDE DEF Of, Parts
<1>4. IsFiniteSet(Clients)
  BY ServerAssumption
<1>5. IsFiniteSet(Parts)
  BY <1>2, <1>4, FS_Surjection
<1> QED BY <1>1, <1>3, <1>5, FS_UNION

LEMMA SameCardinality == L!Cardinality(Conns) = Cardinality(Conns)
BY DEF L!Cardinality, Cardinality

(* A walk from the head finds the nodes of the list.                       *)
LEMMA WalkFinds ==
  ASSUME NEW l \in L!ListType, NEW n \in Nat, NEW s \in [1 .. n -> Conns], IsPath(l, n, s)
  PROVE  L!Elements(l) = {s[i] : i \in 1 .. n}
<1> DEFINE C == L!Cardinality(Conns)
           Walk(f) == f = [i \in 0 .. C |-> IF i = 0 THEN l.head
                                            ELSE IF f[i - 1] = Null THEN Null ELSE l.next[f[i - 1]]]
           g == [i \in 0 .. C |-> IF i < n THEN s[i + 1] ELSE Null]
<1>1. Null \notin Conns /\ \A i \in 1 .. n : s[i] \in Conns
  BY Connections
<1>2. C \in Nat /\ n <= C
  <2>1. IsFiniteSet(Conns) /\ C = Cardinality(Conns)
    BY FiniteConns, SameCardinality
  <2>2. s \in Injection(1 .. n, Conns)
    BY DEF IsPath, Injection, IsInjective
  <2>3. Cardinality(1 .. n) = n
    BY FS_Interval
  <2> QED BY <2>1, <2>2, <2>3, FS_Injection, FS_CardinalityType
<1> HIDE DEF C
<1>3. Walk(g)
  <2> SUFFICES ASSUME NEW i \in 0 .. C
               PROVE  g[i] = IF i = 0 THEN l.head
                             ELSE IF g[i - 1] = Null THEN Null ELSE l.next[g[i - 1]]
    OBVIOUS
  <2>1. CASE i = 0
    BY <1>1, <1>2, <2>1 DEF IsPath
  <2>2. CASE i # 0 /\ i <= n
    <3>1. i \in 1 .. n /\ i - 1 \in 0 .. C /\ g[i - 1] = s[i] /\ s[i] # Null
      BY <1>1, <1>2, <2>2
    <3>2. l.next[s[i]] = IF i = n THEN Null ELSE s[i + 1]
      BY <3>1 DEF IsPath
    <3> QED BY <2>2, <3>1, <3>2
  <2>3. CASE i > n
    <3>1. i - 1 \in 0 .. C /\ g[i - 1] = Null /\ i # 0
      BY <1>1, <1>2, <2>3
    <3> QED BY <2>3, <3>1
  <2> QED BY <2>1, <2>2, <2>3
<1>4. ASSUME NEW f, Walk(f) PROVE f = g
  <2> DEFINE Bad == {i \in 0 .. C : f[i] # g[i]}
  <2>1. /\ f = [i \in 0 .. C |-> f[i]]
        /\ \A i \in 0 .. C : f[i] = IF i = 0 THEN l.head
                                   ELSE IF f[i - 1] = Null THEN Null ELSE l.next[f[i - 1]]
    BY <1>4
  <2>2. \A i \in 0 .. C : g[i] = IF i = 0 THEN l.head
                                 ELSE IF g[i - 1] = Null THEN Null ELSE l.next[g[i - 1]]
    BY <1>3
  <2>3. g = [i \in 0 .. C |-> g[i]]
    OBVIOUS
  <2> HIDE DEF g
  <2>4. CASE Bad # {}
    <3>1. Bad \subseteq Nat
      BY <1>2
    <3>2. PICK b \in Bad : \A m \in Bad : b <= m
      BY <2>4, <3>1, Smallest
    <3>3. b # 0
      BY <2>1, <2>2, <3>2
    <3>4. b - 1 \in 0 .. C /\ f[b - 1] = g[b - 1]
      BY <1>2, <3>2, <3>3
    <3> QED BY <2>1, <2>2, <3>2, <3>3, <3>4
  <2>5. CASE Bad = {}
    <3>1. \A i \in 0 .. C : f[i] = g[i]
      BY <2>5
    <3> QED BY <2>1, <2>3, <3>1
  <2> QED BY <2>4, <2>5
<1>5. (CHOOSE f : Walk(f)) = g
  BY <1>3, <1>4
<1>6. L!Elements(l) = {g[i] : i \in 0 .. C} \ {Null}
  <2>1. L!Elements(l) = LET f == CHOOSE f : f = [i \in 0 .. L!Cardinality(Conns) |->
                                  IF i = 0 THEN l.head
                                  ELSE IF f[i - 1] = Null THEN Null ELSE l.next[f[i - 1]]]
                        IN  {f[i] : i \in 0 .. L!Cardinality(Conns)} \ {Null}
    BY DEF L!Elements
  <2>2. (CHOOSE f : Walk(f)) = CHOOSE f : f = [i \in 0 .. L!Cardinality(Conns) |->
                                  IF i = 0 THEN l.head
                                  ELSE IF f[i - 1] = Null THEN Null ELSE l.next[f[i - 1]]]
    BY DEF C
  <2> HIDE DEF g, Walk
  <2> QED BY <1>5, <2>1, <2>2 DEF C
<1>7. \A i \in 0 .. C : g[i] # Null => i + 1 \in 1 .. n /\ g[i] = s[i + 1]
  BY <1>1, <1>2
<1>8. \A i \in 1 .. n : i - 1 \in 0 .. C /\ g[i - 1] = s[i] /\ s[i] # Null
  BY <1>1, <1>2
<1> HIDE DEF g
<1> QED BY <1>6, <1>7, <1>8

(* A walk over the server's list finds open connections only, linked back  *)
(* the way they are linked forward, and the one the loop stands on         *)
(* (ListSound).                                                            *)
THEOREM AlwaysListSound == Spec => []ListSound
<1>1. IInv => ListSound
  <2> SUFFICES ASSUME IInv, up
               PROVE  LET E == L!Elements(clientList)
                      IN  /\ E \subseteq readset
                          /\ tmpNode # Null => tmpNode \in E
                          /\ \A x \in E : LET p == clientList.prev[x]
                                          IN  IF x = clientList.head THEN p = Null
                                              ELSE p \in E /\ clientList.next[p] = x
    BY DEF ListSound, IInv
  <2>1. clientList \in L!ListType /\ Null \notin Conns
    BY Connections DEF IInv, TypeOK
  <2>2. PICK n \in Nat : \E s \in [1 .. n -> Conns] : Linked(clientList, n, s)
    BY DEF IInv, ListInv
  <2>3. PICK s \in [1 .. n -> Conns] : Linked(clientList, n, s)
    BY <2>2
  <2> DEFINE E == L!Elements(clientList)
  <2>4. E = {s[i] : i \in 1 .. n}
    BY <2>1, <2>3, WalkFinds DEF Linked
  <2> HIDE DEF E
  <2>5. E \subseteq readset /\ (tmpNode # Null => tmpNode \in E)
    BY <2>3, <2>4 DEF Linked
  <2>6. ASSUME NEW i \in 1 .. n
        PROVE  IF s[i] = clientList.head THEN clientList.prev[s[i]] = Null
               ELSE clientList.prev[s[i]] \in E /\ clientList.next[clientList.prev[s[i]]] = s[i]
    <3>1. CASE i = 1
      BY <2>3, <3>1 DEF Linked, IsPath
    <3>2. CASE i # 1
      <4>1. i - 1 \in 1 .. n /\ 1 \in 1 .. n /\ i - 1 # n /\ n # 0
        BY <3>2
      <4>2. /\ clientList.prev[s[i]] = s[i - 1] /\ clientList.next[s[i - 1]] = s[i - 1 + 1]
            /\ clientList.head = s[1] /\ s[1] # s[i]
        BY <2>3, <3>2, <4>1 DEF Linked, IsPath
      <4> QED BY <2>4, <4>1, <4>2
    <3> QED BY <3>1, <3>2
  <2> QED BY <2>4, <2>5, <2>6 DEF E
<1> QED BY <1>1, Inductive, PTL
===============================================================================
