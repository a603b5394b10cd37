-------------------------------- MODULE Server --------------------------------
(***************************************************************************)
(* The graph server (core/server.c), its list of clients and the processes *)
(* that send it requests (coreShared/message.c).  Every request has a      *)
(* connection of its own: a client connects, sends a header and a payload, *)
(* waits for the reply and closes.  A client's first request initialises   *)
(* the graph, after which it copies the graph once; the others insert a    *)
(* vertex, or a neighbour of one (clientLibrary/clientGraph.c).            *)
(*                                                                         *)
(* Insertions and copies hold the named semaphore of the graph.  It        *)
(* outlives all of them; graph_init does not wait for it.                  *)
(*                                                                         *)
(* Header and payload arrive whole: the server reads them by their sizes,  *)
(* and a client on the same host (127.0.0.1) sends the few bytes at once.  *)
(* For the same reason a client's socket is writable whenever the server   *)
(* looks, so that a reply is sent in the visit that made it.               *)
(***************************************************************************)
EXTENDS Integers, Sequences, FiniteSets

CONSTANTS Clients,    \* client processes
          Inserts,    \* bound: requests of each client after the first
          Vertices,   \* the indices that the programs use for their vertices
          Slots,      \* slots of the arrays of a new graph, and their increment
          Mortal,     \* the clients that may die, at any time
          KeepsNext,  \* does free() leave the pointer next of a node readable?
          Null

Conns == UNION {{c} \X (0 .. Inserts[c]) : c \in Clients}

ASSUME ServerAssumption ==
  /\ IsFiniteSet(Clients)
  /\ Inserts \in [Clients -> Nat] /\ Slots \in Nat \ {0}
  /\ Vertices \subseteq Nat \ {0}
  /\ Mortal \subseteq Clients /\ KeepsNext \in BOOLEAN
  /\ Null \notin Clients \cup Conns

IsInit(x) == x[2] = 0

TheServer == Null  \* in "inside"

VARIABLES
  up,         \* is the server running?
  clientList, \* clientList; the node of a client is named by its connection
  readset,    \* readset and writeset, which always agree
  rdyset,     \* the result of select
  tmpNode,    \* where the loop over the clients is; Null: in select
  header,     \* the clients with a messageHeader
  serving,    \* where the server is in a request: "none", "init", "wait", "insert"
  graph,      \* mainGraph
  segments,   \* can the segments of the graph be opened?
  lock,       \* the value of the semaphore
  posts,      \* how often graph_init posted it for somebody else
  inside,     \* who has waited for it and not yet posted it
  backlog,    \* connections not yet accepted
  inbox,      \* what a connection has for the server to read
  reply,      \* what it has for the client to read
  v1,         \* the vertex whose neighbour a request inserts; 0: it inserts a vertex
  socket,     \* a client's end: "none", "connected", "sent", "closed"
  success,    \* the requests for which sendMessage returned OP_SUCCEESS
  at,         \* the request a client is at; Inserts + 1: no further one
  copying,    \* the clients in graph_getSnapShot
  dead        \* the clients that died

serverVars == <<up, clientList, readset, rdyset, tmpNode, header, serving>>
graphVars  == <<graph, segments>>
lockVars   == <<lock, posts, inside>>
netVars    == <<backlog, inbox, reply>>
clientVars == <<v1, socket, success, at, copying, dead>>
vars == <<serverVars, graphVars, lockVars, netVars, clientVars>>

L == INSTANCE LinkedList WITH Nodes <- Conns
G == INSTANCE Graph WITH Requests <- Conns

TypeOK ==
  /\ up \in BOOLEAN /\ segments \in BOOLEAN
  /\ clientList \in L!ListType
  /\ rdyset \subseteq readset /\ header \subseteq readset /\ readset \subseteq Conns
  /\ tmpNode \in Conns \cup {Null}
  /\ serving \in {"none", "init", "wait", "insert"}
  /\ graph \in G!GraphType
  /\ lock \in Nat /\ posts \in Nat /\ inside \subseteq Clients \cup {TheServer}
  /\ backlog \in Seq(Conns \ readset)
  /\ inbox \in [Conns -> {<<>>, <<"payload">>, <<"header", "payload">>}]
  /\ header = {x \in Conns : inbox[x] = <<"payload">>}
  /\ reply \in [Conns -> {"none", "success"}]
  /\ \A x \in Conns : reply[x] # "none" => socket[x] = "sent"
  /\ v1 \in [Conns -> Vertices \cup {0}]
  /\ socket \in [Conns -> {"none", "connected", "sent", "closed"}]
  /\ success \subseteq {x \in Conns : socket[x] = "closed"}
  /\ \A c \in Clients : at[c] \in 0 .. Inserts[c] + 1
  /\ copying \subseteq Clients /\ dead \subseteq Clients
  /\ inside \ {TheServer} \subseteq copying \cup dead

(* The semaphore may be that of an earlier run, in which a process died    *)
(* that had waited for it.                                                 *)
Init ==
  /\ up = TRUE
  /\ clientList = L!EmptyList
  /\ readset = {} /\ rdyset = {} /\ tmpNode = Null /\ header = {}
  /\ serving = "none"
  /\ graph = G!NewGraph /\ segments = FALSE
  /\ lock \in {0, 1} /\ posts = 0 /\ inside = {}
  /\ backlog = <<>>
  /\ inbox = [x \in Conns |-> <<>>] /\ reply = [x \in Conns |-> "none"]
  /\ v1 = [x \in Conns |-> 0]
  /\ socket = [x \in Conns |-> "none"] /\ success = {}
  /\ at = [c \in Clients |-> 0]
  /\ copying = {} /\ dead = {}

-----------------------------------------------------------------------------
(* The clients.                                                            *)
Current(c) == <<c, at[c]>>

Open(x) == x \in Conns /\ socket[x] \in {"connected", "sent"}

Connect(c) ==
  LET x == Current(c)
  IN  /\ up
      /\ x \in Conns /\ socket[x] = "none"
      /\ c \notin copying \cup dead
      /\ socket' = [socket EXCEPT ![x] = "connected"]
      /\ backlog' = Append(backlog, x)
      /\ UNCHANGED <<serverVars, graphVars, lockVars, inbox, reply>>
      /\ UNCHANGED <<v1, success, at, copying, dead>>

(* sendMessage: the one call of send.                                      *)
Send(c) ==
  LET x == Current(c)
  IN  /\ up
      /\ c \notin dead
      /\ x \in Conns /\ socket[x] = "connected"
      /\ socket' = [socket EXCEPT ![x] = "sent"]
      /\ inbox' = [inbox EXCEPT ![x] = <<"header", "payload">>]
      /\ \E v \in {0} \cup (IF IsInit(x) THEN {} ELSE Vertices) : v1' = [v1 EXCEPT ![x] = v]
      /\ UNCHANGED <<serverVars, graphVars, lockVars, backlog, reply>>
      /\ UNCHANGED <<success, at, copying, dead>>

(* sendMessage: the reply, and close.  After the first request the client  *)
(* goes on to graph_getSnapShot.                                           *)
ReceiveReply(c) ==
  LET x == Current(c)
  IN  /\ x \in Conns /\ reply[x] # "none"
      /\ reply' = [reply EXCEPT ![x] = "none"]
      /\ socket' = [socket EXCEPT ![x] = "closed"]
      /\ at' = [at EXCEPT ![c] = @ + 1]
      /\ success' = success \cup {x}
      /\ copying' = IF IsInit(x) THEN copying \cup {c} ELSE copying
      /\ UNCHANGED <<serverVars, graphVars, lockVars, backlog, inbox, v1, dead>>

(* The server is gone: nothing is received, and sendMessage returns        *)
(* OP_FAILED.  The client makes no further request.                        *)
ReceiveNothing(c) ==
  LET x == Current(c)
  IN  /\ ~up
      /\ Open(x) /\ reply[x] = "none"
      /\ socket' = [socket EXCEPT ![x] = "closed"]
      /\ at' = [at EXCEPT ![c] = Inserts[c] + 1]
      /\ UNCHANGED <<serverVars, graphVars, lockVars, netVars, v1, success, copying, dead>>

(* graph_getSnapShot: sem_wait, both segments are mapped, copied and       *)
(* closed, sem_post.  Without a segment the process dies of a NULL header. *)
Wait(p) == lock > 0 /\ lock' = lock - 1 /\ inside' = inside \cup {p} /\ UNCHANGED posts
Post(p) == p \in inside /\ lock' = lock + 1 /\ inside' = inside \ {p} /\ UNCHANGED posts

WaitForGraph(c) ==
  /\ c \in copying \ inside
  /\ Wait(c)
  /\ UNCHANGED <<serverVars, graphVars, netVars, clientVars>>

CopyGraph(c) ==
  /\ c \in copying /\ segments
  /\ Post(c)
  /\ copying' = copying \ {c}
  /\ UNCHANGED <<serverVars, graphVars, netVars, v1, socket, success, at, dead>>

MapNothing(c) ==
  /\ c \in copying \cap inside /\ ~segments
  /\ copying' = copying \ {c} /\ dead' = dead \cup {c}
  /\ UNCHANGED <<serverVars, graphVars, lockVars, netVars, v1, socket, success, at>>

(* The process dies, and its socket is closed for it.                      *)
Die(c) ==
  LET x == Current(c)
  IN  /\ c \in Mortal
      /\ Open(x) \/ c \in copying
      /\ IF Open(x) THEN /\ socket' = [socket EXCEPT ![x] = "closed"]
                         /\ reply' = [reply EXCEPT ![x] = "none"]
         ELSE UNCHANGED <<socket, reply>>
      /\ at' = [at EXCEPT ![c] = Inserts[c] + 1]
      /\ copying' = copying \ {c} /\ dead' = dead \cup {c}
      /\ UNCHANGED <<serverVars, graphVars, lockVars, backlog, inbox, v1, success>>

-----------------------------------------------------------------------------
(* The server.                                                             *)

(* There is something to read, or the end of the connection.               *)
Readable(x) == inbox[x] # <<>> \/ socket[x] = "closed"

(* One round of the loop: select, and accept when a client is waiting for  *)
(* it.  A client's socket is writable, so that select returns even when    *)
(* there is nothing to read; such a round changes nothing and is left out. *)
Select ==
  /\ up /\ tmpNode = Null
  /\ rdyset' = {x \in readset : Readable(x)}
  /\ rdyset' # {} \/ backlog # <<>>
  /\ IF backlog # <<>>
     THEN /\ readset' = readset \cup {Head(backlog)}
          /\ clientList' = L!AddNode(clientList, Head(backlog))
          /\ backlog' = Tail(backlog)
     ELSE UNCHANGED <<readset, clientList, backlog>>
  /\ tmpNode' = clientList'.head
  /\ UNCHANGED <<up, header, serving, graphVars, lockVars, inbox, reply, clientVars>>

Advance == tmpNode' = clientList.next[tmpNode]

SkipClient ==
  /\ up /\ tmpNode # Null
  /\ tmpNode \notin rdyset
  /\ Advance
  /\ UNCHANGED <<up, clientList, readset, rdyset, header, serving>>
  /\ UNCHANGED <<graphVars, lockVars, netVars, clientVars>>

ReadHeader ==
  /\ up /\ tmpNode \in rdyset /\ serving = "none"
  /\ inbox[tmpNode] # <<>>
  /\ tmpNode \notin header
  /\ header' = header \cup {tmpNode}
  /\ inbox' = [inbox EXCEPT ![tmpNode] = Tail(@)]
  /\ Advance
  /\ UNCHANGED <<up, clientList, readset, rdyset, serving>>
  /\ UNCHANGED <<graphVars, lockVars, backlog, reply, clientVars>>

(* demultiplexOperation: graph_init begins by removing the segments, and   *)
(* an insertion by waiting for the semaphore.                              *)
ReadPayload ==
  /\ up /\ tmpNode \in rdyset /\ serving = "none"
  /\ inbox[tmpNode] # <<>>
  /\ tmpNode \in header
  /\ header' = header \ {tmpNode}
  /\ inbox' = [inbox EXCEPT ![tmpNode] = Tail(@)]
  /\ IF IsInit(tmpNode) THEN serving' = "init" /\ segments' = FALSE
     ELSE serving' = "wait" /\ UNCHANGED segments
  /\ UNCHANGED <<up, clientList, readset, rdyset, tmpNode>>
  /\ UNCHANGED <<graph, lockVars, backlog, reply, clientVars>>

(* The request is answered, with OP_SUCCEESS: the other branches are those *)
(* of a malloc that failed.  A client that is gone reads no reply.         *)
Reply ==
  /\ serving' = "none"
  /\ reply' = IF socket[tmpNode] = "sent" THEN [reply EXCEPT ![tmpNode] = "success"] ELSE reply
  /\ Advance
  /\ UNCHANGED <<up, clientList, readset, rdyset, header, backlog, inbox, clientVars>>

(* graph_init, the rest: a semaphore at 0 is posted.                       *)
InitGraph ==
  /\ up /\ serving = "init"
  /\ segments' = TRUE /\ graph' = G!NewGraph
  /\ lock' = IF lock = 0 THEN 1 ELSE lock
  /\ posts' = IF lock = 0 /\ inside # {} THEN posts + 1 ELSE posts
  /\ UNCHANGED inside
  /\ Reply

(* Mutant of LockGraph: the server does not wait for the semaphore.        *)
LockNothing ==
  /\ up /\ serving = "wait"
  /\ serving' = "insert"
  /\ inside' = inside \cup {TheServer}
  /\ UNCHANGED <<lock, posts>>
  /\ UNCHANGED <<up, clientList, readset, rdyset, tmpNode, header>>
  /\ UNCHANGED <<graphVars, netVars, clientVars>>

LockGraph ==
  /\ up /\ serving = "wait"
  /\ serving' = "insert"
  /\ Wait(TheServer)
  /\ UNCHANGED <<up, clientList, readset, rdyset, tmpNode, header>>
  /\ UNCHANGED <<graphVars, netVars, clientVars>>

AddVertices ==
  /\ up /\ serving = "insert" /\ v1[tmpNode] = 0
  /\ graph' = G!AddVertex(graph, tmpNode)
  /\ Post(TheServer)
  /\ UNCHANGED segments
  /\ Reply

(* addNeighbor, of a vertex that has no list yet.                          *)
AddNeighbor ==
  /\ up /\ serving = "insert" /\ v1[tmpNode] # 0
  /\ v1[tmpNode] \notin graph.neighborsPtr
  /\ graph' = G!AddNeighbor(graph, v1[tmpNode], tmpNode)
  /\ Post(TheServer)
  /\ UNCHANGED segments
  /\ Reply

(* Of one that has a list: it is looked up at an index that is the address *)
(* of the C library's function "index".  There is no memory there, or no   *)
(* valid object, and the NULL for that is dereferenced: the server dies.   *)
AddFurtherNeighbor ==
  /\ up /\ serving = "insert" /\ v1[tmpNode] \in graph.neighborsPtr
  /\ up' = FALSE
  /\ UNCHANGED <<clientList, readset, rdyset, tmpNode, header, serving>>
  /\ UNCHANGED <<graphVars, lockVars, netVars, clientVars>>

(* The end of a connection: the node is freed, and then the loop reads its *)
(* pointer next.                                                           *)
CloseClient ==
  /\ up /\ tmpNode \in rdyset /\ serving = "none"
  /\ inbox[tmpNode] = <<>>
  /\ header' = header \ {tmpNode}
  /\ readset' = readset \ {tmpNode}
  /\ rdyset' = rdyset \ {tmpNode}
  /\ clientList' = L!RemoveNode(clientList, tmpNode)
  /\ \/ Advance /\ UNCHANGED up
     \/ ~KeepsNext /\ up' = FALSE /\ UNCHANGED tmpNode
  /\ UNCHANGED <<serving, graphVars, lockVars, netVars, clientVars>>

-----------------------------------------------------------------------------
Loop == \/ Select \/ SkipClient \/ ReadHeader \/ ReadPayload \/ CloseClient
        \/ InitGraph \/ LockGraph \/ AddVertices \/ AddNeighbor \/ AddFurtherNeighbor

Talk(c) == \/ Send(c) \/ ReceiveReply(c) \/ ReceiveNothing(c)
           \/ WaitForGraph(c) \/ CopyGraph(c) \/ MapNothing(c)

Next == Loop \/ \E c \in Clients : Connect(c) \/ Talk(c) \/ Die(c)

Spec == Init /\ [][Next]_vars

(* The server runs, and a client that is connected goes on with its call.  *)
(* A process waits for the semaphore no longer than others pass it, and    *)
(* each of the others passes it once.                                      *)
FairSpec == Spec /\ WF_vars(Loop) /\ \A c \in Clients : WF_vars(Talk(c))

-----------------------------------------------------------------------------
(* What a walk over the clients finds, on every round of the loop: open    *)
(* connections, linked back the way they are linked forward, and the loop  *)
(* stands on one of them.  No node that was freed is among them.  (That    *)
(* only they have headers, and replies, is in TypeOK.)                     *)
ListSound ==
  LET E == L!Elements(clientList)
  IN  /\ TypeOK
      /\ up =>
               /\ E \subseteq readset
               /\ tmpNode # Null => tmpNode \in E
               /\ \A n \in E :
                    LET p == clientList.prev[n]
                    IN  IF n = clientList.head THEN p = Null
                        ELSE p \in E /\ clientList.next[p] = n

(* A client in the server's list that has sent a request is answered, or   *)
(* learns that the server is gone, whatever other clients do: but not when *)
(* one of them died with the semaphore.                                    *)
ListedServed ==
  \A c \in Clients :
    LET Sent == Current(c) \in Conns /\ socket[Current(c)] = "sent"
    IN  (Sent /\ Current(c) \in L!Elements(clientList))
          ~> (~Sent \/ dead \cap inside # {})

(* Nobody copies the graph while the server inserts, and no two copy at a  *)
(* time, as long as graph_init never posted the semaphore for somebody who *)
(* had waited for it.                                                      *)
OneInside == posts = 0 => Cardinality(inside) <= 1

(* Has another client asked for an initialisation?                         *)
OtherInit(c) == \E d \in Clients \ {c} : socket[<<d, 0>>] \in {"sent", "closed"}

(* Vertices whose insertion was answered stay in the graph, and a neighbour*)
(* is found at the vertex it was given to, if that had been inserted, until*)
(* an array grows: nothing that clients and server do loses them, unless   *)
(* another client asks for an initialisation.                              *)
InsertedKept ==
  \A x \in success :
    \/ IsInit(x) \/ OtherInit(x[1])
    \/ v1[x] = 0 /\ \E i \in DOMAIN graph.vertices : graph.vertices[i] = x
    \/ /\ v1[x] # 0
       /\ \/ x \in G!Neighbors(graph, v1[x])
          \/ G!Grown(graph)
          \/ v1[x] \notin DOMAIN graph.vertices
          \/ graph.vertices[v1[x]][2] > x[2]
==============================================================================
