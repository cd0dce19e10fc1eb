--------------------------- MODULE WsClientProofs ---------------------------
(***************************************************************************)
(* Proofs about WsClient, for every number of writers, nodes and texts.    *)
(*                                                                         *)
(* Inv is inductive: one lemma for the steps that leave list and nodes     *)
(* alone, one for each of the four that do not, then one step per action.  *)
(***************************************************************************)
EXTENDS WsClient, DataProofs

LEMMA NullNotNode == NULL \notin Node /\ NULL \notin Writer /\ NULL # WsThread /\ NULL # Wsi
                     /\ WsThread \notin Writer /\ NULL \notin Msg
BY ConstantsAssumption DEF Writer, Msg

LEMMA InitInv == Init => Inv
<1> SUFFICES ASSUME Init PROVE Inv
  OBVIOUS
<1> USE DEF Init
<1>1. TypeOK
  <2>1. order \in Seq(Node) /\ cnt \in 0 .. MaxWait + 1
    BY ConstantsAssumption
  <2>2. /\ heap \subseteq Node /\ next \in [Node -> Node \cup {NULL}]
        /\ msg \in [Node -> Msg \cup {NULL}]
        /\ pc \in [Writer -> {"idle", "lock", "link", "unlock", "request"}]
        /\ msg_node_ptr \in [Writer -> Node \cup {NULL}]
    OBVIOUS
  <2> QED BY <2>1, <2>2 DEF TypeOK
<1>2. MutexInv /\ WriterInv /\ SenderInv /\ LinkInv /\ AirInv /\ NoLostWakeup
  BY NullNotNode, ConstantsAssumption DEF MutexInv, WriterInv, SenderInv, LinkInv, AirInv, NoLostWakeup
<1>3. ListIntact
  BY DEF ListIntact, Spells, IsInjective
<1>4. NodesAccounted
  BY DEF NodesAccounted, Listed, Pending, Sending, Range
<1> QED BY <1>1, <1>2, <1>3, <1>4 DEF Inv

\* A step that moves no node keeps the list and the accounts of the nodes.
LEMMA QuietStep ==
  ASSUME Inv, UNCHANGED <<heapVars, queueVars, msg_node_ptr, msg_node>>
  PROVE  ListIntact' /\ NodesAccounted'
<1>1. ListIntact'
  BY DEF Inv, ListIntact, queueVars, heapVars
<1>2. NodesAccounted'
  BY DEF Inv, NodesAccounted, Listed, Pending, Sending, queueVars, heapVars
<1> QED BY <1>1, <1>2

\* malloc returns a node that nobody owns.
LEMMA AllocStep == ASSUME Inv, NEW t \in Writer, Alloc(t) PROVE Inv'
<1> USE DEF Inv, heapVars, queueVars, wsVars, linkVars, mainVars
<1>1. PICK n \in Node \ heap, d \in Data :
        /\ heap' = heap \cup {n}
        /\ msg' = [msg EXCEPT ![n] = [priority |-> Priority(t), data |-> d]]
        /\ msg_node_ptr' = [msg_node_ptr EXCEPT ![t] = n]
  BY DEF Alloc
<1>2. /\ pc[t] = "idle" /\ pc' = [pc EXCEPT ![t] = "lock"] /\ main = "run"
      /\ UNCHANGED <<next, queueVars, write_mutex, wsVars, linkVars, mainVars>>
  BY DEF Alloc, WriterGoes
<1>3. msg_node_ptr[t] = NULL /\ n \notin Listed /\ n \notin Pending /\ n # NULL
  BY <1>1, <1>2, NullNotNode DEF WriterInv, NodesAccounted
<1>4. /\ msg'[n] \in Msg /\ msg'[n].priority = Priority(t)
      /\ \A m \in Node : m # n => msg'[m] = msg[m]
  <2> DEFINE text == [priority |-> Priority(t), data |-> d]
  <2>1. text \in Msg /\ text.priority = Priority(t)
    BY DEF Msg, Priority
  <2> HIDE DEF text
  <2>2. msg'[n] = text /\ \A m \in Node : m # n => msg'[m] = msg[m]
    BY <1>1 DEF TypeOK, text
  <2> QED BY <2>1, <2>2
<1>5. TypeOK'
  BY <1>1, <1>2, <1>4 DEF TypeOK
<1>6. MutexInv' /\ SenderInv' /\ AirInv' /\ NoLostWakeup'
  BY <1>1, <1>2 DEF MutexInv, SenderInv, AirInv, NoLostWakeup, TypeOK
<1>7. LinkInv'
  BY <1>1, <1>2 DEF LinkInv, TypeOK
<1>8. WriterInv'
  <2> SUFFICES ASSUME NEW s \in Writer
               PROVE  /\ msg_node_ptr'[s] # NULL <=> pc'[s] \in {"lock", "link"}
                      /\ msg_node_ptr'[s] # NULL =>
                           msg'[msg_node_ptr'[s]].priority = Priority(s)
    BY DEF WriterInv
  <2>1. CASE s = t
    BY <2>1, <1>1, <1>2, <1>3, <1>4 DEF TypeOK
  <2>2. CASE s # t
    <3>1. msg_node_ptr'[s] = msg_node_ptr[s] /\ pc'[s] = pc[s]
      BY <2>2, <1>1, <1>2 DEF TypeOK
    <3>2. msg_node_ptr[s] # NULL => msg_node_ptr[s] \in heap /\ msg_node_ptr[s] \in Node
      BY DEF NodesAccounted, Pending, TypeOK
    <3> QED BY <3>1, <3>2, <1>1, <1>4 DEF WriterInv
  <2> QED BY <2>1, <2>2
<1>9. ListIntact'
  BY <1>2 DEF ListIntact
<1>10. NodesAccounted'
  <2>1. Listed' = Listed /\ Sending' = Sending
    BY <1>2 DEF Listed, Sending
  <2>2. Pending' = Pending \cup {n}
    BY <1>1, <1>3 DEF Pending, TypeOK
  <2>3. \A r, s \in Writer :
          r # s /\ msg_node_ptr'[r] # NULL => msg_node_ptr'[r] # msg_node_ptr'[s]
    BY <1>1, <1>3 DEF NodesAccounted, Pending, TypeOK
  <2>4. \A m \in Node : msg'[m] # NULL <=> m \in heap'
    BY <1>1, <1>4, NullNotNode DEF NodesAccounted, TypeOK
  <2> QED BY <2>1, <2>2, <2>3, <2>4, <1>1, <1>3 DEF NodesAccounted
<1> QED BY <1>5, <1>6, <1>7, <1>8, <1>9, <1>10

\* Either branch of eb_ws_msgEnQ extends the list by the writer's node.
LEMMA LinkExtends ==
  ASSUME Inv, NEW t \in Writer, Link(t)
  PROVE  /\ ListIntact'
         /\ Listed' = Listed \cup {msg_node_ptr[t]}
         /\ order' \in Seq(Node) /\ order' # <<>>
         /\ next' \in [Node -> Node \cup {NULL}]
         /\ p_msg_q_head' \in Node \cup {NULL} /\ p_msg_q_tail' \in Node \cup {NULL}
         /\ msg_node_ptr[t] \in Node /\ msg_node_ptr[t] \notin Listed
<1> DEFINE n == msg_node_ptr[t]
<1>1. n \in Node /\ n \notin Listed
  BY NullNotNode DEF Link, WriterGoes, Inv, WriterInv, NodesAccounted, Pending, TypeOK
<1>2. /\ order \in Seq(Node)
      /\ Spells(order, p_msg_q_head, p_msg_q_tail, next, NULL)
      /\ next \in [Node -> Node \cup {NULL}]
      /\ p_msg_q_head \in Node \cup {NULL} /\ p_msg_q_tail \in Node \cup {NULL}
      /\ Range(order) \subseteq Node
  BY DEF Inv, TypeOK, ListIntact, Range
<1>3. CASE LinkAtHead(n)
  <2>1. next'[n] = p_msg_q_head /\ \A m \in Range(order) : next'[m] = next[m]
    BY <1>1, <1>2, <1>3 DEF LinkAtHead, Listed
  <2>2. /\ order' \in Seq(Node) /\ order' # <<>>
        /\ Range(order') = Range(order) \cup {n}
        /\ Spells(order', n, IF p_msg_q_head = NULL THEN n ELSE p_msg_q_tail, next', NULL)
    <3> HIDE DEF n
    <3>1. n \notin Range(order) /\ order' = <<n>> \o order
      BY <1>1, <1>3 DEF Listed, LinkAtHead
    <3>2. /\ <<n>> \o order \in Seq(Node) /\ <<n>> \o order # <<>>
          /\ Range(<<n>> \o order) = Range(order) \cup {n}
          /\ Spells(<<n>> \o order, n, IF p_msg_q_head = NULL THEN n ELSE p_msg_q_tail, next', NULL)
      BY <3>1, <1>1, <1>2, <2>1, NullNotNode, PushFront
    <3> QED BY <3>1, <3>2
  <2> QED BY <1>1, <1>2, <1>3, <2>2 DEF LinkAtHead, Listed, ListIntact
<1>4. CASE LinkAtTail(n)
  <2>1. /\ next'[n] = NULL
        /\ p_msg_q_tail # NULL => next'[p_msg_q_tail] = n
        /\ \A m \in Range(order) : m # p_msg_q_tail => next'[m] = next[m]
    <3>1. p_msg_q_tail # NULL => p_msg_q_tail \in Range(order)
      BY <1>2, NullNotNode, EmptyList
    <3> QED BY <3>1, <1>1, <1>2, <1>4 DEF LinkAtTail, Listed
  <2>2. /\ order' \in Seq(Node) /\ order' # <<>>
        /\ Range(order') = Range(order) \cup {n}
        /\ Spells(order', IF p_msg_q_head = NULL THEN n ELSE p_msg_q_head, n, next', NULL)
    BY <1>1, <1>2, <1>4, <2>1, NullNotNode, PushBack DEF LinkAtTail, Listed
  <2> QED BY <1>1, <1>2, <1>4, <2>2 DEF LinkAtTail, Listed, ListIntact
<1> QED BY <1>3, <1>4 DEF Link

\* The node passes from the writer to the list.
LEMMA LinkStep == ASSUME Inv, NEW t \in Writer, Link(t) PROVE Inv'
<1> USE DEF Inv, heapVars, wsVars, linkVars, mainVars
<1>1. /\ pc[t] = "link" /\ pc' = [pc EXCEPT ![t] = "unlock"] /\ main = "run"
      /\ msg_node_ptr' = [msg_node_ptr EXCEPT ![t] = NULL]
      /\ UNCHANGED <<heap, msg, write_mutex, wsVars, linkVars, mainVars>>
  BY DEF Link, WriterGoes
<1>2. msg_node_ptr[t] # NULL
  BY <1>1 DEF WriterInv
<1>3. TypeOK'
  BY <1>1, LinkExtends DEF TypeOK
<1>4. MutexInv' /\ WriterInv'
  BY <1>1 DEF MutexInv, WriterInv, TypeOK
<1>5. SenderInv' /\ AirInv'
  BY <1>1, LinkExtends DEF SenderInv, AirInv
<1>6. LinkInv'
  BY <1>1 DEF LinkInv, TypeOK
<1>7. NoLostWakeup'
  <2>1. pc'[t] = "unlock"
    BY <1>1 DEF TypeOK
  <2> QED BY <2>1 DEF NoLostWakeup
<1>8. NodesAccounted'
  <2>1. Pending' = Pending \ {msg_node_ptr[t]} /\ msg_node_ptr[t] \in Pending
    BY <1>1, <1>2 DEF Pending, NodesAccounted, TypeOK
  <2>2. Sending' = Sending /\ msg_node_ptr[t] \notin Sending
    BY <1>1, <2>1 DEF Sending, NodesAccounted
  <2>3. \A r, s \in Writer :
          r # s /\ msg_node_ptr'[r] # NULL => msg_node_ptr'[r] # msg_node_ptr'[s]
    BY <1>1 DEF NodesAccounted, TypeOK
  <2>4. Listed' = Listed \cup {msg_node_ptr[t]}
    BY LinkExtends
  <2> QED BY <1>1, <2>1, <2>2, <2>3, <2>4 DEF NodesAccounted
<1> QED BY <1>3, <1>4, <1>5, <1>6, <1>7, <1>8, LinkExtends

\* eb_ws_msgDeQ removes the first node, which the websocket thread then holds.
LEMMA DeqRemoves ==
  ASSUME Inv, Deq
  PROVE  /\ ListIntact'
         /\ Listed' = Listed \ {msg_node'}
         /\ msg_node' = p_msg_q_head /\ msg_node' = Head(order)
         /\ msg_node' \in Listed /\ msg_node' # NULL
         /\ order # <<>> /\ order' = Tail(order) /\ order' \in Seq(Node)
         /\ p_msg_q_head' \in Node \cup {NULL} /\ p_msg_q_tail' \in Node \cup {NULL}
<1>1. order # <<>> /\ order \in Seq(Node) /\ next \in [Node -> Node \cup {NULL}]
      /\ p_msg_q_tail \in Node \cup {NULL}
  BY DEF Inv, SenderInv, Deq, WsGoes, TypeOK
<1>2. Spells(order, p_msg_q_head, p_msg_q_tail, next, NULL)
  BY DEF Inv, ListIntact
<1>3. /\ p_msg_q_head = Head(order) /\ p_msg_q_head \in Range(order) /\ p_msg_q_head # NULL
      /\ Tail(order) \in Seq(Node)
      /\ Range(Tail(order)) = Range(order) \ {p_msg_q_head}
      /\ Spells(Tail(order),
                IF p_msg_q_head = p_msg_q_tail THEN NULL ELSE next[p_msg_q_head],
                IF p_msg_q_head = p_msg_q_tail THEN NULL ELSE p_msg_q_tail,
                next, NULL)
  BY <1>1, <1>2, NullNotNode, PopFront
<1>4. /\ msg_node' = p_msg_q_head /\ order' = Tail(order) /\ next' = next
      /\ p_msg_q_head' = IF p_msg_q_head = p_msg_q_tail THEN NULL ELSE next[p_msg_q_head]
      /\ p_msg_q_tail' = IF p_msg_q_head = p_msg_q_tail THEN NULL ELSE p_msg_q_tail
  BY <1>3 DEF Deq, heapVars
<1>5. p_msg_q_head \in Node
  BY <1>3 DEF Inv, TypeOK
<1>6. ListIntact'
  BY <1>3, <1>4 DEF ListIntact
<1>7. Listed' = Listed \ {msg_node'} /\ msg_node' \in Listed
  BY <1>3, <1>4 DEF Listed
<1> QED BY <1>1, <1>3, <1>4, <1>5, <1>6, <1>7

LEMMA DeqStep == ASSUME Inv, Deq PROVE Inv'
<1> USE DEF Inv, heapVars, writerVars, linkVars, mainVars
<1>1. /\ ws = "deq" /\ ws' = "deqUnlock"
      /\ UNCHANGED <<air, linkVars, heapVars, write_mutex, writerVars, mainVars>>
  BY DEF Deq, WsGoes
<1>2. TypeOK'
  BY <1>1, DeqRemoves DEF TypeOK
<1>3. MutexInv' /\ WriterInv' /\ LinkInv' /\ AirInv' /\ NoLostWakeup'
  BY <1>1 DEF MutexInv, WriterInv, LinkInv, AirInv, NoLostWakeup
<1>4. SenderInv'
  BY <1>1, DeqRemoves DEF SenderInv
<1>5. NodesAccounted'
  <2>1. Sending = {} /\ Sending' = {msg_node'}
    BY <1>1, DeqRemoves DEF Sending, SenderInv
  <2>2. Pending' = Pending
    BY <1>1 DEF Pending
  <2>3. Listed' = Listed \ {msg_node'} /\ msg_node' \in Listed
    BY DeqRemoves
  <2> QED BY <1>1, <2>1, <2>2, <2>3 DEF NodesAccounted
<1> QED BY <1>2, <1>3, <1>4, <1>5, DeqRemoves

\* The websocket thread frees the node it holds, which nobody else knows.
LEMMA FreeStep == ASSUME Inv, Free PROVE Inv'
<1> USE DEF Inv, heapVars, queueVars, writerVars, linkVars, mainVars
<1>1. /\ ws = "free" /\ ws' = "wait"
      /\ heap' = heap \ {msg_node} /\ msg_node' = NULL
      /\ msg' = [n \in Node |-> IF n = msg_node THEN NULL ELSE msg[n]]
      /\ next' = [n \in Node |-> IF n = msg_node THEN NULL ELSE next[n]]
      /\ UNCHANGED <<air, linkVars, queueVars, write_mutex, writerVars, mainVars>>
  BY DEF Free, WsGoes
<1>2. msg_node # NULL /\ msg_node \notin Listed /\ msg_node \notin Pending
  BY <1>1 DEF SenderInv, NodesAccounted, Sending
<1>3. TypeOK'
  BY <1>1 DEF TypeOK
<1>4. MutexInv' /\ SenderInv' /\ LinkInv' /\ AirInv' /\ NoLostWakeup'
  BY <1>1 DEF MutexInv, SenderInv, LinkInv, AirInv, NoLostWakeup
<1>5. WriterInv'
  <2>1. \A t \in Writer : msg_node_ptr[t] # NULL =>
          msg_node_ptr[t] \in Node /\ msg_node_ptr[t] # msg_node
    BY <1>2 DEF Pending, TypeOK
  <2> QED BY <1>1, <2>1 DEF WriterInv
<1>6. ListIntact'
  <2>1. \A m \in Range(order) : next'[m] = next[m]
    BY <1>1, <1>2 DEF Listed, Range, TypeOK
  <2>2. Spells(order, p_msg_q_head, p_msg_q_tail, next', NULL)
    BY <2>1, OtherNext DEF ListIntact, TypeOK
  <2> QED BY <1>1, <2>2 DEF ListIntact
<1>7. NodesAccounted'
  <2>1. Listed' = Listed /\ Pending' = Pending /\ Sending' = {} /\ Sending = {msg_node}
    BY <1>1, <1>2 DEF Listed, Pending, Sending
  <2>2. \A m \in Node : msg'[m] # NULL <=> m \in heap'
    BY <1>1 DEF NodesAccounted
  <2> QED BY <1>1, <1>2, <2>1, <2>2 DEF NodesAccounted
<1> QED BY <1>3, <1>4, <1>5, <1>6, <1>7

\* One step per action.  The four above disturb list and nodes; the others
\* are covered by QuietStep and change control only.
LEMMA NextInv == Inv /\ [Next]_vars => Inv'
<1> SUFFICES ASSUME Inv, [Next]_vars PROVE Inv'
  OBVIOUS
<1> DEFINE Control == TypeOK /\ MutexInv /\ WriterInv /\ SenderInv /\ LinkInv /\ AirInv
<1>a. Control'/\ NoLostWakeup' /\ ListIntact' /\ NodesAccounted' => Inv'
  BY DEF Inv
<1> USE NullNotNode DEF TypeOK, MutexInv, WriterInv, SenderInv, LinkInv, AirInv,
                        NoLostWakeup, WriterGoes, WsGoes, heapVars, queueVars,
                        writerVars, wsVars, linkVars, mainVars
<1>1. CASE InitDone
  BY <1>1, <1>a, QuietStep DEF InitDone, Inv
<1>2. CASE InitPoll
  <2>1. cnt' \in 0 .. MaxWait + 1 /\ (main' = "wait" => cnt' <= MaxWait)
    BY <1>2, ConstantsAssumption DEF InitPoll, Inv
  <2> QED BY <1>2, <2>1, <1>a, QuietStep DEF InitPoll, Inv
<1>3. ASSUME NEW t \in Writer, WriterStep(t) PROVE Inv'
  <2>1. CASE Alloc(t)
    BY <2>1, AllocStep
  <2>2. CASE AllocFails(t)
    BY <2>2, <1>a, QuietStep DEF AllocFails, Inv
  <2>3. CASE LockQueue(t)
    BY <2>3, <1>a, QuietStep DEF LockQueue, Inv
  <2>4. CASE Link(t)
    BY <2>4, LinkStep
  <2>5. CASE UnlockQueue(t)
    BY <2>5, <1>a, QuietStep DEF UnlockQueue, Inv
  <2>6. CASE RequestWriteable(t)
    <3>1. pollout' \in BOOLEAN /\ (link = "established" => pollout')
      BY <2>6 DEF RequestWriteable, Requested, Inv
    <3>2. NoLostWakeup'
      BY <2>6, <3>1 DEF RequestWriteable, Inv
    <3> QED BY <2>6, <3>1, <3>2, <1>a, QuietStep DEF RequestWriteable, Inv
  <2> QED BY <1>3, <2>1, <2>2, <2>3, <2>4, <2>5, <2>6 DEF WriterStep
<1>4. CASE WsStep
  <2>1. CASE Connect
    BY <2>1, <1>a, QuietStep DEF Connect, Inv
  <2>2. CASE Sleep
    BY <2>2, <1>a, QuietStep DEF Sleep, Inv
  <2>3. CASE Writeable
    BY <2>3, <1>a, QuietStep DEF Writeable, Inv
  <2>4. CASE TestHead
    <3>1. p_msg_q_head = NULL <=> order = <<>>
      BY EmptyList DEF Inv, ListIntact
    <3> QED BY <2>4, <3>1, <1>a, QuietStep DEF TestHead, Inv
  <2>5. CASE DeqLock
    BY <2>5, <1>a, QuietStep DEF DeqLock, Inv
  <2>6. CASE Deq
    BY <2>6, DeqStep
  <2>7. CASE DeqUnlock
    BY <2>7, <1>a, QuietStep DEF DeqUnlock, Inv
  <2>8. CASE Write
    BY <2>8, <1>a, QuietStep DEF Write, Inv
  <2>9. CASE Free
    BY <2>9, FreeStep
  <2>10. CASE WaitForAir
    BY <2>10, <1>a, QuietStep DEF WaitForAir, Inv
  <2>11. CASE Rearm
    BY <2>11, <1>a, QuietStep DEF Rearm, Requested, Inv
  <2> QED BY <1>4, <2>1, <2>2, <2>3, <2>4, <2>5, <2>6, <2>7, <2>8, <2>9, <2>10, <2>11 DEF WsStep
<1>5. CASE NetworkStep
  <2>1. CASE Established
    BY <2>1, <1>a, QuietStep DEF Established, Inv
  <2>2. CASE Closed
    BY <2>2, <1>a, QuietStep DEF Closed, Inv
  <2>3. CASE Receive
    BY <2>3, <1>a, QuietStep DEF Receive, Inv
  <2>4. CASE Wake
    BY <2>4, <1>a, QuietStep DEF Wake, Inv
  <2>5. CASE AirClears
    BY <2>5, <1>a, QuietStep DEF AirClears, Inv
  <2> QED BY <1>5, <2>1, <2>2, <2>3, <2>4, <2>5 DEF NetworkStep
<1>6. CASE UNCHANGED vars
  BY <1>6, <1>a, QuietStep DEF vars, Inv
<1> QED BY <1>1, <1>2, <1>3, <1>4, <1>5, <1>6 DEF Next, Exited

\* The inductive invariant, for every number of writers, nodes and texts.
THEOREM Invariance == Spec => []Inv
<1>1. Init => Inv
  BY InitInv
<1>2. Inv /\ [Next]_vars => Inv'
  BY NextInv
<1> QED BY <1>1, <1>2, PTL DEF Spec

\* The list is intact, every node has one owner and no wakeup is lost.
THEOREM QueueSafe == Spec => [](ListIntact /\ NodesAccounted /\ NoLostWakeup)
<1>1. Inv => ListIntact /\ NodesAccounted /\ NoLostWakeup
  BY DEF Inv
<1> QED BY <1>1, Invariance, PTL

\* The websocket thread only reads and frees a node that it owns.
THEOREM SenderSafe == Spec => []SendsLiveNode
<1>1. Inv => SendsLiveNode
  BY DEF Inv, SenderInv, NodesAccounted, Sending, SendsLiveNode
<1> QED BY <1>1, Invariance, PTL

\* No thread passes a handle that does not exist yet.
THEOREM HandleSafe == Spec => []HandleBeforeUse
<1>1. Inv => HandleBeforeUse
  BY DEF Inv, LinkInv, HandleBeforeUse, TypeOK
<1> QED BY <1>1, Invariance, PTL

\* Two messages are never on the air together.
THEOREM AirSafe == Spec => []AirGap
<1>1. Inv => AirGap
  BY DEF Inv, AirInv, AirGap, TypeOK
<1> QED BY <1>1, Invariance, PTL

-----------------------------------------------------------------------------
(* The refinement of MessageQueue.  waiting and inHand are the abstract     *)
(* variables as MQ reads them off the state.                               *)

waiting == Texts(order, msg)
inHand  == IF ws \in {"deqUnlock", "write", "free"} THEN msg[msg_node] ELSE NULL

\* Listed nodes have texts.
LEMMA ListedTexts ==
  ASSUME Inv
  PROVE  order \in Seq(Node) /\ \A i \in DOMAIN order : order[i] \in heap /\ msg[order[i]] \in Msg
<1>1. \A i \in DOMAIN order : order[i] \in Node /\ order[i] \in heap
  BY DEF Inv, NodesAccounted, Listed, Range, TypeOK
<1> QED BY <1>1 DEF Inv, NodesAccounted, TypeOK

\* A step that moves no node and no text is a stutter of the queue.
LEMMA QuietAbstract ==
  ASSUME UNCHANGED <<order, msg, msg_node>>,
         ws \in {"deqUnlock", "write", "free"} <=> ws' \in {"deqUnlock", "write", "free"}
  PROVE  UNCHANGED <<waiting, inHand>>
BY DEF waiting, inHand, Texts

\* A malloc writes a text that nothing refers to yet.
LEMMA AllocAbstract == ASSUME Inv, NEW t \in Writer, Alloc(t) PROVE UNCHANGED <<waiting, inHand>>
<1>1. PICK n \in Node \ heap, d \in Data :
        msg' = [msg EXCEPT ![n] = [priority |-> Priority(t), data |-> d]]
  BY DEF Alloc
<1>2. order' = order /\ ws' = ws /\ msg_node' = msg_node
  BY DEF Alloc, queueVars, wsVars
<1>3. \A m \in heap : msg'[m] = msg[m]
  BY <1>1 DEF Inv, TypeOK
<1>4. \A i \in DOMAIN order : order[i] \in heap
  BY ListedTexts
<1>5. ws \in {"deqUnlock", "write", "free"} => msg_node \in heap
  BY DEF Inv, SenderInv, NodesAccounted, Sending
<1> QED BY <1>2, <1>3, <1>4, <1>5 DEF waiting, inHand, Texts

\* Linking a node puts its text, in front for priority 1 and behind otherwise.
LEMMA LinkAbstract ==
  ASSUME Inv, NEW t \in Writer, Link(t)
  PROVE  \E m \in Msg : MQ!Put(m)
<1> DEFINE n == msg_node_ptr[t]
           m == msg[n]
<1>1. n \in Node /\ m \in Msg /\ m.priority = Priority(t)
  <2>1. n # NULL /\ m.priority = Priority(t)
    BY DEF Link, WriterGoes, Inv, WriterInv
  <2>2. n \in Node /\ n \in heap
    BY <2>1 DEF Inv, NodesAccounted, Pending, TypeOK
  <2> QED BY <2>1, <2>2 DEF Inv, NodesAccounted, TypeOK
<1>2. msg' = msg /\ inHand' = inHand
  BY DEF Link, wsVars, inHand
<1> HIDE DEF n
<1>3. CASE Priority(t) = 1
  <2>1. order' = <<n>> \o order
    BY <1>3 DEF Link, LinkAtHead, n
  <2>2. waiting' = <<m>> \o waiting
    BY <2>1, <1>1, <1>2, ListedTexts, TextsPushFront DEF waiting, Texts
  <2>3. m \in {x \in Msg : x.priority = 1}
    BY <1>1, <1>3
  <2> QED BY <1>1, <1>2, <2>2, <2>3 DEF MQ!Put, waiting, inHand
<1>4. CASE Priority(t) # 1
  <2>1. order' = Append(order, n)
    BY <1>4 DEF Link, LinkAtTail, n
  <2>2. waiting' = Append(waiting, m)
    BY <2>1, <1>1, <1>2, ListedTexts, TextsPushBack DEF waiting, Texts
  <2>3. m \notin {x \in Msg : x.priority = 1}
    BY <1>1, <1>4
  <2> QED BY <1>1, <1>2, <2>2, <2>3 DEF MQ!Put, waiting, inHand
<1> QED BY <1>3, <1>4

\* eb_ws_msgDeQ takes the front message into the websocket thread's hands.
LEMMA DeqAbstract == ASSUME Inv, Deq PROVE MQ!Take
<1>1. /\ msg_node' = Head(order) /\ order # <<>> /\ order' = Tail(order)
  BY DeqRemoves
<1>2. /\ ws = "deq" /\ ws' = "deqUnlock" /\ msg' = msg
  BY DEF Deq, WsGoes, heapVars
<1>3. /\ waiting # <<>> /\ Head(waiting) = msg[Head(order)]
      /\ Texts(Tail(order), msg) = Tail(waiting)
  BY <1>1, ListedTexts, TextsPopFront DEF waiting
<1>4. inHand = NULL /\ inHand' = Head(waiting) /\ waiting' = Tail(waiting)
  BY <1>1, <1>2, <1>3 DEF inHand, waiting
<1> QED BY <1>3, <1>4 DEF MQ!Take, waiting, inHand

\* free ends the work on the message.
LEMMA FreeAbstract == ASSUME Inv, Free PROVE MQ!Done
<1>1. /\ ws = "free" /\ ws' = "wait" /\ order' = order
      /\ msg' = [n \in Node |-> IF n = msg_node THEN NULL ELSE msg[n]]
  BY DEF Free, WsGoes, queueVars
<1>2. msg_node \in heap /\ msg_node \in Node /\ msg_node \notin Listed
  BY <1>1 DEF Inv, SenderInv, NodesAccounted, Sending, TypeOK
<1>3. inHand # NULL /\ inHand' = NULL
  BY <1>1, <1>2 DEF inHand, Inv, NodesAccounted
<1>4. \A i \in DOMAIN order : msg'[order[i]] = msg[order[i]]
  BY <1>1, <1>2 DEF Listed, Range, Inv, TypeOK
<1>5. waiting' = waiting
  BY <1>1, <1>4 DEF waiting, Texts
<1> QED BY <1>3, <1>5 DEF MQ!Done, waiting, inHand

\* Every step of the thread of nodes is a step of the queue of messages, or
\* leaves that queue alone.
LEMMA NextAbstract == Inv /\ [Next]_vars => [MQ!Next]_MQ!vars
<1> SUFFICES ASSUME Inv, [Next]_vars PROVE MQ!Next \/ UNCHANGED <<waiting, inHand>>
  BY DEF MQ!vars, waiting, inHand
<1> USE DEF WriterGoes, WsGoes, heapVars, queueVars, writerVars, wsVars, linkVars, mainVars
<1>1. CASE InitDone \/ InitPoll
  BY <1>1, QuietAbstract DEF InitDone, InitPoll
<1>2. ASSUME NEW t \in Writer, WriterStep(t) PROVE MQ!Next \/ UNCHANGED <<waiting, inHand>>
  <2>1. CASE Alloc(t)
    BY <2>1, AllocAbstract
  <2>2. CASE Link(t)
    BY <2>2, LinkAbstract DEF MQ!Next
  <2>3. CASE AllocFails(t) \/ LockQueue(t) \/ UnlockQueue(t) \/ RequestWriteable(t)
    BY <2>3, QuietAbstract DEF AllocFails, LockQueue, UnlockQueue, RequestWriteable
  <2> QED BY <1>2, <2>1, <2>2, <2>3 DEF WriterStep
<1>3. CASE WsStep
  <2>1. CASE Deq
    BY <2>1, DeqAbstract DEF MQ!Next
  <2>2. CASE Free
    BY <2>2, FreeAbstract DEF MQ!Next
  <2>3. CASE Connect \/ Sleep \/ Writeable \/ TestHead \/ DeqLock
    BY <2>3, QuietAbstract DEF Connect, Sleep, Writeable, TestHead, DeqLock
  <2>4. CASE DeqUnlock \/ Write \/ WaitForAir \/ Rearm
    BY <2>4, QuietAbstract DEF DeqUnlock, Write, WaitForAir, Rearm
  <2> QED BY <1>3, <2>1, <2>2, <2>3, <2>4 DEF WsStep
<1>4. CASE NetworkStep
  BY <1>4, QuietAbstract DEF NetworkStep, Established, Closed, Receive, Wake, AirClears
<1>5. CASE UNCHANGED vars
  BY <1>5, QuietAbstract DEF vars
<1> QED BY <1>1, <1>2, <1>3, <1>4, <1>5 DEF Next, Exited

\* The websocket write queue implements the priority queue of MessageQueue.
THEOREM Refinement == Spec => ImplementsQueue
<1>1. Init => MQ!Init
  <2>1. Init => order = <<>> /\ DOMAIN order = {} /\ ws = "loop"
    BY DEF Init
  <2> QED BY <2>1 DEF MQ!Init, Texts
<1>2. Inv /\ [Next]_vars => [MQ!Next]_MQ!vars
  BY NextAbstract
<1> QED BY <1>1, <1>2, Invariance, PTL DEF Spec, ImplementsQueue, MQ!Spec

-----------------------------------------------------------------------------
(* The order of the messages, in the abstract queue.                       *)

\* In a queue no message of U stands behind another one.
InFront(q, U) == \A i, j \in DOMAIN q : q[i] \notin U /\ q[j] \in U => j < i

\* Putting an urgent message in front keeps the order.
LEMMA PutInFront ==
  ASSUME NEW S, NEW U, NEW q \in Seq(S), InFront(q, U), NEW m \in S, m \in U
  PROVE  <<m>> \o q \in Seq(S) /\ InFront(<<m>> \o q, U)
<1> DEFINE put == <<m>> \o q
<1>1. DOMAIN q = 1 .. Len(q) /\ Len(q) \in Nat
  BY LenProperties
<1>2. /\ put \in Seq(S) /\ DOMAIN put = 1 .. Len(q) + 1
      /\ put[1] = m
      /\ \A i \in 2 .. Len(q) + 1 : i - 1 \in DOMAIN q /\ put[i] = q[i - 1]
  BY <1>1
<1> HIDE DEF put
<1>3. ASSUME NEW i \in DOMAIN put, NEW j \in DOMAIN put, put[i] \notin U, put[j] \in U PROVE j < i
  <2>1. i # 1 /\ i \in 2 .. Len(q) + 1
    BY <1>1, <1>2, <1>3
  <2>2. CASE j = 1
    BY <1>1, <2>1, <2>2
  <2>3. CASE j # 1
    <3>1. j \in 2 .. Len(q) + 1
      BY <1>1, <1>2, <2>3
    <3>2. j - 1 < i - 1
      BY <1>2, <1>3, <2>1, <3>1 DEF InFront
    <3> QED BY <1>1, <2>1, <3>1, <3>2
  <2> QED BY <2>2, <2>3
<1> QED BY <1>2, <1>3 DEF InFront, put

\* Putting another one behind keeps it.
LEMMA PutBehind ==
  ASSUME NEW S, NEW U, NEW q \in Seq(S), InFront(q, U), NEW m \in S, m \notin U
  PROVE  Append(q, m) \in Seq(S) /\ InFront(Append(q, m), U)
<1> DEFINE put == Append(q, m)
<1>1. DOMAIN q = 1 .. Len(q) /\ Len(q) \in Nat
  BY LenProperties
<1>2. /\ put \in Seq(S) /\ DOMAIN put = 1 .. Len(q) + 1
      /\ put[Len(q) + 1] = m
      /\ \A i \in 1 .. Len(q) : put[i] = q[i]
  BY <1>1
<1> HIDE DEF put
<1>3. InFront(put, U)
  BY <1>1, <1>2 DEF InFront
<1> QED BY <1>2, <1>3 DEF put

\* Taking the front message keeps it.
LEMMA TakeFront ==
  ASSUME NEW S, NEW U, NEW q \in Seq(S), InFront(q, U), q # <<>>
  PROVE  Head(q) \in S /\ Tail(q) \in Seq(S) /\ InFront(Tail(q), U)
<1> DEFINE rest == Tail(q)
<1>1. DOMAIN q = 1 .. Len(q) /\ Len(q) \in Nat
  BY LenProperties
<1>2. /\ Head(q) \in S /\ rest \in Seq(S) /\ DOMAIN rest = 1 .. Len(q) - 1
      /\ \A i \in 1 .. Len(q) - 1 : i + 1 \in DOMAIN q /\ rest[i] = q[i + 1]
  BY <1>1
<1> HIDE DEF rest
<1>3. ASSUME NEW i \in DOMAIN rest, NEW j \in DOMAIN rest, rest[i] \notin U, rest[j] \in U PROVE j < i
  <2>1. j + 1 < i + 1
    BY <1>2, <1>3 DEF InFront
  <2> QED BY <1>1, <1>2, <2>1
<1> QED BY <1>2, <1>3 DEF InFront, rest

\* In the abstract queue urgent messages stay in front for ever.
LEMMA UrgentStaysFirst == MQ!Spec => []MQ!UrgentFirst
<1> DEFINE U == {m \in Msg : m.priority = 1}
           Ordered == waiting \in Seq(Msg) /\ InFront(waiting, U)
<1>1. MQ!Init => Ordered
  BY DEF MQ!Init, waiting, InFront
<1>2. Ordered /\ [MQ!Next]_MQ!vars => Ordered'
  <2> SUFFICES ASSUME waiting \in Seq(Msg), InFront(waiting, U), MQ!Next \/ UNCHANGED waiting
               PROVE  waiting' \in Seq(Msg) /\ InFront(waiting', U)
    BY DEF MQ!vars, waiting, InFront
  <2>1. ASSUME NEW m \in Msg, MQ!Put(m) PROVE waiting' \in Seq(Msg) /\ InFront(waiting', U)
    <3>1. waiting' = IF m \in U THEN <<m>> \o waiting ELSE Append(waiting, m)
      BY <2>1 DEF MQ!Put, waiting
    <3> QED BY <3>1, PutInFront, PutBehind
  <2>2. CASE MQ!Take
    <3>1. waiting # <<>> /\ waiting' = Tail(waiting)
      BY <2>2 DEF MQ!Take, waiting
    <3> QED BY <3>1, TakeFront
  <2>3. CASE MQ!Done \/ UNCHANGED waiting
    <3>1. waiting' = waiting
      BY <2>3 DEF MQ!Done, waiting
    <3> QED BY <3>1
  <2> QED BY <2>1, <2>2, <2>3 DEF MQ!Next
<1>3. Ordered => MQ!UrgentFirst
  BY DEF MQ!UrgentFirst, InFront, waiting
<1> QED BY <1>1, <1>2, <1>3, PTL DEF MQ!Spec

\* No status request is in front of a hub command, because no routine message
\* is in front of an urgent one in the queue that the websocket queue implements.
THEOREM CommandsFirst == Spec => []UrgentFirst
BY Refinement, UrgentStaysFirst, PTL DEF ImplementsQueue, UrgentFirst

=============================================================================
