--------------------------- MODULE HubQueueProofs ---------------------------
(***************************************************************************)
(* Proofs about HubQueue, for every number of nodes and texts.  The plan   *)
(* is that of WsClientProofs: the list operations by the lemmas of         *)
(* DataProofs, then one step per action.                             *)
(***************************************************************************)
EXTENDS HubQueue, DataProofs

LEMMA NullNotNode == /\ NULL \notin Node /\ NULL \notin Data
                     /\ NULL # MainThread /\ NULL # HandlerThread
                     /\ MainThread # HandlerThread
BY ConstantsAssumption

LEMMA InitInv == Init => Inv
<1> SUFFICES ASSUME Init PROVE Inv
  OBVIOUS
<1> USE DEF Init
<1>1. TypeOK
  BY DEF TypeOK
<1>2. MutexInv /\ ThreadInv /\ HandlesLiveNode
  BY NullNotNode DEF MutexInv, ThreadInv, HandlesLiveNode
<1>3. ListIntact
  BY DEF ListIntact, Spells, IsInjective
<1>4. NodesAccounted
  BY DEF NodesAccounted, Listed, Pending, Handling, Range
<1> QED BY <1>1, <1>2, <1>3, <1>4 DEF Inv

\* A step that moves no node keeps the list and the accounts of the nodes.
LEMMA QuietStep ==
  ASSUME Inv, UNCHANGED <<heapVars, queueVars>>, Pending' = Pending, Handling' = Handling
  PROVE  ListIntact' /\ NodesAccounted'
<1>1. ListIntact'
  BY DEF Inv, ListIntact, queueVars, heapVars
<1>2. NodesAccounted'
  BY DEF Inv, NodesAccounted, Listed, queueVars, heapVars
<1> QED BY <1>1, <1>2

LEMMA AllocStep == ASSUME Inv, Alloc PROVE Inv'
<1> USE DEF Inv, queueVars, handlerVars
<1>1. PICK n \in Node \ heap, d \in Data :
        /\ heap' = heap \cup {n}
        /\ msg' = [msg EXCEPT ![n] = d]
        /\ next' = [next EXCEPT ![n] = NULL]
        /\ msg_node_ptr' = n
  BY DEF Alloc
<1>2. /\ main = "idle" /\ main' = "lock"
      /\ UNCHANGED <<queueVars, hubmsg_mutex, handlerVars>>
  BY DEF Alloc, MainGoes
<1>3. n \notin Listed /\ n \notin Handling /\ n # NULL /\ Pending = {}
  BY <1>1, <1>2, NullNotNode DEF NodesAccounted, Pending
<1>4. TypeOK'
  BY <1>1, <1>2 DEF TypeOK
<1>5. MutexInv' /\ HandlesLiveNode'
  BY <1>1, <1>2 DEF MutexInv, HandlesLiveNode
<1>6. ThreadInv'
  <2>1. next'[n] = NULL
    BY <1>1 DEF TypeOK
  <2> QED BY <2>1, <1>1, <1>2, <1>3 DEF ThreadInv
<1>7. ListIntact'
  <2>1. \A m \in Range(order) : next'[m] = next[m]
    BY <1>1, <1>3 DEF Listed, Range, TypeOK
  <2>2. Spells(order, p_hubmsg_q_head, p_hubmsg_q_tail, next', NULL)
    BY <2>1, OtherNext DEF ListIntact, TypeOK
  <2> QED BY <1>2, <2>2 DEF ListIntact
<1>8. NodesAccounted'
  <2>1. Listed' = Listed /\ Pending' = {n} /\ Handling' = Handling
    BY <1>1, <1>2 DEF Listed, Pending, Handling
  <2>2. \A m \in Node : msg'[m] # NULL <=> m \in heap'
    BY <1>1, NullNotNode DEF NodesAccounted, TypeOK
  <2> QED BY <2>1, <2>2, <1>1, <1>3 DEF NodesAccounted
<1> QED BY <1>4, <1>5, <1>6, <1>7, <1>8

\* iothubMsgEnQ extends the list by the main thread's node.
LEMMA LinkExtends ==
  ASSUME Inv, Link
  PROVE  /\ ListIntact'
         /\ Listed' = Listed \cup {msg_node_ptr}
         /\ order' = Append(order, msg_node_ptr) /\ order' \in Seq(Node) /\ order' # <<>>
         /\ next' \in [Node -> Node \cup {NULL}]
         /\ p_hubmsg_q_head' \in Node \cup {NULL} /\ p_hubmsg_q_tail' \in Node \cup {NULL}
         /\ msg_node_ptr \in Node /\ msg_node_ptr \in heap
         /\ msg_node_ptr \notin Listed /\ msg_node_ptr \notin Handling
<1>1. /\ msg_node_ptr \in Node /\ msg_node_ptr \in heap /\ next[msg_node_ptr] = NULL
      /\ msg_node_ptr \notin Listed /\ msg_node_ptr \notin Handling
  BY DEF Link, MainGoes, Inv, ThreadInv, NodesAccounted, Pending, TypeOK
<1>2. /\ order \in Seq(Node)
      /\ Spells(order, p_hubmsg_q_head, p_hubmsg_q_tail, next, NULL)
      /\ next \in [Node -> Node \cup {NULL}]
      /\ p_hubmsg_q_head \in Node \cup {NULL}
      /\ Range(order) \subseteq Node
  BY DEF Inv, TypeOK, ListIntact, Range
<1>3. p_hubmsg_q_tail # NULL => p_hubmsg_q_tail \in Range(order)
  BY <1>2, NullNotNode, EmptyList
<1>4. /\ next'[msg_node_ptr] = NULL
      /\ p_hubmsg_q_tail # NULL => next'[p_hubmsg_q_tail] = msg_node_ptr
      /\ \A m \in Range(order) : m # p_hubmsg_q_tail => next'[m] = next[m]
  BY <1>1, <1>2, <1>3, NullNotNode DEF Link, Listed
<1>5. /\ order' = Append(order, msg_node_ptr)
      /\ p_hubmsg_q_head' = IF p_hubmsg_q_head = NULL THEN msg_node_ptr ELSE p_hubmsg_q_head
      /\ p_hubmsg_q_tail' = msg_node_ptr
      /\ next' \in [Node -> Node \cup {NULL}]
  BY <1>1, <1>2 DEF Link
<1>6. /\ order' \in Seq(Node) /\ order' # <<>>
      /\ Range(order') = Range(order) \cup {msg_node_ptr}
      /\ Spells(order', p_hubmsg_q_head', p_hubmsg_q_tail', next', NULL)
  BY <1>1, <1>2, <1>4, <1>5, NullNotNode, PushBack DEF Listed
<1> QED BY <1>1, <1>2, <1>5, <1>6 DEF Listed, ListIntact

LEMMA LinkStep == ASSUME Inv, Link PROVE Inv'
<1> USE DEF Inv, handlerVars
<1>1. /\ main = "link" /\ main' = "unlock"
      /\ UNCHANGED <<msg_node_ptr, heap, msg, hubmsg_mutex, handlerVars>>
  BY DEF Link, MainGoes
<1>2. TypeOK'
  BY <1>1, LinkExtends DEF TypeOK
<1>3. MutexInv' /\ ThreadInv' /\ HandlesLiveNode'
  BY <1>1, LinkExtends DEF MutexInv, ThreadInv, HandlesLiveNode
<1>4. NodesAccounted'
  <2>1. Pending = {msg_node_ptr} /\ Pending' = {} /\ Handling' = Handling
    BY <1>1 DEF Pending, Handling
  <2> QED BY <1>1, <2>1, LinkExtends DEF NodesAccounted
<1> QED BY <1>2, <1>3, <1>4, LinkExtends

\* iothubMsgDeQ removes the first node, which the handler then holds.
LEMMA DeqRemoves ==
  ASSUME Inv, Deq
  PROVE  /\ ListIntact'
         /\ Listed' = Listed \ {node_ptr'}
         /\ node_ptr' = Head(order) /\ node_ptr' \in Listed /\ node_ptr' \in Node
         /\ order # <<>> /\ order' = Tail(order) /\ order' \in Seq(Node)
         /\ p_hubmsg_q_head' \in Node \cup {NULL} /\ p_hubmsg_q_tail' \in Node \cup {NULL}
<1>1. order # <<>> /\ order \in Seq(Node) /\ next \in [Node -> Node \cup {NULL}]
      /\ p_hubmsg_q_tail \in Node \cup {NULL}
  BY DEF Inv, ThreadInv, Deq, HandlerGoes, TypeOK
<1>2. Spells(order, p_hubmsg_q_head, p_hubmsg_q_tail, next, NULL)
  BY DEF Inv, ListIntact
<1>3. /\ p_hubmsg_q_head = Head(order) /\ p_hubmsg_q_head \in Range(order)
      /\ p_hubmsg_q_head # NULL
      /\ Tail(order) \in Seq(Node)
      /\ Range(Tail(order)) = Range(order) \ {p_hubmsg_q_head}
      /\ Spells(Tail(order),
                IF p_hubmsg_q_head = p_hubmsg_q_tail THEN NULL ELSE next[p_hubmsg_q_head],
                IF p_hubmsg_q_head = p_hubmsg_q_tail THEN NULL ELSE p_hubmsg_q_tail,
                next, NULL)
  BY <1>1, <1>2, NullNotNode, PopFront
<1>4. /\ node_ptr' = p_hubmsg_q_head /\ order' = Tail(order) /\ next' = next
      /\ p_hubmsg_q_head' = IF p_hubmsg_q_head = p_hubmsg_q_tail THEN NULL
                            ELSE next[p_hubmsg_q_head]
      /\ p_hubmsg_q_tail' = IF p_hubmsg_q_head = p_hubmsg_q_tail THEN NULL
                            ELSE p_hubmsg_q_tail
  BY <1>3 DEF Deq, heapVars
<1>5. p_hubmsg_q_head \in Node
  BY <1>3 DEF Inv, TypeOK
<1>6. ListIntact'
  BY <1>3, <1>4 DEF ListIntact
<1>7. Listed' = Listed \ {node_ptr'} /\ node_ptr' \in Listed
  BY <1>3, <1>4 DEF Listed
<1> QED BY <1>1, <1>3, <1>4, <1>5, <1>6, <1>7

LEMMA DeqStep == ASSUME Inv, Deq PROVE Inv'
<1> USE DEF Inv, heapVars, mainVars
<1>1. /\ handler = "deq" /\ handler' = "unlock"
      /\ UNCHANGED <<heapVars, hubmsg_mutex, mainVars>>
  BY DEF Deq, HandlerGoes
<1>2. TypeOK'
  BY <1>1, DeqRemoves DEF TypeOK
<1>3. MutexInv' /\ ThreadInv'
  BY <1>1 DEF MutexInv, ThreadInv
<1>4. HandlesLiveNode'
  BY <1>1, DeqRemoves DEF HandlesLiveNode, NodesAccounted
<1>5. NodesAccounted'
  <2>1. Handling = {} /\ Handling' = {node_ptr'} /\ Pending' = Pending
    BY <1>1 DEF Handling, Pending
  <2>2. Listed' = Listed \ {node_ptr'} /\ node_ptr' \in Listed
    BY DeqRemoves
  <2> QED BY <1>1, <2>1, <2>2 DEF NodesAccounted
<1> QED BY <1>2, <1>3, <1>4, <1>5, DeqRemoves

LEMMA FreeStep == ASSUME Inv, Free PROVE Inv'
<1> USE DEF Inv, heapVars, queueVars, mainVars
<1>1. /\ handler = "free" /\ handler' = "test"
      /\ heap' = heap \ {node_ptr}
      /\ msg' = [n \in Node |-> IF n = node_ptr THEN NULL ELSE msg[n]]
      /\ next' = [n \in Node |-> IF n = node_ptr THEN NULL ELSE next[n]]
      /\ UNCHANGED <<node_ptr, queueVars, hubmsg_mutex, mainVars>>
  BY DEF Free, HandlerGoes
<1>2. Handling = {node_ptr} /\ Handling' = {} /\ Pending' = Pending /\ Listed' = Listed
  BY <1>1 DEF Handling, Pending, Listed
<1>3. node_ptr \notin Listed /\ node_ptr \notin Pending
  BY <1>2 DEF NodesAccounted
<1>4. TypeOK'
  BY <1>1 DEF TypeOK
<1>5. MutexInv' /\ HandlesLiveNode'
  BY <1>1 DEF MutexInv, HandlesLiveNode
<1>6. ThreadInv'
  BY <1>1, <1>3 DEF ThreadInv, Pending, TypeOK
<1>7. ListIntact'
  <2>1. \A m \in Range(order) : next'[m] = next[m]
    BY <1>1, <1>3 DEF Listed, Range, TypeOK
  <2>2. Spells(order, p_hubmsg_q_head, p_hubmsg_q_tail, next', NULL)
    BY <2>1, OtherNext DEF ListIntact, TypeOK
  <2> QED BY <1>1, <2>2 DEF ListIntact
<1>8. NodesAccounted'
  <2>1. \A m \in Node : msg'[m] # NULL <=> m \in heap'
    BY <1>1 DEF NodesAccounted
  <2> QED BY <1>1, <1>2, <1>3, <2>1 DEF NodesAccounted
<1> QED BY <1>4, <1>5, <1>6, <1>7, <1>8

\* One step per action.
LEMMA NextInv == Inv /\ [Next]_vars => Inv'
<1> SUFFICES ASSUME Inv, [Next]_vars PROVE Inv'
  OBVIOUS
<1> USE NullNotNode DEF TypeOK, MutexInv, ThreadInv, HandlesLiveNode, Pending, Handling,
                        MainGoes, HandlerGoes, heapVars, queueVars, mainVars, handlerVars
<1>1. CASE HubMessage
  BY <1>1, AllocStep DEF HubMessage
<1>2. CASE MainStep
  <2>1. CASE LockQueue
    BY <2>1, QuietStep DEF LockQueue, Inv
  <2>2. CASE Link
    BY <2>2, LinkStep
  <2>3. CASE UnlockQueue
    BY <2>3, QuietStep DEF UnlockQueue, Inv
  <2>4. CASE Log
    BY <2>4, QuietStep DEF Log, Inv
  <2> QED BY <1>2, <2>1, <2>2, <2>3, <2>4 DEF MainStep
<1>3. CASE HandlerStep
  <2>1. CASE TestHead
    <3>1. p_hubmsg_q_head = NULL <=> order = <<>>
      BY EmptyList DEF Inv, ListIntact
    <3> QED BY <2>1, <3>1, QuietStep DEF TestHead, Inv
  <2>2. CASE SleepOver
    BY <2>2, QuietStep DEF SleepOver, Inv
  <2>3. CASE DeqLock
    BY <2>3, QuietStep DEF DeqLock, Inv
  <2>4. CASE Deq
    BY <2>4, DeqStep
  <2>5. CASE DeqUnlock
    BY <2>5, QuietStep DEF DeqUnlock, Inv
  <2>6. CASE Process
    BY <2>6, QuietStep DEF Process, Inv
  <2>7. CASE Free
    BY <2>7, FreeStep
  <2> QED BY <1>3, <2>1, <2>2, <2>3, <2>4, <2>5, <2>6, <2>7 DEF HandlerStep
<1>4. CASE UNCHANGED vars
  BY <1>4, QuietStep DEF vars, Inv
<1> QED BY <1>1, <1>2, <1>3, <1>4 DEF Next

\* The inductive invariant, for every number of nodes and texts.
THEOREM Invariance == Spec => []Inv
<1>1. Init => Inv
  BY InitInv
<1>2. Inv /\ [Next]_vars => Inv'
  BY NextInv
<1> QED BY <1>1, <1>2, PTL DEF Spec

\* The list is intact, every node has one owner, and the handler only works
\* on a node that it has just taken off the queue.
THEOREM QueueSafe == Spec => [](ListIntact /\ NodesAccounted /\ HandlesLiveNode)
<1>1. Inv => ListIntact /\ NodesAccounted /\ HandlesLiveNode
  BY DEF Inv
<1> QED BY <1>1, Invariance, PTL

-----------------------------------------------------------------------------
(* The refinement of MessageQueue.  waiting and inHand are the abstract     *)
(* variables as MQ reads them off the state.                               *)

waiting == Texts(order, msg)
inHand  == IF handler \in {"unlock", "process", "free"} THEN msg[node_ptr] ELSE NULL

\* Listed nodes have texts.
LEMMA ListedTexts ==
  ASSUME Inv
  PROVE  order \in Seq(Node) /\ \A i \in DOMAIN order : order[i] \in heap /\ msg[order[i]] \in Data
<1>1. \A i \in DOMAIN order : order[i] \in Node /\ order[i] \in heap
  BY DEF Inv, NodesAccounted, Listed, Range, TypeOK
<1> QED BY <1>1 DEF Inv, NodesAccounted, TypeOK

\* A step that moves no node and no text is a stutter of the queue.
LEMMA QuietAbstract ==
  ASSUME UNCHANGED <<order, msg, node_ptr>>,
         handler \in {"unlock", "process", "free"} <=> handler' \in {"unlock", "process", "free"}
  PROVE  UNCHANGED <<waiting, inHand>>
BY DEF waiting, inHand, Texts

\* A malloc writes a text that nothing refers to yet.
LEMMA AllocAbstract == ASSUME Inv, Alloc PROVE UNCHANGED <<waiting, inHand>>
<1>1. PICK n \in Node \ heap, d \in Data : msg' = [msg EXCEPT ![n] = d]
  BY DEF Alloc
<1>2. order' = order /\ handler' = handler /\ node_ptr' = node_ptr
  BY DEF Alloc, queueVars, handlerVars
<1>3. \A m \in heap : msg'[m] = msg[m]
  BY <1>1 DEF Inv, TypeOK
<1>4. \A i \in DOMAIN order : order[i] \in heap
  BY ListedTexts
<1>5. handler \in {"unlock", "process", "free"} => node_ptr \in heap
  BY DEF Inv, HandlesLiveNode
<1> QED BY <1>2, <1>3, <1>4, <1>5 DEF waiting, inHand, Texts

\* Linking a node puts its text behind the others.
LEMMA LinkAbstract == ASSUME Inv, Link PROVE \E m \in Data : MQ!Put(m)
<1>1. /\ msg_node_ptr \in Node /\ msg[msg_node_ptr] \in Data
      /\ order' = Append(order, msg_node_ptr)
  BY LinkExtends DEF Inv, NodesAccounted, TypeOK
<1>2. msg' = msg /\ inHand' = inHand
  BY DEF Link, handlerVars, inHand
<1>3. waiting' = Append(waiting, msg[msg_node_ptr])
  BY <1>1, <1>2, ListedTexts, TextsPushBack DEF waiting, Texts
<1> QED BY <1>1, <1>2, <1>3 DEF MQ!Put, waiting, inHand

\* iothubMsgDeQ takes the front message into the handler's hands.
LEMMA DeqAbstract == ASSUME Inv, Deq PROVE MQ!Take
<1>1. node_ptr' = Head(order) /\ order # <<>> /\ order' = Tail(order)
  BY DeqRemoves
<1>2. handler = "deq" /\ handler' = "unlock" /\ msg' = msg
  BY DEF Deq, HandlerGoes, heapVars
<1>3. /\ waiting # <<>> /\ Head(waiting) = msg[Head(order)]
      /\ Texts(Tail(order), msg) = Tail(waiting)
  BY <1>1, ListedTexts, TextsPopFront DEF waiting
<1>4. inHand = NULL /\ inHand' = Head(waiting) /\ waiting' = Tail(waiting)
  BY <1>1, <1>2, <1>3 DEF inHand, waiting
<1> QED BY <1>3, <1>4 DEF MQ!Take, waiting, inHand

\* free ends the work on the message.
LEMMA FreeAbstract == ASSUME Inv, Free PROVE MQ!Done
<1>1. /\ handler = "free" /\ handler' = "test" /\ order' = order
      /\ msg' = [n \in Node |-> IF n = node_ptr THEN NULL ELSE msg[n]]
  BY DEF Free, HandlerGoes, queueVars
<1>2. node_ptr \in heap /\ node_ptr \in Node /\ node_ptr \notin Listed
  BY <1>1 DEF Inv, HandlesLiveNode, NodesAccounted, Handling, TypeOK
<1>3. inHand # NULL /\ inHand' = NULL
  BY <1>1, <1>2 DEF inHand, Inv, NodesAccounted
<1>4. \A i \in DOMAIN order : msg'[order[i]] = msg[order[i]]
  BY <1>1, <1>2 DEF Listed, Range, Inv, TypeOK
<1>5. waiting' = waiting
  BY <1>1, <1>4 DEF waiting, Texts
<1> QED BY <1>3, <1>5 DEF MQ!Done, waiting, inHand

\* Every step of the two threads is a step of the queue of messages, or
\* leaves that queue alone.
LEMMA NextAbstract == Inv /\ [Next]_vars => [MQ!Next]_MQ!vars
<1> SUFFICES ASSUME Inv, [Next]_vars PROVE MQ!Next \/ UNCHANGED <<waiting, inHand>>
  BY DEF MQ!vars, waiting, inHand
<1> USE DEF MainGoes, HandlerGoes, heapVars, queueVars, mainVars, handlerVars
<1>1. CASE HubMessage
  BY <1>1, AllocAbstract DEF HubMessage
<1>2. CASE MainStep
  <2>1. CASE Link
    BY <2>1, LinkAbstract DEF MQ!Next
  <2>2. CASE LockQueue \/ UnlockQueue \/ Log
    BY <2>2, QuietAbstract DEF LockQueue, UnlockQueue, Log
  <2> QED BY <1>2, <2>1, <2>2 DEF MainStep
<1>3. CASE HandlerStep
  <2>1. CASE Deq
    BY <2>1, DeqAbstract DEF MQ!Next
  <2>2. CASE Free
    BY <2>2, FreeAbstract DEF MQ!Next
  <2>3. CASE TestHead \/ SleepOver \/ DeqLock \/ DeqUnlock \/ Process
    BY <2>3, QuietAbstract DEF TestHead, SleepOver, DeqLock, DeqUnlock, Process
  <2> QED BY <1>3, <2>1, <2>2, <2>3 DEF HandlerStep
<1>4. CASE UNCHANGED vars
  BY <1>4, QuietAbstract DEF vars
<1> QED BY <1>1, <1>2, <1>3, <1>4 DEF Next

\* The hub queue implements the queue of MessageQueue with nothing urgent: a
\* FIFO whose consumer handles one message at a time and each message once.
THEOREM Refinement == Spec => MQ!Spec
<1>1. Init => MQ!Init
  <2>1. Init => order = <<>> /\ DOMAIN order = {} /\ handler = "test"
    BY DEF Init
  <2> QED BY <2>1 DEF MQ!Init, Texts
<1>2. Inv /\ [Next]_vars => [MQ!Next]_MQ!vars
  BY NextAbstract
<1> QED BY <1>1, <1>2, Invariance, PTL DEF Spec, MQ!Spec

=============================================================================
