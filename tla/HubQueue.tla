------------------------------ MODULE HubQueue ------------------------------
(***************************************************************************)
(* The IoT hub message queue of mqtt.c.                                    *)
(*                                                                         *)
(* The main thread, inside MQTTYield, runs handleMsgFromIoThub for every   *)
(* message of the hub: iothubMsgEnQ copies it into a heap node and links   *)
(* that at the tail under hubmsg_mutex, then logs the node.  The handler   *)
(* thread polls the head without the mutex, unlinks the first node under   *)
(* it, processes the message and frees the node.                           *)
(*                                                                         *)
(* As in WsClient, the stores made while the mutex is held are one step:   *)
(* p_hubmsg_q_head alone is read without it.                               *)
(***************************************************************************)
EXTENDS LinkedList

CONSTANTS MainThread, HandlerThread,
          Node,     \* addresses malloc can return for an iothubmsg_node
          Data,     \* message texts
          NULL

ASSUME ConstantsAssumption ==
  /\ MainThread # HandlerThread
  /\ NULL \notin {MainThread, HandlerThread} \cup Node \cup Data

VARIABLES
  heap,             \* allocated nodes
  next,             \* node -> next field
  msg,              \* node -> msg field; NULL in a freed node
  p_hubmsg_q_head,
  p_hubmsg_q_tail,
  hubmsg_mutex,     \* the thread that holds it, or NULL
  main,             \* where the main thread is in handleMsgFromIoThub
  msg_node_ptr,     \* local of iothubMsgEnQ
  handler,          \* where the handler thread is
  node_ptr,         \* local of iot_msg_handler_thread: initially indeterminate, not reset
  order             \* history: the linked nodes, front first

heapVars  == <<heap, next, msg>>
queueVars == <<p_hubmsg_q_head, p_hubmsg_q_tail, order>>
mainVars  == <<main, msg_node_ptr>>
handlerVars == <<handler, node_ptr>>

vars == <<heapVars, queueVars, hubmsg_mutex, mainVars, handlerVars>>

Init ==
  /\ heap = {}
  /\ next = [n \in Node |-> NULL]
  /\ msg = [n \in Node |-> NULL]
  /\ p_hubmsg_q_head = NULL
  /\ p_hubmsg_q_tail = NULL
  /\ order = <<>>
  /\ hubmsg_mutex = NULL
  /\ main = "idle"
  /\ msg_node_ptr = NULL
  /\ handler = "test"
  /\ node_ptr \in Node \cup {NULL}

-----------------------------------------------------------------------------
(* handleMsgFromIoThub and iothubMsgEnQ, on the main thread.               *)

MainGoes(from, to) == main = from /\ main' = to

\* Both mallocs succeed and the new node is filled in.
Alloc ==
  /\ MainGoes("idle", "lock")
  /\ \E n \in Node \ heap, d \in Data :
       /\ heap' = heap \cup {n}
       /\ msg' = [msg EXCEPT ![n] = d]
       /\ next' = [next EXCEPT ![n] = NULL]
       /\ msg_node_ptr' = n
  /\ UNCHANGED <<queueVars, hubmsg_mutex, handlerVars>>

LockQueue ==
  /\ MainGoes("lock", "link")
  /\ hubmsg_mutex = NULL
  /\ hubmsg_mutex' = MainThread
  /\ UNCHANGED <<msg_node_ptr, heapVars, queueVars, handlerVars>>

\* Mutant of Link: the new node goes in front, as in wsclient.c's from_head branch.
LinkInFront ==
  /\ MainGoes("link", "unlock")
  /\ next' = [next EXCEPT ![msg_node_ptr] = p_hubmsg_q_head]
  /\ p_hubmsg_q_tail' = IF p_hubmsg_q_head = NULL THEN msg_node_ptr ELSE p_hubmsg_q_tail
  /\ p_hubmsg_q_head' = msg_node_ptr
  /\ order' = <<msg_node_ptr>> \o order
  /\ UNCHANGED <<msg_node_ptr, heap, msg, hubmsg_mutex, handlerVars>>

\* Mutant of Link: the old tail is not chained to the new node.
LinkUnchained ==
  /\ MainGoes("link", "unlock")
  /\ p_hubmsg_q_head' = IF p_hubmsg_q_head = NULL THEN msg_node_ptr ELSE p_hubmsg_q_head
  /\ p_hubmsg_q_tail' = msg_node_ptr
  /\ order' = Append(order, msg_node_ptr)
  /\ UNCHANGED <<msg_node_ptr, heapVars, hubmsg_mutex, handlerVars>>

Link ==
  /\ MainGoes("link", "unlock")
  /\ p_hubmsg_q_head' = IF p_hubmsg_q_head = NULL THEN msg_node_ptr ELSE p_hubmsg_q_head
  /\ next' = [n \in Node |-> IF n = p_hubmsg_q_tail THEN msg_node_ptr ELSE next[n]]
  /\ p_hubmsg_q_tail' = msg_node_ptr
  /\ order' = Append(order, msg_node_ptr)
  /\ UNCHANGED <<msg_node_ptr, heap, msg, hubmsg_mutex, handlerVars>>

UnlockQueue ==
  /\ MainGoes("unlock", "log")
  /\ hubmsg_mutex' = NULL
  /\ UNCHANGED <<msg_node_ptr, heapVars, queueVars, handlerVars>>

\* LOG_DEBUG reads msg_node_ptr->msg, whatever the log level.
Log ==
  /\ MainGoes("log", "idle")
  /\ msg_node_ptr' = NULL
  /\ UNCHANGED <<heapVars, queueVars, hubmsg_mutex, handlerVars>>

-----------------------------------------------------------------------------
(* iot_msg_handler_thread and iothubMsgDeQ.                                *)

HandlerGoes(from, to) == handler = from /\ handler' = to

\* The head is read without the mutex.
TestHead ==
  /\ HandlerGoes("test", IF p_hubmsg_q_head = NULL THEN "sleep" ELSE "lock")
  /\ UNCHANGED <<node_ptr, heapVars, queueVars, hubmsg_mutex, mainVars>>

\* poll(0, 0, 20)
SleepOver ==
  /\ HandlerGoes("sleep", "test")
  /\ UNCHANGED <<node_ptr, heapVars, queueVars, hubmsg_mutex, mainVars>>

DeqLock ==
  /\ HandlerGoes("lock", "deq")
  /\ hubmsg_mutex = NULL
  /\ hubmsg_mutex' = HandlerThread
  /\ UNCHANGED <<node_ptr, heapVars, queueVars, mainVars>>

\* Mutant of Deq: the last node leaves and the tail still points to it.
DeqKeepsTail ==
  /\ HandlerGoes("deq", "unlock")
  /\ IF p_hubmsg_q_head = NULL
     THEN UNCHANGED <<node_ptr, queueVars>>
     ELSE /\ node_ptr' = p_hubmsg_q_head
          /\ order' = Tail(order)
          /\ p_hubmsg_q_head' = next[p_hubmsg_q_head]
          /\ UNCHANGED p_hubmsg_q_tail
  /\ UNCHANGED <<heapVars, hubmsg_mutex, mainVars>>

\* On an empty queue node_ptr keeps the node of the round before.
Deq ==
  /\ HandlerGoes("deq", "unlock")
  /\ IF p_hubmsg_q_head = NULL
     THEN UNCHANGED <<node_ptr, queueVars>>
     ELSE /\ node_ptr' = p_hubmsg_q_head
          /\ order' = Tail(order)
          /\ IF p_hubmsg_q_head = p_hubmsg_q_tail
             THEN p_hubmsg_q_head' = NULL /\ p_hubmsg_q_tail' = NULL
             ELSE p_hubmsg_q_head' = next[p_hubmsg_q_head] /\ UNCHANGED p_hubmsg_q_tail
  /\ UNCHANGED <<heapVars, hubmsg_mutex, mainVars>>

DeqUnlock ==
  /\ HandlerGoes("unlock", "process")
  /\ hubmsg_mutex' = NULL
  /\ UNCHANGED <<node_ptr, heapVars, queueVars, mainVars>>

\* process_single_iot_hub_msg touches nothing of this module's state.
Process ==
  /\ HandlerGoes("process", "free")
  /\ UNCHANGED <<node_ptr, heapVars, queueVars, hubmsg_mutex, mainVars>>

Free ==
  /\ HandlerGoes("free", "test")
  /\ heap' = heap \ {node_ptr}
  /\ msg' = [n \in Node |-> IF n = node_ptr THEN NULL ELSE msg[n]]
  /\ next' = [n \in Node |-> IF n = node_ptr THEN NULL ELSE next[n]]
  /\ UNCHANGED <<node_ptr, queueVars, hubmsg_mutex, mainVars>>

-----------------------------------------------------------------------------

HubMessage == Alloc     \* the network decides when; a failed malloc drops the message
MainStep == LockQueue \/ Link \/ UnlockQueue \/ Log
HandlerStep == TestHead \/ SleepOver \/ DeqLock \/ Deq \/ DeqUnlock \/ Process \/ Free

Next == HubMessage \/ MainStep \/ HandlerStep

Spec == Init /\ [][Next]_vars

\* Both threads are scheduled, and a mutex released again and again is obtained.
FairSpec ==
  /\ Spec
  /\ WF_vars(MainStep) /\ SF_vars(LockQueue)
  /\ WF_vars(HandlerStep) /\ SF_vars(DeqLock)

-----------------------------------------------------------------------------
(* Type invariant.                                                         *)

TypeOK ==
  /\ heap \subseteq Node
  /\ next \in [Node -> Node \cup {NULL}]
  /\ msg \in [Node -> Data \cup {NULL}]
  /\ p_hubmsg_q_head \in Node \cup {NULL}
  /\ p_hubmsg_q_tail \in Node \cup {NULL}
  /\ order \in Seq(Node)
  /\ hubmsg_mutex \in {MainThread, HandlerThread, NULL}
  /\ main \in {"idle", "lock", "link", "unlock", "log"}
  /\ msg_node_ptr \in Node \cup {NULL}
  /\ handler \in {"test", "sleep", "lock", "deq", "unlock", "process", "free"}
  /\ node_ptr \in Node \cup {NULL}

-----------------------------------------------------------------------------
(* Safety.                                                                 *)

\* Head, tail and the next fields spell one list without repetition after
\* every critical section of iothubMsgEnQ (90-99) and iothubMsgDeQ (118-127).
ListIntact == Spells(order, p_hubmsg_q_head, p_hubmsg_q_tail, next, NULL)

Listed   == Range(order)
Pending  == IF main \in {"lock", "link"} THEN {msg_node_ptr} ELSE {}
Handling == IF handler \in {"unlock", "process", "free"} THEN {node_ptr} ELSE {}

\* Every allocated node has exactly one owner: the list, the main thread that
\* is about to link it, or the handler that will free it.  Nothing leaks and
\* nothing is freed twice.
NodesAccounted ==
  /\ heap = Listed \cup Pending \cup Handling
  /\ Listed \cap Pending = {}
  /\ Listed \cap Handling = {}
  /\ Pending \cap Handling = {}
  /\ \A n \in Node : msg[n] # NULL <=> n \in heap

\* The handler tests the head without the mutex and trusts the answer: node_ptr,
\* which is neither initialised nor reset, is never one that was left over.
HandlesLiveNode ==
  handler \in {"unlock", "process", "free"} => node_ptr \in heap

\* mqtt.c:52, "mutex to operate the iot hub msg queue": a node is read by the
\* thread that may, here by the log line of iothubMsgEnQ (104).
LogReadsLiveNode == main = "log" => msg_node_ptr \in heap

\* A message of the hub that is queued is processed, however many come after it.
EveryMessageProcessed ==
  \A n \in Node : n \in Listed ~> (handler = "process" /\ node_ptr = n)

-----------------------------------------------------------------------------
(* The inductive invariant.                                                *)

\* The mutex is held exactly inside the two critical sections.
MutexInv ==
  /\ hubmsg_mutex = MainThread <=> main \in {"link", "unlock"}
  /\ hubmsg_mutex = HandlerThread <=> handler \in {"deq", "unlock"}

\* The main thread's node is a node; between the handler's test of the head
\* and iothubMsgDeQ nobody else can empty the list.
ThreadInv ==
  /\ main # "idle" => msg_node_ptr # NULL
  /\ main \in {"lock", "link"} => next[msg_node_ptr] = NULL
  /\ handler \in {"lock", "deq"} => order # <<>>

Inv ==
  /\ TypeOK
  /\ MutexInv
  /\ ThreadInv
  /\ ListIntact
  /\ NodesAccounted
  /\ HandlesLiveNode

-----------------------------------------------------------------------------
(* The queue of nodes implements the queue of messages, with nothing urgent. *)

MQ == INSTANCE MessageQueue WITH
        Msg    <- Data,
        Urgent <- {},
        NoMsg  <- NULL,
        queue  <- Texts(order, msg),
        taken  <- IF handler \in {"unlock", "process", "free"} THEN msg[node_ptr] ELSE NULL

\* The hub's messages are processed one at a time, each once, in the order of
\* arrival, and the handler is never idle for ever while one waits.
ImplementsQueue == MQ!FairSpec

=============================================================================
