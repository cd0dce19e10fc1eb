------------------------------ MODULE WsClient ------------------------------
(***************************************************************************)
(* wsclient.c: the websocket client of edgebox.                            *)
(*                                                                         *)
(* Threads call eb_ws_write, which links a heap node into a singly linked  *)
(* list under write_mutex and asks the websocket library for a "writeable" *)
(* event.  The websocket thread (ws_evloop_run) connects, sleeps in        *)
(* lws_service, and in the event's callback reads the list's head without  *)
(* the mutex, unlinks the first node under it, writes the message, frees   *)
(* the node, waits for the radio and asks for the next event.  The main    *)
(* thread waits in init_websocket until the connection handle exists; only *)
(* then are the writing threads created.                                   *)
(*                                                                         *)
(* The stores a thread makes while it holds write_mutex are one step: the  *)
(* only word another thread reads without the mutex is p_msg_q_head, and   *)
(* each critical section stores it at most once.                           *)
(*                                                                         *)
(* libwebsockets is external and modelled by its contract as wsclient.c    *)
(* uses it.  A request made by a thread that is not the service thread     *)
(* takes effect when the service thread next builds its poll set, because  *)
(* ws_callback does not implement LWS_CALLBACK_GET_THREAD_ID.              *)
(***************************************************************************)
EXTENDS LinkedList

CONSTANTS
  HubWriter,      \* threads that write with priority 1 (iot_msg_handler_thread)
  StatusWriter,   \* threads that write with priority 0 (status_query_thread)
  WsThread,       \* the websocket thread
  Node,           \* addresses malloc can return for an eb_ws_msg
  Data,           \* message texts
  NULL,
  Wsi,            \* the connection handle lws_client_connect_via_info returns
  MaxWait         \* polls init_websocket makes before it gives up

ASSUME ConstantsAssumption ==
  /\ HubWriter \cap StatusWriter = {}
  /\ WsThread \notin HubWriter \cup StatusWriter
  /\ NULL \notin HubWriter \cup StatusWriter \cup {WsThread, Wsi} \cup Node
  /\ NULL \notin [priority : {0, 1}, data : Data]
  /\ MaxWait \in Nat

Writer == HubWriter \cup StatusWriter

Msg == [priority : {0, 1}, data : Data]

\* The priority that the callers in thread t give eb_ws_write.
Priority(t) == IF t \in HubWriter THEN 1 ELSE 0

VARIABLES
  heap,           \* allocated nodes
  next,           \* node -> next field
  msg,            \* node -> msg field; NULL in a freed node
  p_msg_q_head,
  p_msg_q_tail,
  write_mutex,    \* the thread that holds it, or NULL
  pc,             \* writer -> where it is in eb_ws_write
  msg_node_ptr,   \* writer -> local of eb_ws_msgEnQ; NULL once the node is linked
  ws,             \* where the websocket thread is
  msg_node,       \* local of ws_callback; NULL once the node is freed
  edgebox_ws,     \* NULL or Wsi
  link,           \* "none", "connecting", "established", "closed"
  pollout,        \* a writeable event has been requested and not delivered
  armed,          \* pollout as it was when lws_service built its poll set
  main,           \* "wait" in init_websocket, "run" after it, "exited"
  cnt,            \* local of init_websocket
  air,            \* "busy" for 3.5 s after a write, then "clear"
  order           \* history: the linked nodes, front first

queueVars == <<p_msg_q_head, p_msg_q_tail, order>>
heapVars  == <<heap, next, msg>>
linkVars  == <<edgebox_ws, link, pollout, armed>>
mainVars  == <<main, cnt>>
wsVars    == <<ws, msg_node, air>>
writerVars == <<pc, msg_node_ptr>>

vars == <<heapVars, queueVars, write_mutex, writerVars, wsVars, linkVars, mainVars>>

Init ==
  /\ heap = {}
  /\ next = [n \in Node |-> NULL]
  /\ msg = [n \in Node |-> NULL]
  /\ p_msg_q_head = NULL
  /\ p_msg_q_tail = NULL
  /\ order = <<>>
  /\ write_mutex = NULL
  /\ pc = [t \in Writer |-> "idle"]
  /\ msg_node_ptr = [t \in Writer |-> NULL]
  /\ ws = "loop"
  /\ msg_node = NULL
  /\ air = "clear"
  /\ edgebox_ws = NULL
  /\ link = "none"
  /\ pollout = FALSE
  /\ armed = FALSE
  /\ main = "wait"
  /\ cnt = 0

-----------------------------------------------------------------------------
(* init_websocket, on the main thread, and main's answer to its result.    *)

InitDone ==
  /\ main = "wait"
  /\ edgebox_ws # NULL
  /\ main' = "run"
  /\ UNCHANGED <<cnt, heapVars, queueVars, write_mutex, writerVars, wsVars, linkVars>>

\* Mutant of InitPoll: giving up is not reported as a failure.
InitPollGoesOn ==
  /\ main = "wait"
  /\ edgebox_ws = NULL
  /\ cnt' = cnt + 1
  /\ main' = IF cnt' > MaxWait THEN "run" ELSE "wait"
  /\ UNCHANGED <<heapVars, queueVars, write_mutex, writerVars, wsVars, linkVars>>

InitPoll ==
  /\ main = "wait"
  /\ edgebox_ws = NULL
  /\ cnt' = cnt + 1
  /\ main' = IF cnt' > MaxWait THEN "exited" ELSE "wait"
  /\ UNCHANGED <<heapVars, queueVars, write_mutex, writerVars, wsVars, linkVars>>

-----------------------------------------------------------------------------
(* eb_ws_write and eb_ws_msgEnQ, on thread t.                              *)

WriterGoes(t, from, to) ==
  /\ main = "run"
  /\ pc[t] = from
  /\ pc' = [pc EXCEPT ![t] = to]

\* Both mallocs succeed and the new node is filled in.
Alloc(t) ==
  /\ WriterGoes(t, "idle", "lock")
  /\ \E n \in Node \ heap, d \in Data :
       /\ heap' = heap \cup {n}
       /\ msg' = [msg EXCEPT ![n] = [priority |-> Priority(t), data |-> d]]
       /\ msg_node_ptr' = [msg_node_ptr EXCEPT ![t] = n]
  /\ UNCHANGED <<next, queueVars, write_mutex, wsVars, linkVars, mainVars>>

\* One of the mallocs fails: the message is dropped, the request still made.
AllocFails(t) ==
  /\ WriterGoes(t, "idle", "request")
  /\ UNCHANGED <<msg_node_ptr, heapVars, queueVars, write_mutex, wsVars, linkVars, mainVars>>

LockQueue(t) ==
  /\ WriterGoes(t, "lock", "link")
  /\ write_mutex = NULL
  /\ write_mutex' = t
  /\ UNCHANGED <<msg_node_ptr, heapVars, queueVars, wsVars, linkVars, mainVars>>

\* Mutant of LinkAtHead: the first node does not become the tail.
LinkAtHeadOnly(n) ==
  /\ next' = [next EXCEPT ![n] = p_msg_q_head]
  /\ p_msg_q_head' = n
  /\ order' = <<n>> \o order
  /\ UNCHANGED p_msg_q_tail

\* The stores of the from_head branch.
LinkAtHead(n) ==
  /\ next' = [next EXCEPT ![n] = p_msg_q_head]
  /\ p_msg_q_tail' = IF p_msg_q_head = NULL THEN n ELSE p_msg_q_tail
  /\ p_msg_q_head' = n
  /\ order' = <<n>> \o order

\* Mutant of LinkAtTail: the old tail is not chained to the new node.
LinkAtTailUnchained(n) ==
  /\ p_msg_q_head' = IF p_msg_q_head = NULL THEN n ELSE p_msg_q_head
  /\ next' = [next EXCEPT ![n] = NULL]
  /\ p_msg_q_tail' = n
  /\ order' = Append(order, n)

\* The stores of the other branch.
LinkAtTail(n) ==
  /\ p_msg_q_head' = IF p_msg_q_head = NULL THEN n ELSE p_msg_q_head
  /\ next' = [m \in Node |-> IF m = n THEN NULL
                             ELSE IF m = p_msg_q_tail THEN n
                             ELSE next[m]]
  /\ p_msg_q_tail' = n
  /\ order' = Append(order, n)

\* Mutant of Link: the priority is not looked at.
LinkWithoutPriority(t) ==
  /\ WriterGoes(t, "link", "unlock")
  /\ LinkAtTail(msg_node_ptr[t])
  /\ msg_node_ptr' = [msg_node_ptr EXCEPT ![t] = NULL]
  /\ UNCHANGED <<heap, msg, write_mutex, wsVars, linkVars, mainVars>>

Link(t) ==
  /\ WriterGoes(t, "link", "unlock")
  /\ IF Priority(t) = 1 THEN LinkAtHead(msg_node_ptr[t])
                        ELSE LinkAtTail(msg_node_ptr[t])
  /\ msg_node_ptr' = [msg_node_ptr EXCEPT ![t] = NULL]
  /\ UNCHANGED <<heap, msg, write_mutex, wsVars, linkVars, mainVars>>

UnlockQueue(t) ==
  /\ WriterGoes(t, "unlock", "request")
  /\ write_mutex' = NULL
  /\ UNCHANGED <<msg_node_ptr, heapVars, queueVars, wsVars, linkVars, mainVars>>

\* What lws_callback_on_writable may leave behind: on an established
\* connection the request is recorded; while connecting the library uses the
\* same poll bit itself, so the request may be lost; on a closed one (where
\* the handle dangles) there is nothing left to be called back.
Requested ==
  CASE link = "established" -> {TRUE}
    [] link = "connecting"  -> BOOLEAN
    [] OTHER                -> {pollout}

RequestWriteable(t) ==
  /\ WriterGoes(t, "request", "idle")
  /\ pollout' \in Requested
  /\ UNCHANGED <<msg_node_ptr, heapVars, queueVars, write_mutex, wsVars,
                 edgebox_ws, link, armed, mainVars>>

WriterStep(t) ==
  \/ Alloc(t)
  \/ AllocFails(t)
  \/ LockQueue(t)
  \/ Link(t)
  \/ UnlockQueue(t)
  \/ RequestWriteable(t)

-----------------------------------------------------------------------------
(* ws_evloop_run, ws_callback and eb_ws_msgDeQ, on the websocket thread.   *)

WsGoes(from, to) ==
  /\ main # "exited"
  /\ ws = from
  /\ ws' = to

\* The handle is created once: nothing ever sets edgebox_ws back to NULL.
Connect ==
  /\ WsGoes("loop", "service")
  /\ \/ /\ edgebox_ws = NULL
        /\ edgebox_ws' = Wsi
        /\ link' = "connecting"
     \/ UNCHANGED <<edgebox_ws, link>>
  /\ UNCHANGED <<pollout, armed, msg_node, air, heapVars, queueVars, write_mutex,
                 writerVars, mainVars>>

\* lws_service builds its poll set and sleeps in it.
Sleep ==
  /\ WsGoes("service", "poll")
  /\ armed' = pollout
  /\ UNCHANGED <<edgebox_ws, link, pollout, msg_node, air, heapVars, queueVars,
                 write_mutex, writerVars, mainVars>>

\* Mutant of Established: no writeable event is requested for what waits already.
EstablishedQuietly ==
  /\ WsGoes("poll", "loop")
  /\ link = "connecting"
  /\ link' = "established"
  /\ UNCHANGED <<edgebox_ws, pollout, armed, msg_node, air, heapVars, queueVars,
                 write_mutex, writerVars, mainVars>>

\* LWS_CALLBACK_CLIENT_ESTABLISHED
Established ==
  /\ WsGoes("poll", "loop")
  /\ link = "connecting"
  /\ link' = "established"
  /\ pollout' = TRUE
  /\ UNCHANGED <<edgebox_ws, armed, msg_node, air, heapVars, queueVars, write_mutex,
                 writerVars, mainVars>>

\* LWS_CALLBACK_CLOSED and LWS_CALLBACK_CLIENT_CONNECTION_ERROR: nothing is done.
Closed ==
  /\ WsGoes("poll", "loop")
  /\ link \in {"connecting", "established"}
  /\ link' = "closed"
  /\ pollout' = FALSE
  /\ UNCHANGED <<edgebox_ws, armed, msg_node, air, heapVars, queueVars, write_mutex,
                 writerVars, mainVars>>

\* LWS_CALLBACK_CLIENT_RECEIVE: a frame from the server ends the sleep.  What
\* ws_receive_msg does with it touches none of this module's state.
Receive ==
  /\ WsGoes("poll", "loop")
  /\ link = "established"
  /\ UNCHANGED <<msg_node, air, linkVars, heapVars, queueVars, write_mutex,
                 writerVars, mainVars>>

\* lws_service returns without an event of this connection.
Wake ==
  /\ WsGoes("poll", "loop")
  /\ UNCHANGED <<msg_node, air, linkVars, heapVars, queueVars, write_mutex,
                 writerVars, mainVars>>

\* LWS_CALLBACK_CLIENT_WRITEABLE: delivered only for a request that was in the
\* poll set; a request made since is merged with it.
Writeable ==
  /\ WsGoes("poll", "test")
  /\ link = "established"
  /\ armed
  /\ pollout' = FALSE
  /\ armed' = FALSE
  /\ UNCHANGED <<edgebox_ws, link, msg_node, air, heapVars, queueVars, write_mutex,
                 writerVars, mainVars>>

\* Mutant of TestHead: eb_ws_msgDeQ is called without the test.
NoTestHead ==
  /\ WsGoes("test", "deqLock")
  /\ UNCHANGED <<msg_node, air, linkVars, heapVars, queueVars, write_mutex,
                 writerVars, mainVars>>

\* The head is read without the mutex.
TestHead ==
  /\ WsGoes("test", IF p_msg_q_head = NULL THEN "loop" ELSE "deqLock")
  /\ UNCHANGED <<msg_node, air, linkVars, heapVars, queueVars, write_mutex,
                 writerVars, mainVars>>

DeqLock ==
  /\ WsGoes("deqLock", "deq")
  /\ write_mutex = NULL
  /\ write_mutex' = WsThread
  /\ UNCHANGED <<msg_node, air, linkVars, heapVars, queueVars, writerVars, mainVars>>

\* On an empty list msg_node keeps whatever its stack slot held.
Deq ==
  /\ WsGoes("deq", "deqUnlock")
  /\ msg_node' \in IF p_msg_q_head = NULL THEN Node \cup {NULL} ELSE {p_msg_q_head}
  /\ IF p_msg_q_head = NULL
     THEN UNCHANGED queueVars
     ELSE /\ order' = Tail(order)
          /\ IF p_msg_q_head = p_msg_q_tail
             THEN p_msg_q_head' = NULL /\ p_msg_q_tail' = NULL
             ELSE p_msg_q_head' = next[p_msg_q_head] /\ UNCHANGED p_msg_q_tail
  /\ UNCHANGED <<air, linkVars, heapVars, write_mutex, writerVars, mainVars>>

DeqUnlock ==
  /\ WsGoes("deqUnlock", "write")
  /\ write_mutex' = NULL
  /\ UNCHANGED <<msg_node, air, linkVars, heapVars, queueVars, writerVars, mainVars>>

\* lws_write: the message is on its way to the radio, or lost.  The result is not
\* looked at.
Write ==
  /\ WsGoes("write", "free")
  /\ air' \in {"busy", "clear"}
  /\ UNCHANGED <<msg_node, linkVars, heapVars, queueVars, write_mutex, writerVars, mainVars>>

Free ==
  /\ WsGoes("free", "wait")
  /\ heap' = heap \ {msg_node}
  /\ msg' = [n \in Node |-> IF n = msg_node THEN NULL ELSE msg[n]]
  /\ next' = [n \in Node |-> IF n = msg_node THEN NULL ELSE next[n]]
  /\ msg_node' = NULL
  /\ UNCHANGED <<air, linkVars, queueVars, write_mutex, writerVars, mainVars>>

\* Mutant of WaitForAir: the wait is left out.
NoWait ==
  /\ WsGoes("wait", "rearm")
  /\ UNCHANGED <<msg_node, air, linkVars, heapVars, queueVars, write_mutex,
                 writerVars, mainVars>>

\* poll(0, 0, 3500) returns when the time is over.
WaitForAir ==
  /\ WsGoes("wait", "rearm")
  /\ air = "clear"
  /\ UNCHANGED <<msg_node, air, linkVars, heapVars, queueVars, write_mutex,
                 writerVars, mainVars>>

\* Mutant of Rearm: the next event is not requested.
NoRearm ==
  /\ WsGoes("rearm", "loop")
  /\ UNCHANGED <<msg_node, air, linkVars, heapVars, queueVars, write_mutex,
                 writerVars, mainVars>>

Rearm ==
  /\ WsGoes("rearm", "loop")
  /\ pollout' \in Requested
  /\ UNCHANGED <<edgebox_ws, link, armed, msg_node, air, heapVars, queueVars,
                 write_mutex, writerVars, mainVars>>

WsStep ==
  \/ Connect \/ Sleep \/ Writeable \/ TestHead
  \/ DeqLock \/ Deq \/ DeqUnlock \/ Write \/ Free \/ WaitForAir \/ Rearm

\* 3.5 s after a write the radio is free again.
AirClears ==
  /\ main # "exited"
  /\ air = "busy"
  /\ air' = "clear"
  /\ UNCHANGED <<ws, msg_node, linkVars, heapVars, queueVars, write_mutex,
                 writerVars, mainVars>>

\* What the network and the library decide.
NetworkStep == Established \/ Closed \/ Receive \/ Wake \/ AirClears

\* After main returns -1 the process is gone.
Exited == main = "exited" /\ UNCHANGED vars

Next ==
  \/ InitDone
  \/ InitPoll
  \/ \E t \in Writer : WriterStep(t)
  \/ WsStep
  \/ NetworkStep
  \/ Exited

Spec == Init /\ [][Next]_vars

-----------------------------------------------------------------------------
(* Fairness.  Threads are scheduled; a thread that has begun eb_ws_write    *)
(* finishes it; a mutex released again and again is obtained; the radio     *)
(* becomes free; a request that is in the poll set is answered.             *)

Scheduling ==
  /\ WF_vars(InitDone)
  /\ WF_vars(WsStep)
  /\ SF_vars(DeqLock)
  /\ SF_vars(Writeable)
  /\ WF_vars(AirClears)
  /\ \A t \in Writer : /\ SF_vars(LockQueue(t))
                       /\ WF_vars(Link(t))
                       /\ WF_vars(UnlockQueue(t))
                       /\ WF_vars(RequestWriteable(t))

\* The code's own fairness, and nothing of the network's.
FairSpec == Spec /\ Scheduling

\* In addition the server keeps sending frames, which end the sleep in
\* lws_service.  The code does not ensure this: LoRa nodes that answer do.
TalkingServerSpec == FairSpec /\ WF_vars(Receive)

-----------------------------------------------------------------------------
(* Type invariant.                                                         *)

TypeOK ==
  /\ heap \subseteq Node
  /\ next \in [Node -> Node \cup {NULL}]
  /\ msg \in [Node -> Msg \cup {NULL}]
  /\ p_msg_q_head \in Node \cup {NULL}
  /\ p_msg_q_tail \in Node \cup {NULL}
  /\ order \in Seq(Node)
  /\ write_mutex \in Writer \cup {WsThread, NULL}
  /\ pc \in [Writer -> {"idle", "lock", "link", "unlock", "request"}]
  /\ msg_node_ptr \in [Writer -> Node \cup {NULL}]
  /\ ws \in {"loop", "service", "poll", "test", "deqLock", "deq", "deqUnlock",
             "write", "free", "wait", "rearm"}
  /\ msg_node \in Node \cup {NULL}
  /\ air \in {"clear", "busy"}
  /\ edgebox_ws \in {NULL, Wsi}
  /\ link \in {"none", "connecting", "established", "closed"}
  /\ pollout \in BOOLEAN
  /\ armed \in BOOLEAN
  /\ main \in {"wait", "run", "exited"}
  /\ cnt \in 0 .. MaxWait + 1

-----------------------------------------------------------------------------
(* Safety.                                                                 *)

\* Whenever no thread is inside a critical section of eb_ws_msgEnQ or
\* eb_ws_msgDeQ, and indeed between any two steps, head, tail and the next
\* fields spell one list without repetition: wsclient.c:89-110 and 127-140
\* agree on what an empty list and a one-element list look like.
ListIntact == Spells(order, p_msg_q_head, p_msg_q_tail, next, NULL)

Listed  == Range(order)
Pending == {msg_node_ptr[t] : t \in Writer} \ {NULL}
Sending == {msg_node} \ {NULL}

\* Every allocated node has exactly one owner: the list, the one writer that
\* is about to link it, or the websocket thread that will free it.  No node
\* leaks, none is linked or freed twice, none is used after it was freed.
NodesAccounted ==
  /\ heap = Listed \cup Pending \cup Sending
  /\ Listed \cap Pending = {}
  /\ Listed \cap Sending = {}
  /\ Pending \cap Sending = {}
  /\ \A s, t \in Writer :
       s # t /\ msg_node_ptr[s] # NULL => msg_node_ptr[s] # msg_node_ptr[t]
  /\ \A n \in Node : msg[n] # NULL <=> n \in heap

\* The node that wsclient.c:284-289 reads, writes and frees is one that
\* eb_ws_msgDeQ stored in msg_node, though the head was tested (280) before
\* the mutex was taken and msg_node is not initialised (281).
SendsLiveNode ==
  ws \in {"deqUnlock", "write", "free"} => msg_node \in heap

\* A message that waits on an established connection has a writeable event
\* on its way: one is requested, or a writer that has linked a node is still
\* to request it, or the websocket thread is between the event and the next
\* request.  The head test without the mutex (280) loses no wakeup.
NoLostWakeup ==
  link = "established" /\ order # <<>> =>
    \/ pollout
    \/ \E t \in Writer : pc[t] \in {"unlock", "request"}
    \/ ws \notin {"loop", "service", "poll"}

\* eb_ws_write (326) passes a handle that exists, although it reads
\* edgebox_ws without any synchronisation: no writer runs before
\* init_websocket has seen it, and init_websocket does not give up and go on.
HandleBeforeUse ==
  \A t \in Writer : pc[t] # "idle" => edgebox_ws # NULL

\* wsclient.c:10-12, 291-292: a message is handed to the radio only when the
\* one before it has left the air, whoever asked for the event.
AirGap == ws \in {"test", "deqLock", "deq", "deqUnlock", "write"} => air = "clear"

\* wsclient.c:352, "Connect if we are not connected to the server.": the
\* loop does not go back to sleep without a connection to wait for.
SleepsConnected == ws = "service" => link # "closed"

\* wsclient.c:313-314: eb_ws_write returns at once and "the websocket thread
\* to loop the queue to send the message".  While the connection stands, a
\* waiting queue is served.
QueueDrains ==
  (link = "established" /\ order # <<>>) ~> (ws = "write" \/ link = "closed")

-----------------------------------------------------------------------------
(* The inductive invariant.  The properties above need to know in addition *)
(* who holds the mutex and the nodes at each program counter, that only    *)
(* the websocket thread empties the list, and how far the connection is.   *)

\* The mutex is held exactly inside the two critical sections.
MutexInv ==
  /\ \A t \in Writer : write_mutex = t <=> pc[t] \in {"link", "unlock"}
  /\ write_mutex = WsThread <=> ws \in {"deq", "deqUnlock"}

\* A writer holds a node from malloc to link, and the node bears its priority.
WriterInv ==
  \A t \in Writer :
    /\ msg_node_ptr[t] # NULL <=> pc[t] \in {"lock", "link"}
    /\ msg_node_ptr[t] # NULL => msg[msg_node_ptr[t]].priority = Priority(t)

\* The websocket thread holds a node from eb_ws_msgDeQ to free.  Between the
\* test of the head and eb_ws_msgDeQ nobody else can empty the list.
SenderInv ==
  /\ msg_node # NULL <=> ws \in {"deqUnlock", "write", "free"}
  /\ ws \in {"deqLock", "deq"} => order # <<>>

\* The handle exists from the first connect on, writers run only after that,
\* and the callback's writeable branch runs on an established connection.
LinkInv ==
  /\ edgebox_ws = NULL <=> link = "none"
  /\ main = "run" => edgebox_ws # NULL
  /\ main # "run" => \A t \in Writer : pc[t] = "idle"
  /\ main = "wait" => cnt <= MaxWait
  /\ ws \notin {"loop", "service", "poll"} => link = "established"

\* The radio is busy only between the write and the end of the wait.
AirInv == air = "busy" => ws \in {"free", "wait"}

Inv ==
  /\ TypeOK
  /\ MutexInv
  /\ WriterInv
  /\ SenderInv
  /\ LinkInv
  /\ AirInv
  /\ ListIntact
  /\ NodesAccounted
  /\ NoLostWakeup

-----------------------------------------------------------------------------
(* The queue of nodes implements the queue of messages.                    *)

MQ == INSTANCE MessageQueue WITH
        Urgent <- {m \in Msg : m.priority = 1},
        NoMsg  <- NULL,
        queue  <- Texts(order, msg),
        taken  <- IF ws \in {"deqUnlock", "write", "free"} THEN msg[msg_node] ELSE NULL

\* What waits is sent front first, commands of the hub before status
\* requests, each message once, and nothing is dropped on the way.
ImplementsQueue == MQ!Spec

\* No status request is in front of a hub command.
UrgentFirst == MQ!UrgentFirst

=============================================================================
