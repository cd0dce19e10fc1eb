------------------------------ MODULE Gateway ------------------------------
(***************************************************************************)
(* The way of a command through the gateway: from the IoT hub through the  *)
(* hub queue (mqtt.c), the handler thread and the switch list to the write *)
(* queue of the websocket thread (wsclient.c), which the status thread's   *)
(* queries share, and to the LoRa nodes.                                   *)
(*                                                                         *)
(* The two queues are MessageQueue, which HubQueue and WsClient implement. *)
(* The connection stays up here: WsClient has what happens without it.     *)
(***************************************************************************)
EXTENDS Naturals, Sequences, SequencesExt, FiniteSetsExt

CONSTANTS Switch,       \* the names in switch_list
          Stranger,     \* names that are not
          Value,        \* what a register can be set to
          NoNumber,     \* the value of a parameter that is no number
          Params,       \* the "params" of hub messages: sequences of parameters
          MaxMessages,  \* bound: messages of the hub
          MaxQueries,   \* bound: queries waiting at a time
          NoMsg

Param == [name : Switch \cup Stranger, value : Value \cup {NoNumber}]

ASSUME ConstantsAssumption ==
  /\ Params \subseteq Seq(Param)
  /\ MaxMessages \in Nat /\ MaxQueries \in Nat
  /\ Switch \cap Stranger = {} /\ NoNumber \notin Value

VARIABLES
  accepted,         \* history: the messages of the hub, first one first
  hubQueue,         \* the hub queue
  message,          \* the message that iot_msg_handler_thread works on, or NoMsg
  commands,         \* the rest of the list it goes through
  writeQueue,       \* the write queue
  writing,          \* the frame the websocket thread works on, or NoMsg
  written,          \* history: the command frames that went on the air
  held              \* switch -> the last value its PLC was sent

handlerVars == <<hubQueue, message, commands>>
radioVars == <<writeQueue, writing>>
vars == <<accepted, handlerVars, radioVars, written, held>>

\* A frame knows its message and its place there, which the code's does not.
Command == [id : 1 .. MaxMessages, at : Nat, name : Switch, value : Value]
Query == [id : {0}]

ASSUME NoMsgAssumption ==
  NoMsg \notin [id : 1 .. MaxMessages, params : Params] \cup Command \cup Query

Hub == INSTANCE MessageQueue WITH
         Msg <- [id : 1 .. MaxMessages, params : Params], Urgent <- {},
         queue <- hubQueue, taken <- message

Radio == INSTANCE MessageQueue WITH
           Msg <- Command \cup Query, Urgent <- Command,
           queue <- writeQueue, taken <- writing

Init ==
  /\ accepted = <<>>
  /\ Hub!Init /\ commands = <<>>
  /\ Radio!Init
  /\ written = <<>>
  /\ held = [s \in Switch |-> NoNumber]

-----------------------------------------------------------------------------

\* handleMsgFromIoThub: the message goes to the tail of the hub queue.
HubMessage(params) ==
  /\ Len(accepted) < MaxMessages
  /\ LET m == [id |-> Len(accepted) + 1, params |-> params]
     IN accepted' = Append(accepted, m) /\ Hub!Put(m)
  /\ UNCHANGED <<commands, radioVars, written, held>>

\* The value of a parameter; q->v is not initialised where it is no number.
ValuesOf(p) == IF p.value = NoNumber THEN Value ELSE {p.value}

Known(params) == {k \in DOMAIN params : params[k].name \in Switch}

\* The commands that a parameter may become.
CommandFor(m, at) ==
  {[id |-> m.id, at |-> at, name |-> m.params[at].name, value |-> v] : v \in ValuesOf(m.params[at])}

\* The commands of a message for the switches at these places.
CommandsAt(m, places) ==
  {cs \in [DOMAIN places -> UNION {CommandFor(m, at) : at \in ToSet(places)}] :
     \A k \in DOMAIN places : cs[k] \in CommandFor(m, places[k])}

\* The elements of a set of places, last one first.
Falling(S) ==
  {places \in [1 .. Cardinality(S) -> S] :
     /\ ToSet(places) = S
     /\ \A j, k \in DOMAIN places : j < k => places[j] > places[k]}

\* Mutant of ListOf: switches are added at the end of the list.
ListInOrder(m) == UNION {CommandsAt(m, Reverse(places)) : places \in Falling(Known(m.params))}

\* Mutant of ListOf: the loop ends at a name that is not in switch_list.
ListUntilStranger(m) ==
  UNION {CommandsAt(m, places) :
           places \in Falling({k \in Known(m.params) : 1 .. k \subseteq Known(m.params)})}

\* process_single_iot_hub_msg: the known switches of a message, each added in
\* front of the list; the lists that can come out.
ListOf(m) == UNION {CommandsAt(m, places) : places \in Falling(Known(m.params))}

\* The handler takes a message and builds its list.
TakeMessage ==
  /\ Hub!Take
  /\ commands' \in ListOf(message')
  /\ UNCHANGED <<accepted, radioVars, written, held>>

\* run_command_on_lora_node: one pass of its loop, one eb_ws_write.
RunCommand ==
  /\ commands # <<>>
  /\ Radio!Put(Head(commands))
  /\ commands' = Tail(commands)
  /\ UNCHANGED <<accepted, hubQueue, message, written, held>>

\* Mutant of FinishMessage: the handler keeps the message.
FinishForgotten ==
  /\ commands = <<>>
  /\ message # NoMsg
  /\ UNCHANGED vars

\* The list is freed, and the message.
FinishMessage ==
  /\ commands = <<>>
  /\ Hub!Done
  /\ UNCHANGED <<accepted, commands, radioVars, written, held>>

\* Mutant of SendQuery: queries have the priority of commands.
SendQueryFirst ==
  /\ Cardinality({k \in DOMAIN writeQueue : writeQueue[k] \in Query}) < MaxQueries
  /\ writeQueue' = <<[id |-> 0]>> \o writeQueue
  /\ UNCHANGED <<accepted, handlerVars, writing, written, held>>

\* status_query_thread puts a query at the tail of the write queue.
SendQuery ==
  /\ Cardinality({k \in DOMAIN writeQueue : writeQueue[k] \in Query}) < MaxQueries
  /\ Radio!Put([id |-> 0])
  /\ UNCHANGED <<accepted, handlerVars, written, held>>

\* Mutant of TakeFrame: the last frame is left in the queue.
TakeFrameButLast ==
  /\ Len(writeQueue) > 1
  /\ Radio!Take
  /\ UNCHANGED <<accepted, handlerVars, written, held>>

\* The websocket thread takes the head and writes it.
TakeFrame ==
  /\ Radio!Take
  /\ UNCHANGED <<accepted, handlerVars, written, held>>

\* The frame has left the air, and the node has set the register.
FrameSent ==
  /\ Radio!Done
  /\ IF writing \in Query
     THEN UNCHANGED <<written, held>>
     ELSE /\ written' = Append(written, writing)
          /\ held' = [held EXCEPT ![writing.name] = writing.value]
  /\ UNCHANGED <<accepted, handlerVars>>

Handler == TakeMessage \/ RunCommand \/ FinishMessage
Sender == TakeFrame \/ FrameSent

Next == (\E params \in Params : HubMessage(params)) \/ Handler \/ SendQuery \/ Sender

Spec == Init /\ [][Next]_vars

\* The handler thread and the websocket thread are scheduled.
FairSpec == Spec /\ WF_vars(Handler) /\ WF_vars(Sender)

-----------------------------------------------------------------------------
(* Properties.                                                             *)

InHubQueue(id) == \E k \in DOMAIN hubQueue : hubQueue[k].id = id

\* Where a command can be once its message has left the hub queue.
Stages == <<commands, writeQueue, IF writing = NoMsg THEN <<>> ELSE <<writing>>, written>>

\* The places of the commands of a sequence of frames, and which parameters they are for.
Frames(s) == {k \in DOMAIN s : s[k].id # 0}
Served(s) == {<<s[k].id, s[k].at>> : k \in Frames(s)}

OnceIn(s) == \A j, k \in Frames(s) : s[j].id = s[k].id /\ s[j].at = s[k].at => j = k

\* A command says what its parameter says.
Faithful(c) ==
  LET p == accepted[c.id].params[c.at] IN c.name = p.name /\ c.value \in ValuesOf(p)

\* Through both queues, the list and the radio, every parameter of an accepted
\* message that names a switch becomes one frame for that switch with its value,
\* no more and no less, and nothing else is sent.
EachCommandOnce ==
  /\ \A a \in DOMAIN Stages : OnceIn(Stages[a]) /\ \A k \in Frames(Stages[a]) : Faithful(Stages[a][k])
  /\ \A a, b \in DOMAIN Stages : a # b => Served(Stages[a]) \cap Served(Stages[b]) = {}
  /\ UNION {Served(Stages[a]) : a \in DOMAIN Stages} =
     UNION {{<<id, at>> : at \in Known(accepted[id].params)} : id \in {n \in DOMAIN accepted : ~ InHubQueue(n)}}

\* The order in which commands leave, when nothing comes in between: the newest
\* message first, within a message the order of its parameters (the list turns
\* it round, and so does the head of the queue), the queries last.
WriteOrder ==
  \A k, n \in DOMAIN writeQueue :
    k < n /\ writeQueue[n].id # 0 =>
      \/ writeQueue[k].id > writeQueue[n].id
      \/ writeQueue[k].id = writeQueue[n].id /\ writeQueue[k].at < writeQueue[n].at

\* mqtt.c:544, "Command from IoT hub has high priority": no query goes on the air
\* while a command waits to.
QueriesYield ==
  [][TakeFrame /\ writing' \in Query => Frames(writeQueue) = {}]_vars

Drained == hubQueue = <<>> /\ message = NoMsg /\ Frames(writeQueue) = {} /\ writing = NoMsg

\* Once the hub is quiet everything it asked for gets on the air, queries or no
\* queries.
CommandsGetThrough == <>[](Frames(writeQueue) = {} /\ hubQueue = <<>> /\ commands = <<>>)

\* A query that waits gets on the air once the hub is quiet.
QueriesGetThrough == (\E k \in DOMAIN writeQueue : writeQueue[k] \in Query) ~> writing \in Query

\* The newest message that names a switch decides on its value: mqtt.c:59, "Insert
\* a new incoming iot hub message at the queue tail", serves messages in order.
NewestCommandHolds ==
  Drained => \A s \in Switch :
    LET about == {n \in DOMAIN accepted : \E k \in Known(accepted[n].params) : accepted[n].params[k].name = s}
    IN about # {} =>
         \E k \in Known(accepted[Max(about)].params) :
           LET p == accepted[Max(about)].params[k] IN p.name = s /\ held[s] \in ValuesOf(p)

=============================================================================
