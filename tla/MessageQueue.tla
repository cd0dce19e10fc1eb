---------------------------- MODULE MessageQueue ----------------------------
(***************************************************************************)
(* What edgebox promises of each of its two message queues, the websocket  *)
(* write queue of wsclient.c and the IoT hub queue of mqtt.c, with nothing *)
(* of how they are built: no nodes, pointers, mutexes or threads.          *)
(*                                                                         *)
(* Producers put messages, an urgent one in front of everything that is    *)
(* waiting and any other one behind it.  One consumer takes the front      *)
(* message, works on it, and only then takes the next.  A message leaves   *)
(* the queue by being taken and in no other way.                           *)
(***************************************************************************)
EXTENDS Naturals, Sequences

CONSTANTS Msg,      \* the messages
          Urgent,   \* those put in front: {} for the hub queue
          NoMsg     \* the consumer holds nothing

VARIABLES queue,    \* the messages waiting, front first
          taken     \* the message the consumer is working on, or NoMsg

vars == <<queue, taken>>

Init == queue = <<>> /\ taken = NoMsg

Put(m) ==
  /\ queue' = IF m \in Urgent THEN <<m>> \o queue ELSE Append(queue, m)
  /\ UNCHANGED taken

Take ==
  /\ taken = NoMsg
  /\ queue # <<>>
  /\ taken' = Head(queue)
  /\ queue' = Tail(queue)

Done ==
  /\ taken # NoMsg
  /\ taken' = NoMsg
  /\ UNCHANGED queue

Next == Take \/ Done \/ \E m \in Msg : Put(m)

Spec == Init /\ [][Next]_vars

\* The consumer is never idle for ever while messages wait.
FairSpec == Spec /\ WF_vars(Take) /\ WF_vars(Done)

-----------------------------------------------------------------------------

TypeOK == queue \in Seq(Msg) /\ taken \in Msg \cup {NoMsg}

\* No routine message stands before an urgent one: whatever the order in
\* which the two kinds were put, the hub's commands go out first.
UrgentFirst ==
  \A i, j \in DOMAIN queue :
     queue[i] \notin Urgent /\ queue[j] \in Urgent => j < i

=============================================================================
