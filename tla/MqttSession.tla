---------------------------- MODULE MqttSession ----------------------------
(***************************************************************************)
(* The MQTT session of the gateway: mqtt_conn_init and eb_publish (mqtt.c), *)
(* the main thread's loop and the SIGTERM handler (edgebox.c).             *)
(*                                                                         *)
(* The main thread sets the session up and keeps it up.  The websocket     *)
(* thread publishes the replies of the LoRa nodes on the same MQTTClient,  *)
(* without a lock.  The broker or the network may end the session at any   *)
(* time; the client learns of it when it uses the session.                 *)
(*                                                                         *)
(* The Paho library (lib/libpaho-embed-mqtt3cc.so) is external.  A call    *)
(* that fails closes the session of the client it is given, whichever that *)
(* is by then; a subscription that the hub refuses is no failed call.      *)
(***************************************************************************)
EXTENDS Naturals

CONSTANTS Socket,       \* sockets NetworkConnect can open
          MaxDrops,     \* bound: how often the network ends a session
          NULL

ASSUME ConstantsAssumption == NULL \notin Socket /\ MaxDrops \in Nat

VARIABLES
  main,             \* where the main thread is
  startup,          \* it has not yet entered its loop
  open,             \* the process's open sockets
  mnet,             \* the socket in mnet
  isconnected,      \* mclient.isconnected
  topics,           \* eb_pub_topic and eb_sub_topic have been printed
  session,          \* the session that client and broker have, and its subscription
  ws,               \* where the websocket thread is in MQTTPublish
  drops

netVars == <<open, mnet>>
vars == <<main, startup, netVars, isconnected, topics, session, ws, drops>>

Init ==
  /\ main = "network"
  /\ startup = TRUE
  /\ open = {}
  /\ mnet = NULL
  /\ isconnected = FALSE
  /\ topics = FALSE
  /\ session = "none"
  /\ ws = "idle"
  /\ drops = 0

-----------------------------------------------------------------------------
(* mqtt_conn_init, on the main thread.                                     *)

Goes(from, to) == main = from /\ main' = to

\* "return -1": main ends at start-up, its loop goes on.
Fails(from) == Goes(from, IF startup THEN "exited" ELSE "sleep")

\* The session ends.  A publish that is under way is one of a session that is gone.
SessionEnds ==
  /\ session' = "none"
  /\ ws' = IF ws = "publish" THEN "late" ELSE ws

NetworkConnects ==
  /\ Goes("network", "client")
  /\ \E s \in Socket \ open : open' = open \cup {s} /\ mnet' = s
  /\ UNCHANGED <<startup, isconnected, topics, session, ws, drops>>

\* aiotMqttSign, NetworkInit and a NetworkConnect that fails.
NetworkFails ==
  /\ Fails("network")
  /\ mnet' = NULL
  /\ UNCHANGED <<startup, open, isconnected, topics, session, ws, drops>>

MQTTClientInit ==
  /\ Goes("client", "connect")
  /\ isconnected' = FALSE
  /\ UNCHANGED <<startup, netVars, topics, session, ws, drops>>

Connects ==
  /\ Goes("connect", "topics")
  /\ isconnected' = TRUE
  /\ session' = "connected"
  /\ UNCHANGED <<startup, netVars, topics, ws, drops>>

ConnectFails ==
  /\ Fails("connect")
  /\ UNCHANGED <<startup, netVars, isconnected, topics, session, ws, drops>>

\* Mutant of PrintTopics: only the first connection subscribes.
PrintTopicsOnce ==
  /\ Goes("topics", IF startup THEN "subscribe" ELSE "sleep")
  /\ topics' = TRUE
  /\ UNCHANGED <<startup, netVars, isconnected, session, ws, drops>>

PrintTopics ==
  /\ Goes("topics", "subscribe")
  /\ topics' = TRUE
  /\ UNCHANGED <<startup, netVars, isconnected, session, ws, drops>>

\* After it the status thread is created and the loop entered, or goes on.
Subscribes ==
  /\ Goes("subscribe", "sleep")
  /\ isconnected /\ session = "connected"
  /\ session' = "subscribed"
  /\ startup' = FALSE
  /\ UNCHANGED <<netVars, isconnected, topics, ws, drops>>

\* There is no session, or the SUBACK does not come: the library closes the session.
SubscribeFails ==
  /\ Fails("subscribe")
  /\ isconnected' = FALSE
  /\ SessionEnds
  /\ UNCHANGED <<startup, netVars, topics, drops>>

\* The SUBACK says 0x80: the client stays connected.  The library returns 0; were it
\* an error, only main's start-up would look at it.
SubscribeRefused ==
  /\ \/ Goes("subscribe", "sleep") /\ startup' = FALSE
     \/ Fails("subscribe") /\ UNCHANGED startup
  /\ isconnected /\ session = "connected"
  /\ session' = "refused"
  /\ UNCHANGED <<netVars, isconnected, topics, ws, drops>>

-----------------------------------------------------------------------------
(* The loop of main.                                                       *)

\* poll(0, 0, 50)
SleepOver ==
  /\ Goes("sleep", "yield")
  /\ UNCHANGED <<startup, netVars, isconnected, topics, session, ws, drops>>

\* A session that is gone is noticed at the latest when the keepalive expires.
MQTTYield ==
  /\ Goes("yield", "test")
  /\ isconnected' = (isconnected /\ session # "none")
  /\ UNCHANGED <<startup, netVars, topics, session, ws, drops>>

\* Mutant of TestConnected: a lost session is not set up again.
TestIgnored ==
  /\ Goes("test", "sleep")
  /\ UNCHANGED <<startup, netVars, isconnected, topics, session, ws, drops>>

TestConnected ==
  /\ Goes("test", IF isconnected THEN "sleep" ELSE "disconnect")
  /\ UNCHANGED <<startup, netVars, isconnected, topics, session, ws, drops>>

MQTTDisconnect ==
  /\ Goes("disconnect", "close")
  /\ isconnected' = FALSE
  /\ SessionEnds
  /\ UNCHANGED <<startup, netVars, topics, drops>>

\* Mutant of NetworkDisconnect: the socket is left open.
NetworkForgotten ==
  /\ Goes("close", "network")
  /\ UNCHANGED <<startup, netVars, isconnected, topics, session, ws, drops>>

NetworkDisconnect ==
  /\ Goes("close", "network")
  /\ open' = open \ {mnet}
  /\ UNCHANGED <<startup, mnet, isconnected, topics, session, ws, drops>>

-----------------------------------------------------------------------------
(* eb_publish on the websocket thread, the network, SIGTERM.               *)

Running == main # "exited"

\* MQTTPublish returns at once without a connection.
PublishBegins ==
  /\ Running /\ ws = "idle" /\ isconnected
  /\ ws' = IF session = "none" THEN "late" ELSE "publish"
  /\ UNCHANGED <<main, startup, netVars, isconnected, topics, session, drops>>

\* QoS 0: the packet is written, or, the session being gone, the write fails and
\* MQTTPublish closes the session of mclient, the one there is now.
PublishEnds ==
  /\ Running /\ ws # "idle"
  /\ ws' = "idle"
  /\ \/ UNCHANGED <<isconnected, session>>
     \/ ws = "late" /\ isconnected' = FALSE /\ session' = "none"
  /\ UNCHANGED <<main, startup, netVars, topics, drops>>

\* The broker or the network ends the session.
Drop ==
  /\ Running /\ session # "none" /\ drops < MaxDrops
  /\ SessionEnds
  /\ drops' = drops + 1
  /\ UNCHANGED <<main, startup, netVars, isconnected, topics>>

\* eb_signal_handler, installed when start-up is over, ends the process.
Terminate ==
  /\ Running /\ ~ startup
  /\ main' = "exited"
  /\ isconnected' = FALSE
  /\ session' = "none"
  /\ open' = {}
  /\ UNCHANGED <<startup, mnet, topics, ws, drops>>

-----------------------------------------------------------------------------

MqttConnInit ==
  \/ NetworkConnects \/ NetworkFails \/ MQTTClientInit \/ Connects \/ ConnectFails
  \/ PrintTopics \/ Subscribes \/ SubscribeFails \/ SubscribeRefused

MainLoop == SleepOver \/ MQTTYield \/ TestConnected \/ MQTTDisconnect \/ NetworkDisconnect

Next ==
  \/ MqttConnInit \/ MainLoop
  \/ PublishBegins \/ PublishEnds
  \/ Drop \/ Terminate

Spec == Init /\ [][Next]_vars

\* The main thread and the publishing thread are scheduled; a broker that is
\* tried again and again answers in the end.
FairSpec ==
  /\ Spec
  /\ WF_vars(MqttConnInit \/ MainLoop) /\ WF_vars(PublishEnds)
  /\ SF_vars(NetworkConnects) /\ SF_vars(Connects) /\ SF_vars(Subscribes)

-----------------------------------------------------------------------------
(* Properties.                                                             *)

TypeOK ==
  /\ main \in {"network", "client", "connect", "topics", "subscribe",
               "sleep", "yield", "test", "disconnect", "close", "exited"}
  /\ startup \in BOOLEAN
  /\ open \subseteq Socket
  /\ mnet \in Socket \cup {NULL}
  /\ isconnected \in BOOLEAN
  /\ topics \in BOOLEAN
  /\ session \in {"none", "connected", "refused", "subscribed"}
  /\ ws \in {"idle", "publish", "late"}
  /\ drops \in 0 .. MaxDrops

\* However often the session is set up again, and wherever that fails, no socket
\* is left behind: NetworkDisconnect comes before every new NetworkConnect.
NoSocketLeaks == open \subseteq {mnet} /\ (main = "network" => open = {})

\* In the loop a session that is up is subscribed, so commands of the hub arrive,
\* unless the hub has refused the subscription: mqtt_conn_init's result is not looked
\* at there (edgebox.c:224), and websocket publishes may close the session anywhere.
ServesSubscribed == main \in {"sleep", "yield", "test"} => session # "connected"

\* What keeps them so: a session is taken for connected as long as the broker has
\* it, main tears it down before it sets up another, and is in mqtt_conn_init
\* while it is connected and not subscribed.
Inv ==
  /\ TypeOK /\ NoSocketLeaks
  /\ session # "none" => isconnected
  /\ main \in {"network", "client", "connect", "close"} => session = "none"
  /\ session = "connected" => main \in {"topics", "subscribe"}
  /\ session \in {"refused", "subscribed"} => main \notin {"topics", "subscribe"}
  /\ isconnected /\ main \notin {"topics", "exited"} => topics

\* A session that is lost is set up again, up to the hub's answer to the
\* subscription, in spite of further losses, of failed attempts and of a publish of
\* the old session that fails late and closes the new one.
Recovers ==
  [](session \in {"none", "connected"} => <>(session \in {"refused", "subscribed"} \/ main = "exited"))

=============================================================================
