# edgebox, specified

edgebox is a gateway in C between an Aliyun IoT hub (MQTT) and PLCs and a weather
station behind LoRa nodes, which it reaches through a LoRaWAN server (websocket,
`localhost:8080`). This directory holds TLA+ modules of its components, TLC
configurations that check them on small instances, and TLAPS proofs of the properties
that matter most, for all values of the constants. Paths in this file are relative to
the repository (`src/` in the project's metadata): `src/wsclient.c` is the C file.

    tlc -workers 2 -config MCWsClient.cfg MCWsClient      # check one run
    tlapm WsClientProofs.tla                              # check one module's proofs

## 1. The system

### Threads

| thread | created at | does |
|---|---|---|
| main | – | start-up; then `MQTTYield`, which also runs `handleMsgFromIoThub`, and reconnects |
| websocket thread | `init_websocket`, wsclient.c:377 | connects, sleeps in `lws_service`, sends one message per writeable event, decodes what arrives and publishes it over MQTT |
| hub handler | edgebox.c:190 | takes hub messages from their queue and turns them into commands |
| status thread | edgebox.c:204 | every 18 s one weather request; the scan of all switches is written but its call is commented out at this commit (statusquery.c:29) |

### Components

| component | its state | its operations | talks to |
|---|---|---|---|
| websocket client, `wsclient.c` | linked list `p_msg_q_head/tail` under `write_mutex`, handle `edgebox_ws`, `msg_node` | `eb_ws_write`, `ws_callback`, `ws_evloop_run`, `init_websocket` | called by handler and status threads; libwebsockets; publishes by `eb_publish` |
| hub queue, `mqtt.c:44-163` | linked list `p_hubmsg_q_head/tail` under `hubmsg_mutex`, `node_ptr` | `iothubMsgEnQ`, `iothubMsgDeQ`, `iot_msg_handler_thread` | main puts, handler takes |
| commands, `mqtt.c:170-234, 512-553` | a switch list per message | `process_single_iot_hub_msg`, `run_command_on_lora_node` | switch table, write queue |
| MQTT session, `mqtt.c:264-364`, `edgebox.c` | `mclient`, `mnet`, `eb_pub_topic` | `mqtt_conn_init`, `eb_publish`, main's loop, SIGTERM handler | Paho; main and websocket thread share `mclient` |
| frames, `crc.c`, `statusquery.c`, `mqtt.c` | none | CRC, frames, `hex2ascii`, `ascii2hex` | write queue |
| reports, `wsclient.c:159-262`, `mqtt.c:366-504` | `msgid_in_payload` | `ws_receive_msg`, the two parsers, the report functions | switch table, MQTT |
| status scan, `statusquery.c:41-124` | loop variables | one round over nodes, PLCs and registers | switch table, write queue |
| switch table, `parse_switch.c` | switch list, PLC list, per PLC bounds, channels, names | `readSwitches`, look-ups | built once, then only read |
| logger, `logger.c` | open file, its size, backups on disk | `logging_init`, `logger_log`, rotation | all threads |
| start-up, `edgebox.c:46-201` | globals, `lora_list_head` | `readConfig`, `drop_root_priviledge`, `main` | iniparser, all others |
| ini parser, `iniparser.c`, `dictionary.c` | line buffer, section; slots of the dictionary | `iniparser_load`, `iniparser_getstring`, `dictionary_set`, `dictionary_get` | start-up |
| signature, `aiot_mqtt_sign.c` | sha256 context | `aiotMqttSign`, HMAC, update and finish | MQTT session |
| JSON, `cJSON.c` | heap blocks of items, names and strings; a print buffer that grows | `cJSON_Parse`, `cJSON_GetObjectItem…`, creation and adding of items, `cJSON_Print`, `cJSON_Delete` | reports, commands |

### What is hard

* The two queues are read without their mutex (wsclient.c:280, mqtt.c:143), on the
  strength of there being one consumer only; `msg_node` and `node_ptr` are not
  initialised. One log line reads a node after it has been given away (mqtt.c:104).
* A writer asks for a writeable event from a thread that is not the service thread.
* Commands overtake queries, and by the same rule each other.
* The MQTT session is set up again at any time, by main, while the websocket thread may
  publish on it; its result is ignored in the loop.
* A reply is decoded with what the address suggests, not with what was asked.
* Log rotation is a chain of removes and renames that can fail or be cut off anywhere.
* The status scan is four nested loops with hand-made searches at every boundary.
* JSON lists are built under allocations that may fail: a half-made list has several owners.
* The configuration goes through a line buffer with continuations and a table that grows; a
  failed allocation leaves a part of it, which is used as if it were all.

`PROJECT.json` lists these as hazards with line and property.

## 2. The modules

| module | models | composes |
|---|---|---|
| `MessageQueue` | abstract: a queue with urgent messages and one consumer | – |
| `LinkedList` | what head, tail and next fields have to spell | – |
| `WsClient` | the websocket client | refines `MessageQueue` |
| `HubQueue` | the hub queue and the handler loop | refines `MessageQueue` |
| `Gateway` | a command's way through both queues, the switch list and the radio | two instances of `MessageQueue` |
| `MqttSession` | session, main's loop, publishing, SIGTERM | – |
| `Dictionary` | `dictionary.c` as operators on its table | – |
| `Iniparser` | `iniparser_line` with its `sscanf` formats, and what a line says | – |
| `Sha256` | how HMAC-SHA256 cuts a text into blocks, and the standards' reference | – |
| `Sha256Block` | the compression function and the hexadecimal text | extends `Sha256` |
| `Startup` | `edgebox.ini` to the session: `iniparser_load`, `readConfig`, `main` | extends `MqttSession`, `Dictionary`, `Iniparser`, `Sha256` |
| `SwitchTable` | `readSwitches` | – |
| `StatusScan` | the round of status queries | extends `SwitchTable` |
| `Frames` | CRC, frames, text form | – |
| `Cjson` | `cJSON.c` as far as the program calls it, block by block, and what a JSON text is | – |
| `Reports` | command / query / reply / report round trip, as JSON text | extends `Frames`, `Cjson` |
| `Logger` | log files, rotation, crashes | – |
| `*Proofs` | theorems about the module of that name; `StartupProofs` also about `MqttSession`, `Iniparser`, `Dictionary` and `Sha256`, `StatusScanProofs` also about `SwitchTable` | – |
| `DataProofs` | theorems about `Frames` and `Cjson`, and the lemmas about linked lists and about recursion over places, which the other proofs cite | – |
| `MC*` | instances for TLC | – |

Definitions bear the names of the C functions and variables where they can. An operator
marked *Mutant of X* is not part of the specification: it is X with a plausible bug,
against which the properties are tried out.

### How state and actions correspond to the code

**WsClient.** Variables are the globals and locals of `wsclient.c`, plus the heap
(`heap`, `next`, `msg`), the state of the connection (`link`), the library's pending
request (`pollout`, and `armed` for the poll set it has already built), the radio (`air`)
and the history variable `order`. A writer runs `Alloc`/`AllocFails`, `LockQueue`, `Link`,
`UnlockQueue`, `RequestWriteable`; the websocket thread `Connect`, `Sleep`, `Writeable`,
`TestHead`, `DeqLock`, `Deq`, `DeqUnlock`, `Write`, `Free`, `WaitForAir`, `Rearm`. `Write` may lose
the message: the result of `lws_write` is not looked at. The stores of a critical
section are one step: the only word another thread reads without the mutex is the head,
and each section stores it once. Memory is sequentially consistent here: the head is a
word, and a stale value of it is one that a slower reader could have seen as well.
libwebsockets is modelled by its documented contract: a request from another thread does
not wake a service thread that sleeps unless `LWS_CALLBACK_GET_THREAD_ID` is implemented
(`include/libwebsockets/lws-callbacks.h:619-621`), and `lws_service` ignores its timeout
and waits for events (`lws-service.h:48-49`).
After a disconnection writers still pass the old handle; the model lets such a request
have no effect, where the program uses freed memory.

**HubQueue.** The same for `mqtt.c`: main runs `Alloc`, `LockQueue`, `Link`, `UnlockQueue`,
`Log`; the handler `TestHead`, `SleepOver`, `DeqLock`, `Deq`, `DeqUnlock`, `Process`, `Free`.

**Gateway.** Each queue is an instance of `MessageQueue`, which the two modules above
are shown to implement. `TakeMessage` builds the switch list: `ListOf` are the lists that can
come out, one command for each parameter that names a switch (`CommandFor`), in reversed order
as `add_switch_to_list` puts them; a parameter that is no number leaves its value open.
`RunCommand` is one pass of the loop of `run_command_on_lora_node`, `TakeFrame` and
`FrameSent` are the websocket thread. A command carries the number of its message and its place
there, which the code's does not, for the properties. The connection stays up and
allocations succeed: `WsClient` and `Reports` have what happens otherwise.

**MqttSession.** One action per library call of `mqtt_conn_init` with its outcomes, one
per statement of main's loop, publishing in two steps, and `Drop` for a session that ends.
The library is external: a call that fails because the session is gone leaves
`isconnected` at 0; an idle loss is found by `MQTTYield` when the keepalive expires. A publish
that has begun when its session ends is `"late"`: if it fails, `MQTTPublish` closes the session that `mclient` has
by then, wherever main is. A SUBACK that says 0x80 is no failed call: the client stays connected (`SubscribeRefused`). The
library returns 0 then and has the refusal in result data (`MQTTClient.h:98-101`) that mqtt.c does not ask for; that it is an error
(mqtt.c:333-336) is an outcome here as well. Either way the loop goes on, without commands, and nothing asks again.

**Iniparser.** A text is a sequence of tokens: the characters that the parser tells apart
(brackets, `=`, quotes, `;`, `#`, `,`, a backslash, one blank for all of them) and words. `sscanf` is a
fold of directives over a text; the formats of `iniparser_line` are sequences of directives.
Where `strlwc` cuts a word, only that it was cut is known (`"part"`). The section is a buffer that
`"[]"` leaves as it was. The reference half of the module (`SectionName`, `KeyName`, `ValueIn`)
says what a line means from its first characters on, without formats.

**Startup.** `at` is main's place before `mqtt_conn_init`. `LoadLine` is one turn of the loop
in `iniparser_load`: `pending` is what is in the line buffer behind a backslash, `section` its
buffer, `dict` the table. `fails` are the allocations that fail in that turn: the copy of the line
(then an empty line is parsed), the table, the key, the value. A line and what is pending that together
do not fit `ASCIILINESZ` end the load. `Exits` stands for `exit(-1)`, a `return` of `main` and a crash (no
log level: `strcasecmp(NULL)`). What `main` starts in between are modules of their own; here each goes on
or ends the process. From `at = "session"` on the steps are those of `MqttSession`; its first
step needs credentials that `aiotMqttSign` accepts. The password is an expression over `config`,
as the code keeps it on `mqtt_conn_init`'s stack only. `dictionary_unset` is never called, so the
search for an empty slot always starts at one; the operator has the search all the same.

**Sha256, Sha256Block.** In `Sha256` the state of a context is the sequence of blocks it has taken and
a byte says which text it is from, so that `PasswordSigns` is about texts of every content at a
given length. `Sha256Block` turns these blocks into digests; a 32-bit word is a pair of halves.

**SwitchTable, StatusScan.** One pass of the loop of `readSwitches` is one step. A query,
its 4 s pause and the search for the next run are one step: the tables do not change any
more. The first and second block differ only in `size`.

**Cjson.** A text is a sequence of tokens (punctuation, a word, a number, a blank). A call is an
operator on the heap: `live` are the blocks, `fails` says which allocation of the operation fails, `lost` are blocks that
nobody points to, `wild` and `over` record a free of a dead block and a byte outside the print buffer. Items
carry the addresses of their blocks; an item and all below it are one sequence, with a mark where the children of a list end. `parse_value`,
`parse_array` and `parse_object` call each other in the code; here one step reads one token, and the calls that have not returned
are the list `open` (`Read` is what the innermost of them does with the token). Printing goes item by item in the same way, `depth` being the code's.

**Frames, Reports.** Bytes, texts as character codes, both CRC tables entry by entry. What travels
is JSON text that `Cjson` parses and prints; `k` is the allocation that fails in an operation, at most one in a
behaviour. One
frame is on the air at a time; a PLC acts on it if it is sound by the reference CRC. Values
are integers in tenths for the weather. `ws_receive_msg` is as it is at this commit: its two lines "hard code
for test" (wsclient.c:183-185) print `TestNode` and `TestFrame` over the address and the data of every message, and what is
decoded (`Decoded`) is these. They need two strings with room for them: if `devaddr` or `data` is no string, or too short, what happens is
undefined, and `Handles` lets the process go on or die. The same holds for a serial number in a message of the hub that is no string (`CopiesNothing`).
`spoilt` records that such a text has come. What the decoders would make of real replies is said by `Weather` and `NonWeather`, operators on any
frame. Of the thread's three requests to the station one is sent at this commit (statusquery.c:35).

**Logger.** A line is the number of the call of `vflog` that wrote it, a file the set of its
lines, a size a number of lines. `vflog` counts what `fprintf` says the stream has taken and does not look at
`fflush`: a line that is lost (`lost`) counts too, so a log can be rotated while it is empty. The rotation's calls are separate steps, each may fail, and
`Crash` may come between any two. `fclose(NULL)`, after an open that failed, is undefined
in C; it ends the process here. A service manager starts the process again.

## 3. What is checked

Twelve runs; each passes or finds its violation in about three minutes at most.

| run | instance | shows |
|---|---|---|
| `ws` | 1 hub writer, 1 status writer, 3 nodes, writes that get lost, start-up wait 2; 90 000 states | `Inv` (types, mutex, list intact and owner of its nodes), `SendsLiveNode`, `NoLostWakeup`, `HandleBeforeUse`, `AirGap`, `UrgentFirst`, refinement of `MessageQueue`, and `QueueDrains` if the server talks |
| `ws_quiet_server` | 2 nodes | *violation*: with a silent server a queued message waits for ever |
| `ws_reconnect` | 2 nodes | *violation*: after a close the loop sleeps without connecting |
| `hub` | 3 nodes, 2 texts; 7 000 states | the same for the hub queue, every message processed, fair refinement |
| `hub_log` | 2 nodes | *violation*: the log line reads a freed node |
| `gateway` | 2 messages of 5 kinds, 2 queries; 14 000 states | each named switch gets exactly one frame, order of frames, queries yield and still get through |
| `gateway_newest` | 2 messages, 1 query | *violation*: the older of two commands for a switch is sent last |
| `startup` | 23 configuration files, 1 failed allocation, a table of 4, colliding hashes; 2 sockets, 2 losses; 147 000 states | settings are what the file says in any style, the password signs the credentials, no socket leaks, the loop never runs on a session for which no subscription was asked, recovery, through refused subscriptions and late publishes |
| `status_scan` | 2 884 files, 5 registers, 2 PLCs, 2 LoRa nodes, runs of 2; 82 000 states | tables agree with the file; a round asks for exactly the registers in use, once, in queries that fit, and ends |
| `reports` | 4 registers of 1 byte, 2 PLCs, 3 sensors, 6 hub messages, 4 unexpected server texts, 5 400 first texts, any one allocation failing; 41 000 states | commands set their register and no other; the process dies of failed allocations and of values that are no strings only; texts are parsed exactly, nothing but the printed texts leaks, printing stays in its buffer and is read back |
| `reports_weather` | the one sensor that is asked | *violation*: the station's reply is overwritten, its weather is not reported |
| `logger` | 2 threads, 2 backups of 2 lines, 6 lines; 383 000 states | order, of the newest lines those that arrived are kept, only oldest dropped, files bounded, calls return |

Five assumptions about operators are evaluated with these runs: `CrcTables` (`Frames`): for every byte the
entries of both tables are bytes, and together they are what eight shifts by the polynomial ask for. `LinesAsSaid` (`MCStartup`):
each of the 37 449 lines of up to five tokens out of eight is read by `iniparser_line` as the reference
says. `TestCases` (`Sha256Block`): the password text of two test cases of RFC 4231 is that of the standard.
`WeatherDecoded` and `RegistersDecoded` (`MCReports`): by themselves, on the frames that `ws_receive_msg` would hand to them without its lines for
test, the decoders report the weather as measured, a temperature below zero included, and one-byte registers each under its own name.

**Bounds.** Three nodes let a list have a first, a middle and a last element while a fourth
message fails to allocate; one writer of each kind is what the program has. Two
losses let a session be lost while it is being set up again. The configuration files are the shipped one and
its neighbours: repeated and missing entries and sections, every style of line, lines that continue, errors, lines
longer than `ASCIILINESZ` (100 here); their credentials have the lengths at
which the padding changes and the greatest ones that are accepted, and one more. A table of 4 grows three times. Five registers with runs of
two have every gap, full runs and the end of the table; two PLCs and LoRa nodes make every loop
go round. Six lines fill the log and both backups; lines are dropped before there is a seventh when a rotation is cut off by a crash and begun again. The registers
of `reports` are the two ends of the one-byte range, neighbours and the same address on two PLCs.
`NestingLimit` 2 (1000 in the code) lets texts be nested to the limit and beyond it; `BufferSize` 24 (256) makes the print
buffer grow several times; `MaxAllocations` 28 is more than an operation makes where none fails on the way. The first
texts are all of up to three tokens and those one token away from JSON nested twice. `MaxRead` is the run length of the scan.
`MaxMessages`, `MaxQueries`, `MaxDrops`, `MaxFailures`, `MaxLines`, `MaxAllocations` are bounds of the model alone. A bounded
number of messages in `Gateway` is a hub that falls quiet: `QueriesGetThrough` needs it, as
commands always go first. `CHECK_DEADLOCK FALSE` in `startup`: after SIGTERM, or a start-up that
fails, the process is gone.

**Fairness.** Threads are scheduled (weak fairness of their steps) and a mutex that is
released again and again is obtained (strong fairness of the lock steps: glibc's mutexes
are not fair, but a section is a few stores and the threads pause for 20 ms to 3.5 s between
their calls).
The radio becomes free, a request in the poll set is answered unless the connection ends.
`MainStarts` is weak fairness of main's start-up, spelled out: a step of it is enabled until it ends.
`MqttSession`: a broker that is tried again and again answers in the end. The one
assumption about the outside that the code does not make true is `WF(Receive)` in
`TalkingServerSpec`: LoRa nodes that answer end the sleep of `lws_service`. Without it
`QueueDrains` fails: run `ws_quiet_server`. `HubMessage`, `SendQuery`, `Call` and all failures have
no fairness.

### Findings

1. **A queued message may wait for ever** (wsclient.c:326). `lws_callback_on_writable`
   from a writer's thread does not wake the service thread.
2. **A closed connection is not opened again** (wsclient.c:299): `edgebox_ws` is never reset.
3. **Use after free in a log line** (mqtt.c:104).
4. **Waiting commands are sent newest first** (wsclient.c:89): the older value stays.
5. **Nothing that is received is reported** (wsclient.c:184): lines for test overwrite address and data of every
   message; the answer of the weather station is lost.

Further observations without a run of their own, most of them listed as hazards: a subscription that the hub refuses is never asked for again (edgebox.c:224;
`SubscribeRefused`), lines that were never written fill the log file's size (logger.c:134), innerEastSwitch06, a two-byte register below 512 that would
be misread if the lines for test and the comment at statusquery.c:29 were gone (wsclient.c:259), the shift at
mqtt.c:472, `dir[5]` at wsclient.c:232, the text of `cJSON_Print` that nobody frees (mqtt.c:494, statusquery.c:206; `NothingElseLeaks`
counts it), `json_output` that stays uninitialised where an allocation failed (statusquery.c:206), the name copied into a
block one byte short (parse_switch.c:196), `"[]"` in `edgebox.ini`, which keeps the section before, cut, `eb_pub_topic` printed late (mqtt.c:327), `MQTTClientInit` on a client in use and on stack buffers (mqtt.c:269, 303).

## 4. What is proved

For all constants that meet the modules' assumptions, in 8 modules:

| theorem | says |
|---|---|
| `WsClientProofs!UrgentStaysFirst` | in the abstract queue no urgent message is behind a routine one |
| `WsClientProofs!Invariance`, `QueueSafe`, `SenderSafe`, `HandleSafe`, `AirSafe` | the safety properties of `ws`, for any number of writers, nodes and texts |
| `WsClientProofs!Refinement`, `CommandsFirst` | the linked list implements `MessageQueue`; hence `UrgentFirst` |
| `HubQueueProofs!Invariance`, `QueueSafe`, `Refinement` | the same for the hub queue (safety part of the refinement) |
| `GatewayProofs!CommandsGoOnce`, `CommandsInOrder`, `QueriesWait` | the safety properties of `gateway`, for any messages and switches and any number of queries |
| `StatusScanProofs!TablesMatchFile`, `CommandsFindTheirSwitch`, `ReportsMatchCommands` | the switch table's properties, for any file |
| `StatusScanProofs!TablesHold`, `ScanInvariance`, `QueriesFitFrames`, `RoundIsComplete`, `NothingAskedTwice` | for any file, number of LoRa nodes and run length |
| `DataProofs!CrcAsReference` | the tables of `crc.c` compute the CRC-16/MODBUS of the polynomial, for every sequence of bytes |
| `DataProofs!FramesSound`, `TextAndBack` | every frame is sound for its receiver, whatever its bytes, and its text gives them back |
| `DataProofs!CommandsReadable` | the receiver reads from the text of every command or query its PLC, register and value |
| `DataProofs!ParseOwns` | whatever the text and whichever allocation fails, `cJSON_Parse` has exactly the blocks of the items it returns, frees none twice, and a text that is refused leaves nothing |
| `DataProofs!ParseTells` | the items it returns say, mark for mark, how the text begins |
| `DataProofs!PrintIs` | for every object that can be built, `cJSON_Print` stays in its buffer, leaves one block, the text, and writes what the items say |
| `ReportsProofs!Invariance` | the inductive invariant of `reports`: in every state the heap is clean, and what is sent is the text of a command or a query that its PLC can act on |
| `ReportsProofs!HeapKept` | `NothingElseLeaks`, for any switches, messages, texts and failing allocation, whatever the order of the operations |
| `ReportsProofs!OnlySpoilt` | `Survives`: whatever text comes, well formed or not, the process dies only of an allocation that failed or of a value that is no string |
| `ReportsProofs!PrintedAndRead` | `PrintsReadably`: every text sent or published is read back by `cJSON_Parse` to the last token, for any size of buffer |
| `StartupProofs!Invariance`, `SocketsAccounted`, `SessionServes` | `Inv`, `NoSocketLeaks`, `ServesSubscribed`, for any number of losses, failures, refused subscriptions and late publishes |
| `StartupProofs!StartImplementsSession`, `StartedSession` | the program from its start, with any configuration file, implements the session, and has its two properties |
| `StartupProofs!LinesAsSaid` | `iniparser_line` with its `sscanf` formats reads every line, of any length over any tokens, as the line says |
| `StartupProofs!HmacAsStandard` | `utils_hmac_sha256` cuts every message and every key of at most 64 bytes into the blocks of RFC 2104 and FIPS 180-4 |
| `StartupProofs!PasswordSigned` | what is sent as the password is the HMAC of the credentials, for any file and credentials of any length |
| `StartupProofs!NodesListed` | `strtok`'s list holds the pieces between the commas of every text, each once, last one first |
| `StartupProofs!ConfigWritten` | the configuration is what the lines of the file say, for any file, sizes of buffer and dictionary, hashes and failures |
| `LoggerProofs!FilesInOrder`, `NewestSurvive`, `OnlyOldestDropped`, `SizesBounded` | for any number of threads, backups, sizes, crashes and failures |

**The arguments.** Each rests on an inductive invariant, since the properties do not
carry themselves.

* *Queues.* `ListIntact` says that the pointers spell the sequence `order`. That a step keeps it is
  three lemmas about lists (`DataProofs`: put in front, put behind, take the front),
  used by both queues. `SendsLiveNode` needs `SenderInv`: between the unlocked test of the
  head and the dequeue the list cannot become empty, as only the consumer takes nodes and no
  other thread is at its program counters. `NoLostWakeup` is inductive with
  `LinkInv`. The refinement maps `order` to the texts of its nodes, and the consumer's node
  to `taken`.
* *Gateway.* `OnceInv` says what `EachCommandOnce` says in the form a step preserves: the hub's messages that
  have left their queue are exactly those below a number (`HubInv`: the queue is the tail of what was
  accepted), and each stage holds its commands once, apart from the other stages. A step moves one command from the end of a
  stage to the next one; taking a message adds all of its commands, since a list in falling order of the places of its known parameters
  has each of them once. `OrderInv` adds to `WriteOrder` what the rest of the switch list is: it falls, and what waits is older or of the same message
  and behind it, so that putting the list in front, one by one, keeps the order.
  `QueriesYield` follows from the order: if a query is the head, nothing behind it is a command.
* *Tables.* `TableInv`: bounds, channels, PLC list and names are functions of the switches
  read so far. `switch_list` is the file reversed, so the first hit is the last definition.
* *Scan.* `AskedSoFar` is the invariant itself: the registers asked for are those of the blocks
  passed and, in the present block, those below `start_reg`. A run ends before the first register
  that is not in use, and the search goes on from there, so nothing is skipped. `ScanInv` has
  that `start_reg` is in use whenever a run begins, which `QueriesFit` rests on.
* *Frames.* `Xor` goes through the bits of a number from the low end; each fact about it (any order, 0 changes nothing, no carry from the low
  byte into the high one) goes up its 16 levels by `Ladder`. So shifting by the polynomial is linear, eight shifts of a word are its high byte brought
  down and added to the eight shifts of its low byte, and those are the table's two entries (`CrcTables`): a pass of the loop is
  eight shifts of the reference (`TableStep`). A text is digits by pairs, and the receiver's check is the CRC of what the frame begins with.
* *JSON.* The parser's invariant (`ParseOwns`) is that the live blocks are those of the items read so far and of the item being filled in, no two the
  same: a failure in any call that has not returned then frees each once. `ParseTells` adds that the items and the names spell what has been read, with the lists
  in `open` as the marks that are missing; so the text that is spelled at the end is a beginning of the text. For the printer, offset and `filled` agree whenever
  a piece begins, and each piece asks `ensure` for at least as much as it writes (`PrintIs`); an object under construction owns its blocks whichever
  allocation fails, but for those of a member that could not be attached, which are in `lost`.
* *Reports.* That nothing leaks needs to know that no operation dies halfway, and so what the texts say. `RoundTrip` says that the text sent last carries a
  frame of a command or a query, that the registers hold no more than they have bytes for, and that `Survives` holds; `HeapInv` is what each operation leaves: no strays, at most
  one text lost without a failure, no wild free, nothing written outside a print buffer. Neither carries itself: whether `ws_receive_msg` dies depends on what the items it finds
  say of the text they were read from (`ParseTells`): an item with a name and a value stands for a place of the text where a string, a colon and that value follow each other, so
  that of a text that is `Sturdy` both items have a string with room.
* *Print and read.* `IsPrinted` says that a text is, but for its blanks, that of an object whose members have names and values, which `PrintIs` shows of whatever
  `PrintAndDelete` makes. `ReadAnywhere` says that a value, wherever it stands and whatever lists are open, takes the parser from wanting a value to having it: first of single
  tokens, then, member by member, of an object of such values, and so of an object in an object. `NestingLimit` is at least 2 for that. That the items then spell
  the text is `ParseTells`.
* *Session.* `Inv` ties the broker's session to `isconnected` and to where main is: what has a session is taken for connected, so main tears it down
  before it makes another, and a session for which no subscription was asked exists only inside `mqtt_conn_init`. A late publish takes session and
  `isconnected` away together, wherever main is.
* *Start-up.* Until `mqtt_conn_init` the session is in its initial state, and a start-up that ends the
  process is a session whose first attempt to connect failed.
* *Configuration.* `Loading` says where the load is in terms of whole lines: `Open` that the line buffer and the rest of the present whole
  line spell that line, so that what is parsed at its end is the line the reference means, however many lines it was written in; `Keeps` that without a failure
  the dictionary holds exactly the entries that the whole lines so far make, each with its latest value, and the section buffer the section they are in; `AllStem`
  that every value stored, failures or not, is the value of an entry of that name. The dictionary's part are lemmas about `dictionary_set`: a key
  that is there has its value replaced (`SetFound`), a new one takes the next empty slot, in a table that is grown when it is full (`RoomFor`, `SetNew`), and no other
  key changes (`SetGives`); keys are compared as well as hashes, so hashes that collide do no harm. The invariant without `Open` is not
  inductive: after a continued line the dictionary alone does not say what the next line completes.
* *Lines.* `sscanf` goes over its format one directive at a time. `ScanStep` says what one directive does to the place in the text and
  to what was got; for each format of `iniparser_line` the steps are followed one by one, and what they find is compared with
  what the line says, case by case (a section, a quoted value, a plain one, an empty one, `=;` and `=#`).
* *Signature.* `Holds(ctx, m)`: the blocks of a context that has taken the text m are those of m, and the buffer begins with what is left
  over. An update keeps it, whatever was in the buffer (`UpdateHolds`); the padding and the length fill the last
  block or two (`PaddingAsStandard`). Two passes of it are `HmacAsStandard`. `Signing` carries it through the program: the
  credentials are those `aiotMqttSign` accepted, and no later step touches them.
* *Recursion without induction.* `sscanf`, `strtok`, the lines joined, the size of a text, `Xor` and both CRCs are recursive functions, and the
  library's induction theorems are out of reach. `Iteration` shows that a function with f[0] = base and f[n] = step(f[n - 1]) exists, so that the
  `CHOOSE` of a recursive definition has its equation; `Ladder` says that a set with 0 in it and with n where n - 1 is in it has all places: both are proved from the
  well-foundedness of < on naturals, over sets instead of predicates.
* *Logger.* The log is always a tail of the lines that reached the disk. Of the last `currentFileSize` lines logged it has those that
  did, and so, when it is rotated, of the newest `MaxSize` lines; they are in it until the very rename that moves them, and a second rotation, which would
  remove them from the first backup, needs `MaxSize` more lines to be counted. Where
  renames work each target is empty by the time it is used. `SizesBounded` rests on
  `SizeInv`: the log is never longer than `currentFileSize` says, and a line is only written where there is room for it.

**Assumed.** Each module's assumptions on its constants, which the runs evaluate. Those that say something: in `Reports` no two switches share a register of a PLC
(`SwitchTable` has the files where they do; `Held` would have no one name), the value of a switch in a message of the hub is a number (`HubAssumption`: of any other the code reads a `valuedouble` nobody has set,
0 by `cJSON_New_Item`). The texts of the LoRaWAN server are any sequences of tokens. In `Startup`
a line of the file ends in at most one backslash (with two, and an empty line next, the parser takes the second one for a continuation again, and what the
line means is nobody's to say); the part of `ConfigAsWritten` about single settings is for files whose sections have names, as
`"[]"` leaves the buffer of the section before (`Named`). `HmacAsStandard` is for keys of at most 64 bytes, which
`utils_hmac_sha256` and `aiotMqttSign` require, and for messages whose length in bits fits a word (`FitsWord`), which
`MacSrcType` shows of the text that is signed: it has at most 155 bytes.

**Only model-checked:** all liveness (`QueueDrains`, `EveryMessageProcessed`, the fair half of `HubQueue`'s
refinement, `Recovers`, `RoundsGoOn`, `CallsReturn`, `CommandsGetThrough`, `QueriesGetThrough`), since fairness and ENABLED
are beyond the prover; the compression function of `Sha256Block`, whose operators are RECURSIVE; and two invariants of `Reports`. `ParsesExactly` says for which texts the parser succeeds, against a language that is
defined by recursion on the nesting (`JsonTexts`); its halves that are proved are that what is accepted is said exactly (`ParseTells`) and that all that is printed is accepted (`PrintedAndRead`). `CommandsArrive`
rests in addition on finding in a message the item that a name stands for; its part that is proved is the frame and its text (`CommandsReadable`). `WeatherDecoded` and `RegistersDecoded` are evaluated for the instance. `CrcTables`, that the entries of the tables are what the polynomial asks
for, is an assumption that the runs evaluate, all 256 bytes of it: it is a fact about literals.

## 5. What is not modelled

* Of `cJSON.c`, `iniparser.c` and `dictionary.c`: the functions that the program never calls (duplicate, compare, minify, replace, detach,
  arrays of numbers; unset, dump, lists of sections), characters within words, and the text of numbers.
* `msgid_in_payload`, timestamps and the format of the log, client id and user name of the session (copies).
* What the program does with a wind direction that `dirs` does not have (undefined: an index out of range).
* Memory below the level of nodes and blocks (stack buffers, string lengths), and what Paho does with a client that two threads use.
* libwebsockets and Paho: linked as binaries. Their headers, under `src/include/`, are vendored and hold no behaviour of this program; they are three
  quarters of the repository's lines, all C sources together being 6 500 of 26 900.

## 6. Plan

*Done*: the two queues with their abstract specification and proofs; tables and scan with proofs; session and start-up with
proofs; logger with proofs; gateway with proofs; frames with proofs; JSON and reports, with the heap, the way to the process's death and the texts that are read back proved; configuration syntax, dictionary and signature with proofs.

Left, in order: `CommandsArrive` as a theorem, for which the items of a message have to be found by their names; `Gateway` composed with the refinements of the
two real queues in one theorem; the shared `mclient` with a library that can be interrupted.
