------------------------------ MODULE Reports ------------------------------
(***************************************************************************)
(* A round trip between the IoT hub and the PLC of a LoRa node.  A message *)
(* of the hub becomes a list of switches (process_single_iot_hub_msg) and  *)
(* each of them a frame that sets a register (run_command_on_lora_node); a *)
(* query asks for registers (statusquery.c).  What comes back is           *)
(* overwritten with a text for test (wsclient.c), decoded and published    *)
(* under the names of switches.json (eb_report_switch_data_for_loranode)   *)
(* or as the weather station's.  Everything travels as JSON text, which    *)
(* cJSON.c reads and writes; any one allocation of it may fail.            *)
(*                                                                         *)
(* The hub, the LoRaWAN server, the PLC and the station are external: they *)
(* are modelled from the texts and frames that the code sends and expects. *)
(***************************************************************************)
EXTENDS Frames, Cjson, FiniteSets

CONSTANTS Switch,           \* name -> its PLC, register to set and register to read, size
          HubMessage,       \* messages of the hub: their text and what it says
          FirstText,        \* what the LoRaWAN server may have sent before anything else
          ServerText,       \* what else it may send at any time
          LoraNode,         \* the serial number of the LoRa node of the PLCs
          Station,          \* weather_lorasn
          MaxAllocations,   \* of cJSON in one operation
          MaxRead,          \* MAX_REG_IN_ONE_READ
          Max1ByteLenReg,   \* MAX_1BYTE_LEN_REG
          Reading,          \* what the weather station can measure: <<sensor, values>>
          StackDigit,       \* the hexadecimal digits that dir[4] may happen to hold
          NULL

Name == DOMAIN Switch

\* SwitchTable has the files that name a register twice.
ASSUME SwitchAssumption ==
  /\ IsFiniteSet(Name)
  /\ \A n \in Name : /\ Switch[n].plc \in Byte /\ Switch[n].size \in {1, 2}
                      /\ Switch[n].channel \in Word16 /\ Switch[n].reg \in Word16
  /\ \A n, o \in Name :
       Switch[n].plc = Switch[o].plc /\ (Switch[n].reg = Switch[o].reg \/ Switch[n].channel = Switch[o].channel) => n = o

\* The words of the program's own texts.
ASSUME WordsAssumption ==
  /\ Name \subseteq Words /\ LoraNode \in Words /\ Station \in Words /\ LoraNode # Station
  /\ {"data", "devaddr", "port", "time", "immediately", "id", "method", "thing.event.property.post",
      "params", "loraNodeSerialNo", "7076e841", "00000000", "temperature", "humidity", "windDirection",
      "windSpeed"} \subseteq Words

\* The values that a text gives to a name, wherever it stands.
Values(text, name) ==
  LET bare == NoBlanks(text)
  IN {bare[j + 2] : j \in {i \in 1 .. Len(bare) - 2 :
                            bare[i].t = "string" /\ bare[i].s = name /\ bare[i + 1] = Punct("colon")}}

ASSUME ServerAssumption == FirstText \cup ServerText \subseteq Seq(Tokens)

\* The values of switches are numbers.
ASSUME HubAssumption ==
  \A msg \in HubMessage : /\ msg.text \in Seq(Tokens)
                          /\ \A n \in Name : \A v \in Values(msg.text, n) : v.t = "number"

\* The program's texts are objects with one in them; the station is asked for two registers.
ASSUME ReportsAssumption ==
  /\ NestingLimit >= 2 /\ MaxRead \in 1 .. 125 /\ Max1ByteLenReg \in Nat /\ StackDigit \subseteq 0 .. 15
  /\ MaxAllocations \in Nat
  /\ \A reading \in Reading : /\ reading[1] \in Byte
                               /\ reading[2] \in Seq(-128 * 256 .. 256 * 256 - 1) /\ Len(reading[2]) = 2

VARIABLES
  reg,       \* the registers of the PLCs: name -> value
  at,        \* where a text is: "down" to a node, "up" to the gateway, or "idle";
             \* "dead" once the process has crashed
  sent,      \* the text last sent to a node
  received,  \* the text on its way up
  published, \* the text that the last message received was published as
  lora,      \* loranodesn of the message being processed
  list,      \* its switches that are still to be set: <<name, value>>, front first
  wanted,    \* history: name -> the value last commanded
  measured,  \* history: the reading on the air, or NULL
  spoilt,    \* history: a text has come that strcpy or sprintf may not survive
  failed,    \* history: an allocation has failed
  left       \* what the last operation has left of the heap

vars == <<reg, at, sent, received, published, lora, list, wanted, measured, spoilt, failed, left>>

\* strays: live blocks that somebody should have freed.
Left(heap) == [strays |-> heap.live \ heap.lost, lost |-> Cardinality(heap.lost),
               wild |-> heap.wild, over |-> heap.over]

Init ==
  /\ reg = [n \in Name |-> 0] /\ wanted = reg
  /\ \/ at = "idle" /\ received = <<>>
     \/ at = "up" /\ received \in FirstText
  /\ sent = <<>> /\ published = <<>>
  /\ lora = "" /\ list = <<>>
  /\ measured = NULL /\ spoilt = FALSE
  /\ failed = FALSE /\ left = Left(Heap(0))

\* Which allocation of an operation may fail, 0 for none: at most one in a behaviour.
Failure == IF failed THEN {0} ELSE 0 .. MaxAllocations

\* The operation that leaves this heap behind met failure k.
Leaves(heap, k) ==
  /\ k <= heap.made
  /\ failed' = (failed \/ k # 0)
  /\ left' = Left(heap)

-----------------------------------------------------------------------------
(* Towards the nodes.                                                      *)

\* What a function does that builds an object, prints it, uses the text and deletes
\* the object: "none" if it ends early, "dies" if it uses the text that could not be
\* printed.  The text itself is not freed.
PrintAndDelete(b) ==
  LET Deleted(p) == IF ~ p.ok THEN [how |-> "dies", text |-> <<>>, heap |-> p.heap]
                    ELSE [how |-> "text", text |-> p.text,
                          heap |-> cJSON_Delete([p.heap EXCEPT !.lost = @ \cup {p.printed}], b.items)]
  IN IF b.ok THEN Deleted(cJSON_Print(b.heap, b.items))
     ELSE [how |-> "none", text |-> <<>>, heap |-> cJSON_Delete(b.heap, b.items)]

construct_json_text2lora(ascii_data, lorasn, heap) ==
  PrintAndDelete(AddMembers(cJSON_CreateObject(heap),
    << <<"data", Frame(ascii_data)>>, <<"devaddr", Word(lorasn)>>,
       <<"port", Num(20)>>, <<"time", Word("immediately")>> >>))

\* construct_json_text2lora and eb_ws_write: one text is on the air at a time.
\* Without an object json_text stays as the stack had it, as the text before or
\* empty.
Sends(lorasn, bytes, k) ==
  /\ at = "idle"
  /\ \E json \in {construct_json_text2lora(hex2ascii(bytes), lorasn, Heap(k))} :
       /\ at' = IF json.how = "dies" THEN "dead" ELSE "down"
       /\ sent' \in CASE json.how = "text" -> {json.text}
                      [] json.how = "none" -> {<<>>, sent}
                      [] json.how = "dies" -> {sent}
       /\ Leaves(json.heap, k)
  /\ published' = <<>> /\ measured' = NULL
  /\ UNCHANGED <<reg, received, lora>>

\* valueint, or ten times valuedouble.
Value(name, tenths) ==
  IF name = "waterFertilizerPressure" THEN tenths
  ELSE IF tenths < 0 THEN - ((- tenths) \div 10) ELSE tenths \div 10

\* The loop of process_single_iot_hub_msg at an item of params: the switch list is
\* built in front, and the values of its switches are numbers.
Seen(r, e) ==
  CASE e.string.s = "loraNodeSerialNo" -> [r EXCEPT !.lora = e.valuestring.s]
    [] e.string.s # "loraNodeSerialNo" /\ e.string.s \in Name ->
         [r EXCEPT !.list = <<<<e.string.s, Value(e.string.s, e.valuedouble[1])>>>> \o @]
    [] OTHER -> r

\* strcpy of a serial number that is no string, which has no valuestring.
CopiesNothing(params) ==
  \E j \in Children(params) :
    params[j].string.at # 0 /\ params[j].string.s = "loraNodeSerialNo" /\ params[j].type # "string"

ListOf(params) ==
  LET after[n \in 0 .. Len(params)] ==
        IF n = 0 THEN [lora |-> "", list |-> <<>>]
        ELSE IF n \in Children(params) /\ params[n].string.at # 0 THEN Seen(after[n - 1], params[n]) ELSE after[n - 1]
  IN after[Len(params)]

\* What a message asks for: the value of each register.
Asked(msg) ==
  LET Tenths(n) == CHOOSE v \in {msg.params[j][2].n[1] : j \in {i \in DOMAIN msg.params : msg.params[i][1] = n}} : TRUE
  IN [n \in {msg.params[j][1] : j \in DOMAIN msg.params} \cap Name |-> Value(n, Tenths(n))]

IsFor(msg, lora_sn) == <<"loraNodeSerialNo", Word(lora_sn)>> \in ToSet(msg.params)

\* Up to run_command_on_lora_node.
process_single_iot_hub_msg(msg, k) ==
  /\ at = "idle" /\ list = <<>>
  /\ \E root \in {cJSON_Parse(Heap(k), msg.text)} :
       /\ \E params \in {cJSON_GetObjectItem(root.items, "params")} :
            /\ at' = IF CopiesNothing(params) THEN "dead" ELSE at
            /\ lora' = ListOf(params).lora /\ list' = ListOf(params).list
       /\ Leaves(cJSON_Delete(root.heap, root.items), k)
  /\ wanted' = IF IsFor(msg, LoraNode) THEN Asked(msg) @@ wanted ELSE wanted
  /\ spoilt' = (spoilt \/ \E v \in Values(msg.text, "loraNodeSerialNo") : v.t # "string")
  /\ published' = <<>> /\ measured' = NULL
  /\ UNCHANGED <<reg, sent, received>>

\* One pass of its loop.
run_command_on_lora_node(k) ==
  /\ list # <<>> /\ list' = Tail(list)
  /\ LET p == Switch[Head(list)[1]]
     IN Sends(lora, WriteFrame(p.plc, p.channel, Head(list)[2]), k)
  /\ UNCHANGED <<wanted, spoilt>>

\* The status scan asks for a run of registers of one size.
run_single_switch_query_command(plc, size, start_reg, num_reg, k) ==
  LET asked == {n \in Name : /\ Switch[n].plc = plc /\ Switch[n].size = size
                             /\ Switch[n].reg \in start_reg .. start_reg + num_reg - 1}
  IN /\ list = <<>> /\ Cardinality(asked) = num_reg
     /\ Sends(LoraNode, ReadFrame(plc, start_reg, num_reg), k)
     /\ UNCHANGED <<list, wanted, spoilt>>

send_weather_info_request(target_addr, k) ==
  /\ list = <<>>
  /\ Sends(Station, ReadFrame(target_addr, 0, 2), k)
  /\ UNCHANGED <<list, wanted, spoilt>>

-----------------------------------------------------------------------------
(* The LoRaWAN server and the nodes.                                       *)

\* The value of a member of a flat object, or a token that is none.
MemberOf(text, name) ==
  LET bare == NoBlanks(text)
      found == {k \in 1 .. Len(bare) - 2 : bare[k] = Word(name) /\ bare[k + 1] = Punct("colon")}
  IN IF found = {} THEN Blank ELSE bare[Min(found) + 2]

Carried == ascii2hex(MemberOf(sent, "data").n)

\* The server hands the frame on to a node, for which it is sound.
Reaches(lorasn) == at = "down" /\ MemberOf(sent, "devaddr") = Word(lorasn) /\ Sound(Carried)

Answers(lorasn, bytes) ==
  /\ at' = "up"
  /\ received' = Object(<< <<"devaddr", <<Word(lorasn)>>>>, <<"data", <<Frame(hex2ascii(bytes))>>>> >>)

\* Nobody takes notice of a text without a node, or of a frame that is not sound.
Ignored ==
  /\ at = "down" /\ at' = "idle"
  /\ ~ Reaches(LoraNode) /\ ~ Reaches(Station)
  /\ UNCHANGED <<reg, sent, received, published, lora, list, wanted, measured, spoilt, failed, left>>

\* The values of registers start, start + 1, ... of a PLC, one or two bytes each.
Held(plc, start, num) ==
  LET name(r) == CHOOSE n \in Name : Switch[n].plc = plc /\ Switch[n].reg = r
      data(n) == IF Switch[n].size = 1 THEN <<reg[n]>> ELSE Bytes2(reg[n])
  IN Concat([j \in 1 .. num |-> data(name(start + j - 1))])

\* The reply of a PLC: in front of the values their number of bytes and the address.
ReplyFrame(plc, start, values) ==
  <<plc, FC_READ, Len(values) + 2, start \div 256, start % 256>> \o values \o <<255, 255>>

\* A PLC sets a register, or answers with the values.
PlcActs ==
  /\ Reaches(LoraNode)
  /\ \E frame \in {Carried} :
       LET start == frame[3] * 256 + frame[4]
           last == frame[5] * 256 + frame[6]
       IN \/ /\ frame[2] = FC_WRITE
             /\ reg' = [n \in Name |-> IF Switch[n].plc = frame[1] /\ Switch[n].channel = start
                                       THEN IF Switch[n].size = 1 THEN last % 256 ELSE last ELSE reg[n]]
             /\ at' = "idle" /\ UNCHANGED received
          \/ /\ frame[2] = FC_READ
             /\ Answers(LoraNode, ReplyFrame(frame[1], start, Held(frame[1], start, last)))
             /\ UNCHANGED reg
  /\ UNCHANGED <<sent, published, lora, list, wanted, measured, spoilt, failed, left>>

\* The weather station answers with what the sensor measures.
WeatherFrame(reading) ==
  LET values == Concat([j \in DOMAIN reading[2] |-> Bytes2(reading[2][j])])
  IN <<reading[1], FC_READ, Len(values)>> \o values \o <<255, 255>>

StationAnswers(reading) ==
  /\ Reaches(Station) /\ Carried[1] = reading[1]
  /\ Answers(Station, WeatherFrame(reading))
  /\ measured' = reading
  /\ UNCHANGED <<reg, sent, published, lora, list, wanted, spoilt, failed, left>>

\* The LoRaWAN server sends something else.
ServerSays(text) ==
  /\ at = "idle" /\ at' = "up" /\ list = <<>>
  /\ received' = text
  /\ measured' = NULL /\ published' = <<>>
  /\ UNCHANGED <<reg, sent, lora, list, wanted, spoilt, failed, left>>

-----------------------------------------------------------------------------
(* From the websocket to the hub.                                          *)

\* The value of register i of a reply: "hexdata[i*2]<<8 + hexdata[i*2+1]" shifts
\* by the sum.
RegValue(hexdata, i, reg_size) ==
  IF reg_size = 1 THEN hexdata[i + 1] ELSE hexdata[2 * i + 1] * 2 ^ (8 + hexdata[2 * i + 2])

\* What eb_publish is given, but for the running number: "id" is 0 here.
Post == Word("thing.event.property.post")

\* eb_report_switch_data_for_loranode: registers without a name are passed over, and
\* a PLC nobody knows ends it before the registers.
Report(lorasn, plc, start_addr, hexdata, len, reg_size, heap) ==
  LET value(n, i) == IF n = "waterFertilizerPressure" THEN RegValue(hexdata, i, reg_size)
                     ELSE 10 * RegValue(hexdata, i, reg_size)
      named(addr) == {n \in Name : Switch[n].plc = plc /\ Switch[n].reg = addr}
      member(i) == LET n == CHOOSE n \in named(start_addr + i) : TRUE IN <<n, Num(value(n, i))>>
      members == Concat([j \in 1 .. len \div reg_size |->
                           IF named(start_addr + j - 1) = {} THEN <<>> ELSE <<member(j - 1)>>])
      head == AddMembers(cJSON_CreateObject(heap), << <<"id", Num(0)>>, <<"method", Post>> >>)
      root == AddObject(head, "params", << <<"loraNodeSerialNo", Word(lorasn)>> >> \o members)
  IN PrintAndDelete([root EXCEPT !.ok = @ /\ \E n \in Name : Switch[n].plc = plc])

\* eb_ws_parse_non_weather_data
NonWeather(lorasn, ascii, heap) ==
  LET hex == ascii2hex(ascii)
      start_addr == hex[4] * 256 + hex[5]
      reg_size == IF start_addr <= Max1ByteLenReg THEN 1 ELSE 2
  IN Report(lorasn, hex[1], start_addr, SubSeq(hex, 6, Len(hex)), hex[3] - 2, reg_size, heap)

\* strtol of four digits, assigned to a short.
Signed16(n) == IF n >= 32768 THEN n - 65536 ELSE n

\* The weather_format of eb_report_temp_hum, eb_report_wind_dir and eb_report_wind_speed.
Formatted(members) ==
  Object(<< <<"id", <<Num(0)>>>>,
            <<"params", Object(<< <<"loraNodeSerialNo", <<Word("00000000")>>>> >> \o members)>>,
            <<"method", <<Post>>>> >>)

\* eb_ws_parse_weather_data, the texts it can publish, with no help of cJSON: dir is one
\* digit too long, the last one not initialised.  A number stands for the name of a wind
\* direction, of which dirs has 8.
Weather(ascii) ==
  LET sensor == Number(ascii, 1, 2)
      raw(k) == Number(ascii, k, k + 3)
  IN CASE sensor = 4 -> {Formatted(<< <<"temperature", <<Num(Signed16(raw(11)))>>>>, <<"humidity", <<Num(raw(7))>>>> >>)}
       [] sensor = 2 -> {Formatted(<< <<"windDirection", <<Num(d)>>>> >>) :
                           d \in {raw(7)} \cup {raw(7) * 16 + x : x \in StackDigit}}
       [] sensor = 1 -> {Formatted(<< <<"windSpeed", <<Num(raw(7))>>>> >>)}
       [] OTHER -> {<<>>}

\* The end of ws_receive_msg.
Publishes(root, report, k) ==
  /\ published' = report.text
  /\ at' = IF report.how = "dies" THEN "dead" ELSE "idle"
  /\ Leaves(IF report.how = "dies" THEN report.heap ELSE cJSON_Delete(report.heap, root.items), k)

\* "hard code for test": the address and the data that sprintf puts in place of those
\* of every message.
TestNode == "7076e841"
TestFrame == hex2ascii(<<1, 3, 4, 0, 7, 88, 1, 255, 255>>)

\* An item that is no string has no valuestring to print to.  The serial numbers have
\* the length of TestNode; of other texts the length is not known.
IsString(item) == item.type = "string"
HasRoom(devaddr, data) ==
  devaddr.valuestring.s \in {LoraNode, Station} /\ Len(data.valuestring.n) >= Len(TestFrame)

\* The weather is published without an object.
Decoded(heap) ==
  IF TestNode = Station THEN {[how |-> "text", text |-> text, heap |-> heap] : text \in Weather(TestFrame)}
  ELSE {NonWeather(TestNode, TestFrame, heap)}

\* Mutant of Handles: only data is looked for.
HandlesUnchecked(root, devaddr, data, k) ==
  \/ /\ data = <<>>
     /\ Publishes(root, [how |-> "none", text |-> <<>>, heap |-> root.heap], k)
  \/ /\ devaddr # <<>> /\ data # <<>> /\ IsString(devaddr[1]) /\ IsString(data[1])
     /\ \E report \in Decoded(root.heap) : Publishes(root, report, k)
  \/ /\ data # <<>>
     /\ devaddr = <<>> \/ ~ (IsString(devaddr[1]) /\ IsString(data[1]) /\ HasRoom(devaddr[1], data[1]))
     /\ Publishes(root, [how |-> "dies", text |-> <<>>, heap |-> root.heap], k)

\* What it does with the two items.  Where there is no room, what happens is
\* undefined: it goes on, or the process dies.
Handles(root, devaddr, data, k) ==
  \/ /\ devaddr = <<>> \/ data = <<>>
     /\ Publishes(root, [how |-> "none", text |-> <<>>, heap |-> root.heap], k)
  \/ /\ devaddr # <<>> /\ data # <<>> /\ IsString(devaddr[1]) /\ IsString(data[1])
     /\ \E report \in Decoded(root.heap) : Publishes(root, report, k)
  \/ /\ devaddr # <<>> /\ data # <<>>
     /\ ~ (IsString(devaddr[1]) /\ IsString(data[1]) /\ HasRoom(devaddr[1], data[1]))
     /\ Publishes(root, [how |-> "dies", text |-> <<>>, heap |-> root.heap], k)

\* A text whose addresses and data are strings as long as the ones for test.
Sturdy(text) ==
  /\ \A v \in Values(text, "devaddr") : v.t = "string" /\ v.s \in {LoraNode, Station}
  /\ \A v \in Values(text, "data") : v.t = "string" /\ Len(v.n) >= Len(TestFrame)

ws_receive_msg(k) ==
  /\ at = "up"
  /\ \E root \in {cJSON_Parse(Heap(k), received)} :
       Handles(root, cJSON_GetObjectItem(root.items, "devaddr"), cJSON_GetObjectItem(root.items, "data"), k)
  /\ spoilt' = (spoilt \/ ~ Sturdy(received))
  /\ received' = <<>>
  /\ UNCHANGED <<reg, sent, lora, list, wanted, measured>>

\* The process is gone.
Dead == at = "dead" /\ UNCHANGED vars

Next ==
  \/ \E msg \in HubMessage : \E k \in Failure : process_single_iot_hub_msg(msg, k)
  \/ \E k \in Failure :
       \/ run_command_on_lora_node(k)
       \/ \E n \in Name, num_reg \in 1 .. MaxRead :
            run_single_switch_query_command(Switch[n].plc, Switch[n].size, Switch[n].reg, num_reg, k)
       \/ \E reading \in Reading : send_weather_info_request(reading[1], k)
       \/ ws_receive_msg(k)
  \/ PlcActs
  \/ \E reading \in Reading : StationAnswers(reading)
  \/ Ignored
  \/ \E text \in ServerText : ServerSays(text)
  \/ Dead

Spec == Init /\ [][Next]_vars

-----------------------------------------------------------------------------
(* Properties.                                                             *)

\* mqtt.c:510, "Compose the Modbus frame to write the control command": once a message of
\* the hub has been run, every switch it names has its register set to the value it
\* gives, and no other register is set: what cJSON_Parse reads, the frame, its CRC and
\* the text that cJSON_Print writes around it say the same to the PLC.
CommandsArrive == at \notin {"down", "dead"} /\ list = <<>> /\ ~ failed => reg = wanted

\* The process dies only of an allocation that failed, or of a text whose serial
\* number, address or data is not the string that strcpy or sprintf take it for: not of
\* a member that is missing, of a text that breaks off or does not parse, or of a
\* register that has no name.
Survives == at = "dead" => failed \/ spoilt

\* What the hub takes from a text: the numbers in "params", in tenths.
Reported(text) ==
  LET bare == NoBlanks(text)
      params == {j \in DOMAIN bare : bare[j] = Word("params")}
      Says(j) == bare[j].t = "string" /\ bare[j + 1] = Punct("colon") /\ bare[j + 2].t = "number"
  IN IF params = {} THEN {}
     ELSE {<<bare[j].s, bare[j + 2].n[1]>> : j \in {i \in Min(params) .. Len(bare) - 2 : Says(i)}}

AsMeasured(reading, numbers) ==
  CASE reading[1] = 4 -> numbers = {<<"humidity", reading[2][1]>>, <<"temperature", reading[2][2]>>}
    [] reading[1] = 1 -> numbers = {<<"windSpeed", reading[2][1]>>}
    [] reading[1] = 2 -> {n[1] : n \in numbers} = {"windDirection"}

\* wsclient.c:202, "parse the data from weather station censors and call functions
\* defined in mqtt.c to report the weather info to IoT hub": temperature, humidity and
\* wind speed are reported as measured, and of the wind direction that there is one (it
\* may be wrong: see Weather).
WeatherAsMeasured ==
  at = "idle" /\ measured # NULL /\ ~ failed => AsMeasured(measured, Reported(published))

\* The JSON texts that cJSON_Parse has to know, by their kinds of tokens.
JsonTexts == JsonText(NestingLimit, {Punct("string")}, {Punct("number"), Punct("string"), Punct("null")})

\* cJSON.c:1009, "Parse an object - create a new root, and populate": cJSON_Parse accepts
\* a text if and only if it begins with JSON that is not nested too deeply, wherever white
\* space stands and whatever follows, and the items it makes say what the text says.
ParsesExactly ==
  at = "up" =>
    LET bare == NoBlanks(received)
        shape == [j \in DOMAIN bare |-> Punct(bare[j].t)]
        Exact(r) == IF r.ok THEN IsPrefix(Spell(r.items), bare) /\ NestsWithin(Spell(r.items), NestingLimit)
                    ELSE \A n \in DOMAIN bare : SubSeq(shape, 1, n) \notin JsonTexts
    IN Exact(cJSON_Parse(Heap(0), received))

\* cJSON.h:146, "the caller is always responsible to free the results": every block that
\* parsing, building, printing and deleting allocate is freed again, and none twice,
\* whichever allocation fails and wherever a text breaks off.  Two kinds are not: the
\* printed text, which both callers of cJSON_Print drop (mqtt.c:494, statusquery.c:206),
\* and a member that cJSON_AddItemToObject could not attach.
NothingElseLeaks ==
  at # "dead" =>
    /\ left.strays = {} /\ ~ left.wild
    /\ ~ failed => left.lost <= 1

\* cJSON.c:382, "realloc printbuffer if necessary to have at least "needed" bytes more":
\* cJSON_Print stays within its buffer however the text grows, and what it writes is a
\* text that cJSON_Parse reads back to the last token.
PrintsReadably ==
  LET SaysSo(r, text) == r.ok /\ Spell(r.items) = NoBlanks(text)
  IN /\ ~ left.over
     /\ \A text \in {sent, published} \ {<<>>} : SaysSo(cJSON_Parse(Heap(0), text), text)

=============================================================================
