------------------------------- MODULE Startup -------------------------------
(***************************************************************************)
(* From edgebox.ini to the MQTT session: iniparser_load (iniparser.c),     *)
(* readConfig, drop_root_priviledge and main (edgebox.c), and then         *)
(* MqttSession with the password that aiotMqttSign makes of the settings.  *)
(*                                                                         *)
(* A line of the file is a text of Iniparser without its newline, which    *)
(* every line has, and ends in one backslash at most.                      *)
(***************************************************************************)
EXTENDS MqttSession, Dictionary, Iniparser, Sha256

CONSTANTS Files,           \* the files the process may find
          ASCIILINESZ,     \* the size of the line buffer
          Accounts,        \* the users of the machine
          MaxFailures      \* bound: allocations that fail

LogLevels == {<<"debug2">>, <<"debug1">>, <<"debug">>, <<"info">>, <<"error">>}

Entry(name, key) == <<name, ":", key>>
ProductKey == Entry("mqtt", "edgebox_product_key")
DeviceName == Entry("mqtt", "edgebox_device_name")
DeviceSecret == Entry("mqtt", "edgebox_device_secret")
Address ==
  {Entry("weather_station", a) : a \in {"temp_humi_addr", "wind_dir_addr", "wind_speed_addr"}}
NodeList == Entry("lora", "lora_node_list")
LogLevel == Entry("logging", "loglevel")
LogFile == Entry("logging", "logfile")
User == Entry("system", "user")
Setting ==
  {ProductKey, DeviceName, DeviceSecret, NodeList, LogFile, LogLevel, User,
   Entry("lora", "websocket_url"), Entry("weather_station", "lora_devaddr")} \cup Address

\* A line that ends in a backslash goes on in the next one.
GoesOn(text) == text # <<>> /\ Last(text) = "\\"

ASSUME StartupAssumption ==
  /\ \A f \in Files :
       /\ f \in Seq(Seq(Token))
       /\ \A i \in DOMAIN f : GoesOn(WithoutEnd(f[i])) => ~ GoesOn(WithoutEnd(Front(WithoutEnd(f[i]))))
  /\ None \notin Seq(Token \cup {":"})
  /\ ASCIILINESZ \in Nat /\ MaxFailures \in Nat

VARIABLES
  at,           \* where main is before it calls mqtt_conn_init
  file,         \* the lines of edgebox.ini
  line,         \* how many of them have been read
  pending,      \* the line buffer up to "last": lines that ended in a backslash
  section,      \* the buffer for the name of the section
  errs,         \* a line was a syntax error
  dict,         \* the dictionary
  config,       \* the globals that readConfig sets
  lora_list,    \* the list at lora_list_head
  uid,          \* whom the process runs as
  failures

fileVars == <<file, line, pending, section, errs, dict>>
startVars == <<at, fileVars, config, lora_list, uid, failures>>
allVars == <<startVars, vars>>

StartInit ==
  /\ Init
  /\ at = "load"
  /\ file \in Files
  /\ line = 0
  /\ pending = <<>>
  /\ section = <<>>
  /\ errs = FALSE
  /\ dict = dictionary_new
  /\ config = [k \in Setting |-> None]
  /\ lora_list = <<>>
  /\ uid \in {"root", "user"}
  /\ failures = 0

\* exit(-1), a return of main, or a crash.
Exits ==
  /\ at' = "exited" /\ main' = "exited"
  /\ UNCHANGED <<fileVars, config, lora_list, uid>>
  /\ UNCHANGED <<startup, netVars, isconnected, topics, session, ws, drops>>

-----------------------------------------------------------------------------
(* iniparser_load.                                                         *)

\* The buffer once a line has been read behind what is in it.
Buffer(raw) == WithoutEnd(pending \o raw)

\* "Safety check against buffer overflows": fgets found no newline.
TooLong(raw) == Size(pending \o raw) + 1 >= ASCIILINESZ

\* What iniparser_load does about what iniparser_line has found.
StoreLine(found, fails) ==
  CASE found.status = "section" -> dictionary_set(dict, found.section, None, fails)
    [] found.status = "value" -> dictionary_set(dict, found.section \o <<":">> \o found.key, found.value, fails)
    [] OTHER -> [rc |-> "ok", dict |-> dict]

\* One turn of the loop over the lines.  Where the copy of the line cannot be
\* allocated, it is taken for an empty one; where the table cannot grow, the
\* loop ends.
LoadLine ==
  /\ at = "load" /\ line < Len(file) /\ ~ TooLong(file[line + 1])
  /\ LET text == Buffer(file[line + 1])
     IN IF GoesOn(text)
        THEN pending' = Front(text) /\ UNCHANGED <<at, section, errs, dict, failures>>
        ELSE /\ pending' = <<>>
             /\ \E fails \in SUBSET {"copy", "grow", "key", "val"} :
                  LET found == iniparser_line(IF "copy" \in fails THEN <<>> ELSE text, section)
                      stored == StoreLine(found, fails)
                  IN /\ failures + Cardinality(fails) <= MaxFailures
                     /\ failures' = failures + Cardinality(fails)
                     /\ section' = found.section
                     /\ errs' = (errs \/ found.status = "error")
                     /\ dict' = stored.dict
                     /\ at' = IF stored.rc = "error" THEN "loaded" ELSE at
  /\ line' = line + 1
  /\ UNCHANGED <<file, config, lora_list, uid, vars>>

EndOfFile ==
  /\ at = "load" /\ line = Len(file)
  /\ at' = "loaded"
  /\ UNCHANGED <<fileVars, config, lora_list, uid, failures, vars>>

\* The file is not there, a line is too long, or the dictionary is not allocated.
LoadFails ==
  /\ at = "load"
  /\ \/ line = 0
     \/ line < Len(file) /\ TooLong(file[line + 1])
  /\ Exits
  /\ UNCHANGED failures

-----------------------------------------------------------------------------
(* readConfig and the rest of main's start-up.                             *)

getstring(key) == dictionary_get(dict, key, None)

\* strcasecmp of no log level, or strtol of an address that has no text.
Crashes ==
  \/ getstring(LogLevel) = None
  \/ \E key \in Address : dictionary_get(dict, key, "invalid") = None

\* The pieces that strtok cuts a text into at its commas, each put in front of the
\* list.
strtok(text) ==
  LET list[k \in 0 .. Len(text)] ==
        IF k = 0 THEN <<>>
        ELSE IF text[k] = "," THEN list[k - 1]
        ELSE IF k = 1 \/ text[k - 1] = "," THEN <<<<text[k]>>>> \o list[k - 1]
        ELSE [list[k - 1] EXCEPT ![1] = Append(@, text[k])]
  IN list[Len(text)]

\* readConfig with the dictionary of a file without errors.  An address that is
\* not set is -1.
readConfig ==
  /\ at = "loaded" /\ ~ errs /\ getstring(ProductKey) # None /\ ~ Crashes
  /\ at' = "configured"
  /\ config' = [k \in Setting |->
       IF k = LogLevel THEN (IF Lowered(getstring(k)) \in LogLevels THEN Lowered(getstring(k)) ELSE <<"info">>)
       ELSE dictionary_get(dict, k, IF k \in Address THEN <<"-1">> ELSE None)]
  /\ lora_list' = IF getstring(NodeList) = None THEN <<>> ELSE strtok(getstring(NodeList))
  /\ UNCHANGED <<fileVars, uid, failures, vars>>

\* Also where a node of the list cannot be allocated.
readConfigFails ==
  /\ at = "loaded"
  /\ \/ errs \/ getstring(ProductKey) = None \/ Crashes
     \/ failures < MaxFailures /\ getstring(NodeList) # None /\ strtok(getstring(NodeList)) # <<>>
  /\ Exits
  /\ UNCHANGED failures

drop_root_priviledge ==
  /\ at = "configured"
  /\ at' = "logging"
  /\ uid' = IF uid = "root" /\ config[User] \in Accounts THEN "user" ELSE uid
  /\ UNCHANGED <<fileVars, config, lora_list, failures, vars>>

\* logging_init, readSwitches, init_websocket and the hub handler's thread, which
\* are modules of their own: here each goes on or ends the process.
StartsPart(from, to) ==
  /\ at = from
  /\ at' = to
  /\ UNCHANGED <<fileVars, config, lora_list, uid, failures, vars>>

logging_init == config[LogFile] # None /\ StartsPart("logging", "switches")
readSwitches == StartsPart("switches", "websocket")
init_websocket == StartsPart("websocket", "handler")
handler_thread == StartsPart("handler", "session")

PartFails ==
  /\ at \in {"logging", "switches", "websocket", "handler"}
  /\ Exits
  /\ UNCHANGED failures

-----------------------------------------------------------------------------
(* mqtt_conn_init with its password.                                       *)

\* The bytes of a text.
Bytes(text) == FlattenSeq([k \in DOMAIN text |-> Text(text[k], Length[text[k]])])

\* aiotMqttSign returns -1: mqtt_conn_init ends before it opens the network.
SignRefuses ==
  \/ None \in {config[ProductKey], config[DeviceName], config[DeviceSecret]}
  \/ Len(Bytes(config[ProductKey])) > 20
  \/ Len(Bytes(config[DeviceName])) > 32
  \/ Len(Bytes(config[DeviceSecret])) > 64

\* The password it makes otherwise.
aiotMqttSign ==
  utils_hmac_sha256(MacSrc(Bytes(config[ProductKey]), Bytes(config[DeviceName])),
                    Bytes(config[DeviceSecret]))

MqttStep ==
  /\ at = "session"
  /\ MqttConnInit
  /\ main = "network" /\ SignRefuses => NetworkFails
  /\ UNCHANGED startVars

LoopStep == at = "session" /\ MainLoop /\ UNCHANGED startVars

PublishStep == at = "session" /\ PublishEnds /\ UNCHANGED startVars

OtherStep == at = "session" /\ (PublishBegins \/ Drop \/ Terminate) /\ UNCHANGED startVars

StartStep ==
  \/ LoadLine \/ EndOfFile \/ LoadFails \/ readConfig \/ readConfigFails
  \/ drop_root_priviledge \/ logging_init \/ readSwitches \/ init_websocket \/ handler_thread
  \/ PartFails

StartNext == StartStep \/ MqttStep \/ LoopStep \/ PublishStep \/ OtherStep

StartSpec == StartInit /\ [][StartNext]_allVars

\* WF_allVars(StartStep): a step is enabled as long as the start-up has not ended.
MainStarts == []<>(at \in {"session", "exited"}) \/ []<><<StartStep>>_allVars

\* Main runs; the rest is the fairness of MqttSession.
StartFairSpec ==
  /\ StartSpec /\ MainStarts
  /\ WF_allVars(MqttStep \/ LoopStep) /\ WF_allVars(PublishStep)
  /\ SF_allVars(MqttStep /\ NetworkConnects) /\ SF_allVars(MqttStep /\ Connects)
  /\ SF_allVars(MqttStep /\ Subscribes)

-----------------------------------------------------------------------------
(* What a file says, line by line and independently of the parser.         *)

\* Line i goes on from the line before it.
Continues(f, i) == i > 1 /\ GoesOn(WithoutEnd(f[i - 1]))

\* Every line with those that go on from it.
Whole(f) ==
  LET text[i \in 1 .. Len(f) + 1] ==
        IF i > Len(f) THEN <<>>
        ELSE LET own == WithoutEnd(f[i]) IN IF GoesOn(own) THEN Front(own) \o text[i + 1] ELSE own
  IN text

\* The lines that go on from none and whose end is in the file.
Heads(f) == {i \in DOMAIN f : ~ Continues(f, i) /\ \E j \in i .. Len(f) : ~ GoesOn(WithoutEnd(f[j]))}

SectionAt(f, i) ==
  LET before == {j \in Heads(f) : j < i /\ IsSection(Whole(f)[j])}
  IN IF before = {} THEN <<>> ELSE SectionName(Whole(f)[Max(before)])

\* The files that can be loaded.
WellFormed ==
  {f \in Files : \A i \in Heads(f) :
     LET text == Whole(f)[i]
     IN Size(text) + 1 < ASCIILINESZ /\ (IsNote(text) \/ IsSection(text) \/ IsEntry(text))}

\* What the lines of a file say of a key.  A section says of its name that it has no
\* value.
Entries ==
  [f \in Files |->
     {[line |-> i, key |-> SectionAt(f, i) \o <<":">> \o KeyName(Whole(f)[i]), name |-> KeyName(Whole(f)[i]),
       value |-> ValueIn(Whole(f)[i])] : i \in {n \in Heads(f) : IsEntry(Whole(f)[n])}}
     \cup
     {[line |-> i, key |-> SectionName(Whole(f)[i]), name |-> <<>>, value |-> None] :
        i \in {n \in Heads(f) : IsSection(Whole(f)[n])}}]

\* The files whose sections all have a name: after "[]" the buffer for the name
\* holds what it held, cut to the length of the line.
Named == {f \in Files : \A i \in Heads(f) : IsSection(Whole(f)[i]) => strstrip(Whole(f)[i])[2] # "]"}

\* What a setting is if its entry in the file is not there, or not known.
Default(key) == IF key \in Address THEN <<"-1">> ELSE IF key = LogLevel THEN <<"info">> ELSE None
Known(key, text) ==
  IF key # LogLevel \/ text = None THEN text ELSE IF Lowered(text) \in LogLevels THEN Lowered(text) ELSE Default(key)

\* What a file says of a setting: the last of its entries counts.
Said(f, key) ==
  LET gives == {e \in Entries[f] : e.key = key}
      last == CHOOSE e \in gives : \A d \in gives : d.line <= e.line
  IN IF gives = {} THEN Default(key) ELSE Known(key, last.value)

\* The pieces of a text between its commas: where they begin and end.
Pieces(text) ==
  {p \in (1 .. Len(text)) \X (1 .. Len(text)) :
     /\ p[1] <= p[2] /\ \A k \in p[1] .. p[2] : text[k] # ","
     /\ (p[1] = 1 \/ text[p[1] - 1] = ",") /\ (p[2] = Len(text) \/ text[p[2] + 1] = ",")}

\* A list holds every piece of a text once, the last one first.
ListsPieces(list, text) ==
  \E ends \in [DOMAIN list -> Pieces(text)] :
    /\ \A p \in Pieces(text) : \E i \in DOMAIN list : ends[i] = p
    /\ \A i, j \in DOMAIN list : i < j => ends[j][2] < ends[i][1]
    /\ \A i \in DOMAIN list : list[i] = SubSeq(text, ends[i][1], ends[i][2])

-----------------------------------------------------------------------------
(* Properties.                                                             *)

\* A file with a syntax error or a line too long starts nothing.  Otherwise, if
\* its sections have names, every setting is the last value the file gives it, over sections that are repeated,
\* lines that continue, a table that grows and hashes that collide.  Where memory
\* ran out while the file was loaded, it may be an older value of the same setting
\* or none, and after it a section may be wrong; a setting never takes a value
\* that the file does not have.  The nodes are in their list, last one first.
ConfigAsWritten ==
  at \notin {"load", "loaded", "exited"} =>
    /\ failures = 0 =>
         file \in WellFormed /\ (file \in Named => \A key \in Setting : config[key] = Said(file, key))
    /\ \A key \in Setting :
         \/ config[key] = Default(key) \/ config[key] = None
         \/ \E e \in Entries[file] : e.name = <<key[3]>> /\ config[key] = Known(key, e.value)
    /\ IF config[NodeList] = None THEN lora_list = <<>> ELSE ListsPieces(lora_list, config[NodeList])

\* The password sent to the hub is the HMAC of the device's credentials, whatever
\* their lengths are: the update of partly filled buffers and the padding cut the
\* text into the blocks that the standards say.
PasswordSigns ==
  main \in {"client", "connect"} =>
    /\ None \notin {config[ProductKey], config[DeviceName], config[DeviceSecret]}
    /\ aiotMqttSign = Hmac(MacSrc(Bytes(config[ProductKey]), Bytes(config[DeviceName])),
                           Bytes(config[DeviceSecret]))

=============================================================================
