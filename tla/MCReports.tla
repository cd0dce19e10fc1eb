----------------------------- MODULE MCReports -----------------------------
EXTENDS Reports

Row(plc, channel, reg_, size) == [plc |-> plc, channel |-> channel, reg |-> reg_, size |-> size]

\* One-byte registers on two PLCs: two next to each other, those of the text for test,
\* one after a gap with a register of its own to write, one with the address of another.
MCSwitch ==
  [n \in {"fan", "valve", "waterFertilizerPressure", "pump"} |->
     CASE n = "fan" -> Row(1, 0, 7, 1)
       [] n = "valve" -> Row(1, 1, 8, 1)
       [] n = "waterFertilizerPressure" -> Row(1, 255, 511, 1)
       [] n = "pump" -> Row(2, 0, 7, 1)]

\* Humidity and temperature, wind direction and wind speed of edgebox.ini's sensors.
MCReading == {<<4, <<999, -53>>>>, <<2, <<3, 0>>>>, <<1, <<127, 0>>>>}

\* The one sensor that status_query_thread asks at this commit (statusquery.c:35).
MCWindReading == {<<2, <<3, 0>>>>}

\* A message of the hub that says this, with blanks in front of the values.
Message(before, params, after) ==
  LET Spaced(members, blanks) == [j \in DOMAIN members |-> <<members[j][1], blanks \o <<members[j][2]>>>>]
  IN [text |-> Object(Spaced(before, <<>>) \o << <<"params", Object(Spaced(params, <<Blank>>))>> >> \o Spaced(after, <<Blank>>)),
      before |-> before, params |-> params, after |-> after]

\* What the hub sends to set these switches (name -> tenths) of a LoRa node.
Sets(lora_, names, tenths) ==
  Message(<< <<"method", Word("thing.service.property.set")>>, <<"id", Num(10)>> >>,
          [j \in DOMAIN names |-> <<names[j], Num(tenths[j])>>] \o << <<"loraNodeSerialNo", Word(lora_)>> >>,
          << <<"version", Word("1.0.0")>> >>)

Nothing(text_) == [text |-> text_, before |-> <<>>, params |-> <<>>, after |-> <<>>]

\* For several switches at once, one of them not in the table; for another LoRa node; with
\* the serial number first, or a number instead of it; and two messages that set nothing:
\* a text that ends early and one without params.
MCHubMessage ==
  {Sets("7076e841", <<"fan", "lamp", "valve">>, <<2550, 10, 1280>>),
   Sets("7076e841", <<"fan", "pump", "waterFertilizerPressure">>, <<0, 10, 23>>),
   Message(<<>>, << <<"loraNodeSerialNo", Word("7076e842")>>, <<"valve", Num(10)>> >>, <<>>),
   Message(<<>>, << <<"valve", Num(10)>>, <<"loraNodeSerialNo", Num(10)>> >>, <<>>),
   Nothing(Puncts(<<"object", "string", "colon", "object">>)),
   Nothing(Object(<< <<"id", <<Num(10)>>>> >>))}

\* The strings of all these texts.
MCWords ==
  {"data", "devaddr", "port", "time", "immediately", "id", "method", "version", "1.0.0", "params",
   "thing.event.property.post", "thing.service.property.set", "loraNodeSerialNo", "7076e800", "7076e841", "7076e842",
   "00000000", "temperature", "humidity", "windDirection", "windSpeed", "lamp", "a", ""} \cup Name

-----------------------------------------------------------------------------
(* Texts for the parser.                                                   *)

NumberShape == Punct("number")
StringShape == Punct("string")

Filled(text) ==
  [j \in DOMAIN text |-> IF text[j] = NumberShape THEN Num(10) ELSE IF text[j] = StringShape THEN Word("a") ELSE text[j]]

Alphabet == {Num(10), Word("a"), Punct("badstring"), Punct("null"), Blank} \cup
            {Punct(c) : c \in {"array", "endarray", "object", "endobject", "colon", "comma"}}

\* Every text of up to three tokens; texts nested twice and three times; every text that
\* comes of one nested twice when a token is left out, replaced or put in.
Base == JsonText(2, {StringShape}, {NumberShape})

MCFirstText ==
  LET texts == {Filled(text) : text \in Base}
      short == {text \in texts : Len(text) <= 7}
  IN UNION {[1 .. n -> Alphabet] : n \in 0 .. 3} \cup texts
     \cup {<<Punct("array")>> \o text \o <<Punct("endarray")>> : text \in texts}
     \cup UNION {{RemoveAt(text, j) : j \in DOMAIN text} : text \in texts}
     \cup UNION {{[text EXCEPT ![j] = c] : j \in DOMAIN text, c \in Alphabet} : text \in short}
     \cup UNION {{InsertAt(text, j, Blank) : j \in DOMAIN text} : text \in texts}

\* A text without devaddr, one without data, one of another node with a number for its
\* data, and one of a PLC nobody knows.
MCServerText ==
  {Object(<< <<"data", <<Frame(TestFrame)>>>> >>),
   Object(<< <<"devaddr", <<Word("7076e841")>>>> >>),
   Object(<< <<"devaddr", <<Word("7076e842")>>>>, <<"data", <<Num(10)>>>> >>),
   Object(<< <<"devaddr", <<Word("7076e841")>>>>, <<"data", <<Frame(hex2ascii(<<9, 3, 4, 0, 7, 88, 1, 255, 255>>))>>>> >>)}

-----------------------------------------------------------------------------
(* The decoders by themselves, on what ws_receive_msg would hand to them    *)
(* without its lines for test.                                              *)

\* The weather, a temperature below zero too, is formatted as measured.
ASSUME WeatherDecoded ==
  \A reading \in MCReading :
    \A text \in Weather(hex2ascii(WeatherFrame(reading))) : AsMeasured(reading, Reported(text))

\* The values of one-byte registers are reported each under its own name, if there is room
\* to print them, of which PrintsReadably is.
ASSUME RegistersDecoded ==
  \A plc \in {1, 2}, start \in 5 .. 9, values \in [1 .. 2 -> {0, 1, 255}] :
    LET names(j) == {n \in Name : Switch[n].plc = plc /\ Switch[n].reg = start + j - 1}
        report == NonWeather(LoraNode, hex2ascii(ReplyFrame(plc, start, values)), Heap(0))
    IN report.how # "dies" => Reported(report.text) = UNION {{<<n, 10 * values[j]>> : n \in names(j)} : j \in 1 .. 2}

=============================================================================
