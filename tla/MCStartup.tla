------------------------------ MODULE MCStartup ------------------------------
\* Files near the one that is shipped, and lengths of credentials around the
\* boundaries of a block.
EXTENDS Startup, Sha256Block

MCHash(key) == Len(key)      \* all the entries collide, and all the sections
MCLower(t) == CASE t = "MQTT" -> "mqtt" [] t = "Edgebox_Device_Name" -> "edgebox_device_name" [] t = "DEBUG" -> "debug"
                [] OTHER -> t

Opens(name) == <<"[", name, "]">>
Sets(name, part) == <<name, "=", part>>

\* src/edgebox.ini, with one of its blank lines.
Shipped ==
  <<Opens("mqtt"), Sets("edgebox_product_key", "p11"), Sets("edgebox_device_name", "n8"),
    Sets("edgebox_device_secret", "s32"), <<>>,
    Opens("lora"), Sets("websocket_url", "url"), <<"lora_node_list", "=", "7076e841", ",", "718ae0d8">>,
    <<";", "text">>, Opens("weather_station"), Sets("lora_devaddr", "718ae0d8"),
    Sets("temp_humi_addr", "4"), Sets("wind_dir_addr", "2"), Sets("wind_speed_addr", "1"),
    Opens("logging"), Sets("logfile", "edgebox.log"), Sets("loglevel", "debug"),
    Opens("system"), Sets("user", "rxhf")>>

Without(i) == RemoveAt(Shipped, i)
With(i, l) == ReplaceAt(Shipped, i, l)

\* 51 + 2 * (name + product key) bytes are signed behind a block of 64.
Device(p, n, s, f) ==
  [f EXCEPT ![2] = Sets("edgebox_product_key", p), ![3] = Sets("edgebox_device_name", n),
            ![4] = Sets("edgebox_device_secret", s)]

\* The same settings in every other way they can be written, with a part for the
\* signature that a remark or a quote could spoil.
Styles ==
  <<<<" ", "[", " ", "MQTT", " ", "]", " ">>, <<"edgebox_product_key", " ", "=", " ", "\"", "p1", "\"", " ", ";", "text">>,
    <<" ", "Edgebox_Device_Name", "=", "n1", ";", "n2">>, <<"edgebox_device_secret", "=", "'", "s32", ";", "\"", "'">>,
    <<"#", "[", "lora", "]">>, <<"[", "lora", "]", "text", "]">>, <<"websocket_url", "=", "=", "url", "#", "=">>,
    <<"lora_node_list", "=", ",", "7076e841", ",", ",", "718ae0d8", "\\", " ">>, <<" ", "," , "4">>,
    Opens("weather_station"), <<"lora_devaddr", "=", "\"", "\"">>, <<"temp_humi_addr", "=", "\"", "4">>,
    <<"wind_dir_addr", "=", "2", "=", "1">>, <<"wind_speed_addr", "=", " ", ";", "1">>,
    Opens("logging"), <<"logfile", "=", "'", "\"", "edgebox.log", "'">>, <<"loglevel", "=", "DEBUG", " ", "#", "text">>,
    Opens("system"), Sets("user", "rxhf")>>

\* Files that start the program: repeated sections and entries, an unknown level,
\* an empty list, lines that continue, a last line that does not end.
Starting ==
  {Shipped, Styles, InsertAt(Styles, Len(Styles), <<"[", "]">>),
   InsertAt(Shipped, 18, <<"[", "mqtt", ":", "edgebox_device_secret", "]">>),
   Device("p1", "n2", "s64", Shipped \o <<Opens("mqtt"), Sets("edgebox_device_name", "n1")>>),
   Device("p1", "n2", "s32", Shipped \o <<Sets("edgebox_device_name", "n1")>>),
   Device("p1", "n5", "s32", Append(Shipped, <<"user", "=", "rx", "\\">>)),
   Device("p2", "n5", "s64", With(9, <<";", "text", "\\">>)),
   Device("p20", "n32", "s64", With(17, Sets("loglevel", "verbose"))),
   Device("p1", "n1", "s32", With(8, <<"lora_node_list", "=">>)),
   InsertAt(InsertAt(With(8, <<"lora_node_list", "=", "4", "\\">>), 9, <<",", "2", "\\">>), 10, Sets("user", "nobody"))}

\* Files that do not: an entry missing, a syntax error, a line or a credential too long.
Refused ==
  {Without(i) : i \in {2, 3, 16, 17}}
  \cup {Append(Shipped, l) : l \in {<<"text">>, <<"=", "text">>, <<"[", "text">>, <<"long">>}}
  \cup {Shipped \o <<<<"text", "=", "s65", "\\">>, <<"s65">>>>}
  \cup {Device("p21", "n1", "s32", Shipped), Device("p1", "n33", "s32", Shipped), Device("p1", "n1", "s65", Shipped)}

MCFiles == Starting \cup Refused

Tokens == UNION {ToSet(f[i]) : <<f, i>> \in {p \in MCFiles \X (1 .. 24) : p[2] \in DOMAIN p[1]}} \cup {"part"}

MCLength ==
  [t \in Tokens |->
     CASE t \in {"n2", "p2"} -> 2 [] t = "n5" -> 5 [] t = "n8" -> 8 [] t = "p11" -> 11 [] t = "p20" -> 20
       [] t = "p21" -> 21 [] t \in {"n32", "s32"} -> 32 [] t = "n33" -> 33 [] t = "s64" -> 64 [] t = "s65" -> 65
       [] t \in {"mqtt", "lora", "logging", "system", "weather_station", "MQTT"} -> 6
       [] t = "long" -> 128 [] OTHER -> 1]

MCAccounts == {<<"rxhf">>}

\* Every line of up to five of these tokens is read as it says.
ASSUME LinesAsSaid ==
  \A n \in 0 .. 5 : \A text \in [1 .. n -> {"4", "=", "[", "]", ";", "\"", "'", " "}] : ReadAsSaid(text)

=============================================================================
