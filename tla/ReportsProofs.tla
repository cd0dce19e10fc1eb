--------------------------- MODULE ReportsProofs ---------------------------
(***************************************************************************)
(* Proofs about the round trip between the hub and the nodes, for every    *)
(* table of switches, every message of the hub, every text of the LoRaWAN  *)
(* server, every size of print buffer and every allocation that may fail:  *)
(*   - nothing but the printed texts is left of what cJSON allocates, no   *)
(*     block is freed twice and nothing written outside one (HeapKept);    *)
(*   - the process dies of nothing but an allocation that failed or a      *)
(*     text with a value that is no string (OnlySpoilt);                   *)
(*   - every text sent or published is one that cJSON_Parse reads back to  *)
(*     the last token (PrintedAndRead).                                    *)
(*                                                                         *)
(* They rest on one inductive invariant (Invariance): what is sent to a    *)
(* node is the text of a command or a query that its PLC can act on, the   *)
(* registers hold no more than they have bytes for, and so every object    *)
(* that is built has members that can be printed.                          *)
(***************************************************************************)
EXTENDS Reports, DataProofs

-----------------------------------------------------------------------------
(* What an operation leaves of the heap.                                   *)

\* An object to be printed: what is live are the others, its blocks, and what is lost.
Printable(b, k, others) ==
  /\ b \in Built /\ Sane(b.heap) /\ b.heap.fails = k /\ b.heap.over = FALSE
  /\ b.heap.live = others \cup Blocks(b.items) \cup b.heap.lost /\ Blocks(b.items) \cap others = {}
  /\ (b.ok => Grown(b.items)) /\ (k = 0 => b.heap.lost = {})

LEMMA BuildingPrintable ==
  ASSUME NEW b, NEW k \in Nat, NEW others, NEW want, NEW S, Building(b, k, others, want, S)
  PROVE  Printable(b, k, others)
<1>1. b.ok => Grown(b.items)
  <2>1. b.ok => \E ms : Says(b.items, ms)
    BY DEF Building, HeapHolds
  <2> QED BY <2>1 DEF Says
<1> QED BY <1>1 DEF Building, Printable

\* The others are still there, and nothing else but what is lost.
Cleared(heap, k, others) ==
  /\ Sane(heap) /\ heap.fails = k /\ heap.over = FALSE
  /\ others \subseteq heap.live /\ heap.live \subseteq others \cup heap.lost
  /\ k = 0 => heap.lost = {} \/ \E x : heap.lost = {x}

PrintLeaves(r, b, k, others) ==
  /\ r.how \in {"none", "text", "dies"} /\ r.heap.over = FALSE
  /\ r.how # "dies" => Cleared(r.heap, k, others)
  /\ r.how = "text" => b.ok /\ r.text \in Seq(Tokens) /\ NoBlanks(r.text) = Spell(b.items)
  /\ r.how # "text" => r.text = <<>>
  /\ k = 0 => r.how = IF b.ok THEN "text" ELSE "none"

LEMMA PrintAndDeleteLeaves ==
  ASSUME NEW b, NEW k \in Nat, NEW others, Printable(b, k, others), NEW r, r = PrintAndDelete(b)
  PROVE  PrintLeaves(r, b, k, others)
<1>1. /\ b \in Built /\ Sane(b.heap) /\ b.heap.fails = k /\ b.heap.over = FALSE /\ b.ok \in BOOLEAN
      /\ b.heap.live = others \cup Blocks(b.items) \cup b.heap.lost /\ Blocks(b.items) \cap others = {}
      /\ (b.ok => Grown(b.items)) /\ (k = 0 => b.heap.lost = {})
  BY DEF Printable, Built
<1>2. CASE ~ b.ok
  <2> DEFINE h == cJSON_Delete(b.heap, b.items)
  <2>1. r = [how |-> "none", text |-> <<>>, heap |-> h]
    BY <1>2 DEF PrintAndDelete
  <2>2. Blocks(b.items) \subseteq b.heap.live
    BY <1>1
  <2>3. /\ Sane(h) /\ h.live = b.heap.live \ Blocks(b.items)
        /\ h.lost = b.heap.lost /\ h.fails = b.heap.fails /\ h.over = b.heap.over
    BY <1>1, <2>2, Deallocated DEF cJSON_Delete
  <2> HIDE DEF h
  <2>4. r.how = "none" /\ r.text = <<>> /\ r.heap = h
    BY <2>1
  <2>5. Cleared(h, k, others)
    BY <1>1, <2>3 DEF Cleared
  <2> QED BY <1>1, <1>2, <2>3, <2>4, <2>5 DEF PrintLeaves
<1>3. CASE b.ok
  <2> DEFINE p == cJSON_Print(b.heap, b.items)
             lost == p.heap.lost \cup {p.printed}
             m == [p.heap EXCEPT !.lost = lost]
             h == cJSON_Delete(m, b.items)
  <2>1. PrintGives(p, b.heap, b.items)
    BY <1>1, <1>3, PrintIs
  <2>2. r = IF ~ p.ok THEN [how |-> "dies", text |-> <<>>, heap |-> p.heap]
            ELSE [how |-> "text", text |-> p.text, heap |-> h]
    BY <1>3 DEF PrintAndDelete
  <2> HIDE DEF p
  <2>3. CASE ~ p.ok
    <3>1. r.how = "dies" /\ r.text = <<>> /\ r.heap = p.heap
      BY <2>2, <2>3
    <3> QED BY <1>1, <1>3, <2>1, <2>3, <3>1 DEF PrintLeaves, PrintGives
  <2>4. CASE p.ok
    <3>1. r.how = "text" /\ r.text = p.text /\ r.heap = h
      BY <2>2, <2>4
    <3>2. /\ Sane(p.heap) /\ p.heap.fails = k /\ p.heap.over = FALSE /\ p.heap.lost = b.heap.lost
          /\ p.heap.live = b.heap.live \cup {p.printed} /\ p.printed \in Nat /\ p.printed \notin b.heap.live
          /\ p.text \in Seq(Tokens) /\ NoBlanks(p.text) = Spell(b.items)
      BY <1>1, <2>1, <2>4 DEF PrintGives
    <3>3. p.heap.lost \subseteq Nat
      BY <3>2 DEF Sane, Heaps
    <3>4. lost \subseteq Nat
      BY <3>2, <3>3
    <3>a. lost = b.heap.lost \cup {p.printed}
      BY <3>2
    <3> HIDE DEF lost
    <3>5. Sane(m) /\ m.live = p.heap.live /\ m.lost = lost /\ m.fails = p.heap.fails /\ m.over = p.heap.over
      BY <3>2, <3>4, Loses
    <3> HIDE DEF m
    <3>6. Blocks(b.items) \subseteq m.live
      BY <1>1, <3>2, <3>5
    <3>7. /\ Sane(h) /\ h.live = m.live \ Blocks(b.items)
          /\ h.lost = m.lost /\ h.fails = m.fails /\ h.over = m.over
      BY <3>5, <3>6, Deallocated DEF cJSON_Delete
    <3> HIDE DEF h
    <3>8. others \subseteq h.live /\ h.live \subseteq others \cup h.lost
      BY <1>1, <3>2, <3>5, <3>7, <3>a
    <3>9. k = 0 => h.lost = {p.printed}
      BY <1>1, <3>2, <3>5, <3>7, <3>a
    <3>10. Cleared(h, k, others)
      BY <3>2, <3>5, <3>7, <3>8, <3>9 DEF Cleared
    <3> QED BY <1>1, <1>3, <3>1, <3>2, <3>5, <3>7, <3>10 DEF PrintLeaves
  <2> QED BY <2>3, <2>4
<1> QED BY <1>1, <1>2, <1>3

\* The members of what is sent to a node.
SentMembers(ascii, sn) ==
  << <<"data", Frame(ascii)>>, <<"devaddr", Word(sn)>>, <<"port", Num(20)>>, <<"time", Word("immediately")>> >>

SentSayings(ascii, sn) ==
  {<<"data", <<Frame(ascii)>>>>, <<"devaddr", <<Word(sn)>>>>, <<"port", <<Num(20)>>>>, <<"time", <<Word("immediately")>>>>}

\* A text, without white space, of these members or some of them.
SaysSome(bare, M) == \E ms \in Seq(Members) : bare = Object(ms) /\ \A i \in 1 .. Len(ms) : ms[i] \in M

LEMMA WordsAre ==
  /\ Name \subseteq Words /\ LoraNode \in Words /\ Station \in Words /\ LoraNode # Station
  /\ "data" \in Words /\ "devaddr" \in Words /\ "port" \in Words /\ "time" \in Words /\ "immediately" \in Words
  /\ "id" \in Words /\ "method" \in Words /\ "thing.event.property.post" \in Words
  /\ "params" \in Words /\ "loraNodeSerialNo" \in Words /\ "7076e841" \in Words /\ "" \in Words
<1>1. "" \in Words
  BY CjsonAssumption
<1> QED BY <1>1, WordsAssumption

LEMMA TokensAre ==
  /\ \A w \in Words : Word(w) \in Tokens /\ Word(w).t = "string" /\ Word(w).s = w
  /\ \A v \in Int : Num(v) \in Tokens /\ Num(v).t = "number"
  /\ \A n \in Seq(Int) : Frame(n) \in Tokens /\ Frame(n).t = "string" /\ Frame(n).n = n
<1>1. ASSUME NEW w \in Words PROVE Word(w) \in Tokens /\ Word(w).t = "string" /\ Word(w).s = w
  BY ColonAlone DEF Word
<1>2. ASSUME NEW v \in Int PROVE Num(v) \in Tokens /\ Num(v).t = "number"
  BY NumTyped DEF Num
<1>3. ASSUME NEW n \in Seq(Int) PROVE Frame(n) \in Tokens /\ Frame(n).t = "string" /\ Frame(n).n = n
  <2>1. Frame(n) \in [t : {"string"}, s : Words, n : Seq(Int)]
    BY WordsAre DEF Frame
  <2> QED BY <2>1 DEF Frame, Tokens
<1> QED BY <1>1, <1>2, <1>3

LEMMA SentTyped ==
  ASSUME NEW ascii \in Seq(Int), NEW sn \in Words
  PROVE  /\ SentMembers(ascii, sn) \in Seq(Simple)
         /\ \A j \in 1 .. Len(SentMembers(ascii, sn)) : Singly(SentMembers(ascii, sn))[j] \in SentSayings(ascii, sn)
         /\ SentSayings(ascii, sn) \subseteq Plains
<1> DEFINE a == Frame(ascii)
           b == Word(sn)
           c == Num(20)
           d == Word("immediately")
           m == << <<"data", a>>, <<"devaddr", b>>, <<"port", c>>, <<"time", d>> >>
<1>1. a \in Tokens /\ b \in Tokens /\ c \in Tokens /\ d \in Tokens
      /\ a.t = "string" /\ b.t = "string" /\ c.t = "number" /\ d.t = "string"
  <2>1. a \in Tokens /\ a.t = "string"
    BY TokensAre
  <2>2. b \in Tokens /\ b.t = "string"
    BY TokensAre
  <2>3. c \in Tokens /\ c.t = "number"
    BY 20 \in Int, TokensAre
  <2>4. d \in Tokens /\ d.t = "string"
    <3>1. "immediately" \in Words
      BY WordsAre
    <3>2. \A w \in Words : Word(w) \in Tokens /\ Word(w).t = "string"
      BY TokensAre
    <3> QED BY <3>1, <3>2, Zenon
  <2> QED BY <2>1, <2>2, <2>3, <2>4
<1>2. SentMembers(ascii, sn) = m /\ SentSayings(ascii, sn) = {<<"data", <<a>>>>, <<"devaddr", <<b>>>>, <<"port", <<c>>>>, <<"time", <<d>>>>}
  BY DEF SentMembers, SentSayings
<1> HIDE DEF a, b, c, d
<1>3. <<"data", a>> \in Simple /\ <<"devaddr", b>> \in Simple /\ <<"port", c>> \in Simple /\ <<"time", d>> \in Simple
  BY <1>1, WordsAre DEF Simple
<1>4. m \in Seq(Simple) /\ Len(m) = 4 /\ m[1] = <<"data", a>> /\ m[2] = <<"devaddr", b>> /\ m[3] = <<"port", c>> /\ m[4] = <<"time", d>>
  BY <1>3
<1>8. m[1][1] = "data" /\ m[1][2] = a /\ m[2][1] = "devaddr" /\ m[2][2] = b
      /\ m[3][1] = "port" /\ m[3][2] = c /\ m[4][1] = "time" /\ m[4][2] = d
  OBVIOUS
<1> HIDE DEF m
<1>5. \A j \in 1 .. Len(m) : Singly(m)[j] = <<m[j][1], <<m[j][2]>>>> /\ j \in {1, 2, 3, 4}
  BY <1>4, PlainTyped
<1>6. ASSUME NEW j \in 1 .. Len(m) PROVE Singly(m)[j] \in SentSayings(ascii, sn)
  <2>1. CASE j = 1
    <3>1. Singly(m)[j] = <<m[1][1], <<m[1][2]>>>>
      BY <1>5, <2>1
    <3> QED BY <1>2, <1>8, <3>1
  <2>2. CASE j = 2
    <3>1. Singly(m)[j] = <<m[2][1], <<m[2][2]>>>>
      BY <1>5, <2>2
    <3> QED BY <1>2, <1>8, <3>1
  <2>3. CASE j = 3
    <3>1. Singly(m)[j] = <<m[3][1], <<m[3][2]>>>>
      BY <1>5, <2>3
    <3> QED BY <1>2, <1>8, <3>1
  <2>4. CASE j = 4
    <3>1. Singly(m)[j] = <<m[4][1], <<m[4][2]>>>>
      BY <1>5, <2>4
    <3> QED BY <1>2, <1>8, <3>1
  <2> QED BY <1>5, <2>1, <2>2, <2>3, <2>4
<1>7. /\ <<"data", <<a>>>> \in Plains /\ <<"devaddr", <<b>>>> \in Plains
      /\ <<"port", <<c>>>> \in Plains /\ <<"time", <<d>>>> \in Plains
  <2>1. <<a>> \in Seq(Tokens) /\ <<b>> \in Seq(Tokens) /\ <<c>> \in Seq(Tokens) /\ <<d>> \in Seq(Tokens)
    BY <1>1
  <2> QED BY <1>1, <2>1, WordsAre DEF Plains, Members
<1> QED BY <1>2, <1>4, <1>6, <1>7

\* What is made for a node: a text of its members, or of some of them after a failure.
LEMMA ConstructLeaves ==
  ASSUME NEW k \in Nat, NEW ascii \in Seq(Int), NEW sn \in Words,
         NEW r, r = construct_json_text2lora(ascii, sn, Heap(k))
  PROVE  /\ r.how \in {"none", "text", "dies"} /\ r.heap.over = FALSE
         /\ r.how # "dies" => Cleared(r.heap, k, {})
         /\ r.how = "text" => /\ r.text \in Seq(Tokens) /\ SaysSome(NoBlanks(r.text), SentSayings(ascii, sn))
                              /\ k = 0 => NoBlanks(r.text) = Object(Singly(SentMembers(ascii, sn)))
         /\ k = 0 => r.how = "text"
<1> DEFINE h == Heap(k)
           c == cJSON_CreateObject(h)
           m == SentMembers(ascii, sn)
           S == SentSayings(ascii, sn)
           b == AddMembers(c, m)
           want == <<>> \o Singly(m)
<1>1. Sane(h) /\ h.live = {} /\ h.lost = {} /\ h.fails = k /\ h.over = FALSE
  BY HeapSane DEF Heap
<1>2. Building(c, k, {}, <<>>, S)
  <2> HIDE DEF h, S
  <2> QED BY <1>1, CreateObjectBuilds
<1>3. m \in Seq(Simple) /\ (\A j \in 1 .. Len(m) : Singly(m)[j] \in S) /\ S \subseteq Plains
  BY SentTyped
<1>4. r = PrintAndDelete(b)
  BY DEF construct_json_text2lora, SentMembers
<1>5. <<>> \in Seq(Members)
  OBVIOUS
<1> HIDE DEF c, m, S
<1>6. Building(b, k, {}, want, S)
  BY <1>2, <1>3, <1>5, AddMembersSteps
<1>7. want = Singly(m)
  BY <1>3, PlainTyped, ConcatEmptySeq
<1> HIDE DEF b, want
<1>8. PrintLeaves(r, b, k, {})
  BY <1>4, <1>6, BuildingPrintable, PrintAndDeleteLeaves
<1>9. ASSUME r.how = "text"
      PROVE  r.text \in Seq(Tokens) /\ SaysSome(NoBlanks(r.text), S) /\ (k = 0 => NoBlanks(r.text) = Object(Singly(m)))
  <2>1. b.ok /\ r.text \in Seq(Tokens) /\ NoBlanks(r.text) = Spell(b.items)
    BY <1>8, <1>9 DEF PrintLeaves
  <2>2. PICK ms : Says(b.items, ms) /\ (k = 0 => ms = want) /\ \A i \in 1 .. Len(ms) : ms[i] \in S
    BY <1>6, <2>1 DEF Building, HeapHolds
  <2>3. Spell(b.items) = Object(ms) /\ ms \in Seq(Members)
    BY <2>2, SaysObject DEF Says
  <2> QED BY <1>7, <2>1, <2>2, <2>3 DEF SaysSome
<1>10. k = 0 => b.ok
  BY <1>6 DEF Building
<1> QED BY <1>8, <1>9, <1>10 DEF PrintLeaves, S, m

-----------------------------------------------------------------------------
(* What a text says of a name.                                             *)

\* An item that the look-up of a name finds has a value that the text gives to the name.
LEMMA GivesValue ==
  ASSUME NEW text, NEW bare, bare = NoBlanks(text), NEW string, NEW value, Gives(bare, string, value)
  PROVE  value \in Values(text, string.s)
<1>1. PICK j \in 1 .. Len(bare) - 2 : bare[j] = StringToken(string) /\ bare[j + 1] = Punct("colon") /\ bare[j + 2] = value
  BY DEF Gives, StandIn
<1>2. bare[j].t = "string" /\ bare[j].s = string.s
  BY <1>1 DEF StringToken
<1> QED BY <1>1, <1>2 DEF Values

LEMMA ParsedValue ==
  ASSUME NEW k \in Nat, NEW text \in Seq(Tokens), NEW r, r = cJSON_Parse(Heap(k), text),
         NEW j \in 1 .. Len(r.items), r.items[j].string.at # 0
  PROVE  r.items[j] \in ReadItems /\ TokenOf(r.items[j]) \in Values(text, r.items[j].string.s)
<1> DEFINE bare == NoBlanks(text)
<1>1. r.items[j] \in ReadItems /\ Gives(bare, r.items[j].string, TokenOf(r.items[j]))
  BY ParsedNamed
<1> QED BY <1>1, GivesValue

\* What the look-up of a name gives: items of the text, the first of which has a value that
\* the text gives to the name.
LEMMA FoundValue ==
  ASSUME NEW k \in Nat, NEW text \in Seq(Tokens), NEW r, r = cJSON_Parse(Heap(k), text), NEW name,
         NEW x, x = cJSON_GetObjectItem(r.items, name), x # <<>>
  PROVE  /\ Len(x) >= 1 /\ x \in Seq(Items) /\ x[1] \in ReadItems /\ TokenOf(x[1]) \in Values(text, name)
         /\ \A i \in 1 .. Len(x) : x[i].string.at # 0 => x[i] \in ReadItems /\ TokenOf(x[i]) \in Values(text, x[i].string.s)
<1>1. Finds(x, r.items, name)
  BY LookUp
<1>2. ASSUME NEW i \in 1 .. Len(x), x[i].string.at # 0
      PROVE  x[i] \in ReadItems /\ TokenOf(x[i]) \in Values(text, x[i].string.s)
  <2>1. PICK l \in 1 .. Len(r.items) : x[i] = r.items[l]
    BY <1>1 DEF Finds
  <2>2. r.items[l].string.at # 0
    BY <1>2, <2>1
  <2>3. r.items[l] \in ReadItems /\ TokenOf(r.items[l]) \in Values(text, r.items[l].string.s)
    BY <2>2, ParsedValue
  <2> QED BY <2>1, <2>3
<1>3. /\ Len(x) >= 1 /\ x \in Seq(Items) /\ x[1].string.at # 0 /\ x[1].string.s = name
  BY <1>1 DEF Finds
<1>4. 1 \in 1 .. Len(x)
  BY <1>3
<1> QED BY <1>2, <1>3, <1>4

-----------------------------------------------------------------------------
(* Messages of the hub.                                                    *)

Orders == [lora : Words, list : Seq(Name \X Int)]

\* An item that sets a switch has a number.
Commanding(e) == e \in Items /\ (e.string.s \in Name => e.valuedouble[1] \in Int)
Commands(params) == params \in Seq(Items) /\ \A i \in 1 .. Len(params) : params[i].string.at # 0 => Commanding(params[i])

LEMMA NumberTyped ==
  ASSUME NEW i \in ReadItems, TokenOf(i).t = "number"
  PROVE  i.valuedouble[1] \in Int
<1>1. i.type = "number"
  <2>1. StringToken(i.valuestring).t = "string"
    BY DEF StringToken
  <2>2. Punct(i.type).t = i.type
    BY DEF Punct
  <2> QED BY <2>1, <2>2 DEF TokenOf
<1> QED BY <1>1 DEF ReadItems

LEMMA ValueTyped == ASSUME NEW name, NEW v \in Int PROVE Value(name, v) \in Int
BY DEF Value

LEMMA SeenTyped ==
  ASSUME NEW r \in Orders, NEW e, Commanding(e)
  PROVE  Seen(r, e) \in Orders
<1>1. e.string.s \in Words /\ e.valuestring.s \in Words
  BY DEF Commanding, Items, TextBlocks
<1>2. CASE e.string.s = "loraNodeSerialNo"
  <2>1. Seen(r, e) = [r EXCEPT !.lora = e.valuestring.s]
    BY <1>2 DEF Seen
  <2> QED BY <1>1, <2>1 DEF Orders
<1>3. CASE e.string.s # "loraNodeSerialNo" /\ e.string.s \in Name
  <2> DEFINE p == <<e.string.s, Value(e.string.s, e.valuedouble[1])>>
             l == <<p>> \o r.list
  <2>1. Seen(r, e) = [r EXCEPT !.list = l]
    BY <1>3 DEF Seen
  <2>2. p \in Name \X Int
    BY <1>3, ValueTyped DEF Commanding
  <2> HIDE DEF p
  <2>3. l \in Seq(Name \X Int)
    BY <2>2 DEF Orders
  <2> HIDE DEF l
  <2> QED BY <2>1, <2>3 DEF Orders
<1>4. CASE e.string.s # "loraNodeSerialNo" /\ e.string.s \notin Name
  <2>1. Seen(r, e) = r
    BY <1>4 DEF Seen
  <2> QED BY <2>1
<1> QED BY <1>2, <1>3, <1>4

\* The loop over the switches of a message.
LEMMA ListOfTyped ==
  ASSUME NEW params, Commands(params)
  PROVE  ListOf(params) \in Orders
<1> DEFINE n == Len(params)
           base == [lora |-> "", list |-> <<>>]
           D == Orders
           step == [i \in 1 .. n |-> [x \in D |-> (IF i \in Children(params) /\ params[i].string.at # 0 THEN Seen(x, params[i]) ELSE x)]]
           Slot(p, i) == IF i = 0 THEN base ELSE (IF i \in Children(params) /\ params[i].string.at # 0 THEN Seen(p[i - 1], params[i]) ELSE p[i - 1])
           Made(p) == [i \in 0 .. n |-> Slot(p, i)]
           g == CHOOSE after : after =
                  [i \in 0 .. Len(params) |->
                     IF i = 0 THEN [lora |-> "", list |-> <<>>] ELSE (IF i \in Children(params) /\ params[i].string.at # 0 THEN Seen(after[i - 1], params[i]) ELSE after[i - 1])]
<1>0. n \in Nat
  BY DEF Commands
<1>1. base \in D
  <2>1. <<>> \in Seq(Name \X Int)
    OBVIOUS
  <2> QED BY <2>1, WordsAre DEF Orders
<1>2. \A i \in 1 .. n : \A x \in D : (IF i \in Children(params) /\ params[i].string.at # 0 THEN Seen(x, params[i]) ELSE x) \in D
  <2> SUFFICES ASSUME NEW i \in 1 .. n, NEW x \in D PROVE (IF i \in Children(params) /\ params[i].string.at # 0 THEN Seen(x, params[i]) ELSE x) \in D
    OBVIOUS
  <2>1. CASE params[i].string.at # 0
    <3>1. Seen(x, params[i]) \in Orders
      BY <2>1, SeenTyped DEF Commands
    <3> QED BY <3>1
  <2>2. CASE ~ (params[i].string.at # 0)
    BY <2>2
  <2> QED BY <2>1, <2>2
<1>3. step \in [1 .. n -> [D -> D]]
  BY <1>2
<1>4. ListOf(params) = g[n]
  BY DEF ListOf
<1>5. g = CHOOSE p : p = Made(p)
  OBVIOUS
<1> HIDE DEF base
<1>6. \A p : Slot(p, 0) = base /\ \A i \in 1 .. n : Slot(p, i) = (IF i \in Children(params) /\ params[i].string.at # 0 THEN Seen(p[i - 1], params[i]) ELSE p[i - 1])
  <2>1. \A i \in 1 .. n : i # 0
    OBVIOUS
  <2> QED BY <2>1, Zenon
<1> HIDE DEF Slot, g
<1>7. PICK f \in [0 .. n -> D] : f[0] = base /\ \A i \in 1 .. n : f[i] = step[i][f[i - 1]]
  <2> HIDE DEF step, n, D
  <2>1. Iterates(n, D, base, step)
    BY <1>0, <1>1, <1>3, Iteration
  <2> QED BY <2>1 DEF Iterates
<1> HIDE DEF D
<1>8. \A i \in 1 .. n : f[i] = (IF i \in Children(params) /\ params[i].string.at # 0 THEN Seen(f[i - 1], params[i]) ELSE f[i - 1])
  <2> SUFFICES ASSUME NEW i \in 1 .. n PROVE f[i] = (IF i \in Children(params) /\ params[i].string.at # 0 THEN Seen(f[i - 1], params[i]) ELSE f[i - 1])
    OBVIOUS
  <2>1. i - 1 \in 0 .. n
    OBVIOUS
  <2>2. f[i - 1] \in D
    BY <2>1
  <2> QED BY <1>7, <2>2
<1> HIDE DEF n
<1>9. f = Made(f)
  <2>1. ASSUME NEW i \in 0 .. n PROVE f[i] = Slot(f, i)
    <3>1. CASE i = 0
      BY <1>6, <1>7, <3>1
    <3>2. CASE i # 0
      <4>1. i \in 1 .. n
        BY <1>0, <3>2
      <4> QED BY <1>6, <1>8, <4>1
    <3> QED BY <3>1, <3>2
  <2> QED BY <2>1
<1>10. g = Made(g)
  <2> HIDE DEF Made
  <2> QED BY <1>5, <1>9
<1>11. g[0] = base
  <2>1. 0 \in 0 .. n
    BY <1>0
  <2> QED BY <1>10, <1>6, <2>1
<1>12. \A i \in 1 .. n : g[i] = (IF i \in Children(params) /\ params[i].string.at # 0 THEN Seen(g[i - 1], params[i]) ELSE g[i - 1])
  <2> SUFFICES ASSUME NEW i \in 1 .. n PROVE g[i] = (IF i \in Children(params) /\ params[i].string.at # 0 THEN Seen(g[i - 1], params[i]) ELSE g[i - 1])
    OBVIOUS
  <2>1. i \in 0 .. n
    BY <1>0
  <2> QED BY <1>10, <1>6, <2>1
<1>13. \A i \in 0 .. n : g[i] \in D
  <2> DEFINE P == {i \in 0 .. n : g[i] \in D}
  <2>1. 0 \in P
    BY <1>0, <1>1, <1>11
  <2>2. \A i \in 1 .. n : i - 1 \in P => i \in P
    <3> SUFFICES ASSUME NEW i \in 1 .. n, g[i - 1] \in D PROVE i \in 0 .. n /\ g[i] \in D
      OBVIOUS
    <3>1. (IF i \in Children(params) /\ params[i].string.at # 0 THEN Seen(g[i - 1], params[i]) ELSE g[i - 1]) \in D /\ i \in 0 .. n
      BY <1>2
    <3> QED BY <1>12, <3>1
  <2> HIDE DEF P
  <2>3. \A i \in 0 .. n : i \in P
    BY <1>0, <2>1, <2>2, Ladder
  <2> QED BY <2>3 DEF P
<1>14. n \in 0 .. n
  BY <1>0
<1> QED BY <1>4, <1>13, <1>14 DEF D

\* What a message of the hub asks for is a list of switches with their values.
LEMMA OrdersTyped ==
  ASSUME NEW msg \in HubMessage, NEW k \in Nat, NEW r, r = cJSON_Parse(Heap(k), msg.text)
  PROVE  ListOf(cJSON_GetObjectItem(r.items, "params")) \in Orders
<1> DEFINE x == cJSON_GetObjectItem(r.items, "params")
<1>1. /\ msg.text \in Seq(Tokens)
      /\ \A n \in Name : \A v \in Values(msg.text, n) : v.t = "number"
  BY HubAssumption
<1>2. Commands(x)
  <2>1. CASE x = <<>>
    <3>1. <<>> \in Seq(Items) /\ Len(<<>>) = 0
      OBVIOUS
    <3> HIDE DEF x
    <3> QED BY <2>1, <3>1 DEF Commands
  <2>2. CASE x # <<>>
    <3>1. /\ x \in Seq(Items)
          /\ \A i \in 1 .. Len(x) : x[i].string.at # 0 => x[i] \in ReadItems /\ TokenOf(x[i]) \in Values(msg.text, x[i].string.s)
      BY <1>1, <2>2, FoundValue
    <3> HIDE DEF x
    <3>2. ASSUME NEW i \in 1 .. Len(x), x[i].string.at # 0 PROVE Commanding(x[i])
      <4>1. x[i] \in ReadItems /\ TokenOf(x[i]) \in Values(msg.text, x[i].string.s) /\ x[i] \in Items
        BY <3>1, <3>2
      <4>2. x[i].string.s \in Name => TokenOf(x[i]).t = "number"
        BY <1>1, <4>1
      <4>3. x[i].string.s \in Name => x[i].valuedouble[1] \in Int
        BY <4>1, <4>2, NumberTyped
      <4> QED BY <4>1, <4>3 DEF Commanding
    <3> QED BY <3>1, <3>2 DEF Commands
  <2> QED BY <2>1, <2>2
<1> HIDE DEF x
<1>3. ListOf(x) \in Orders
  BY <1>2, ListOfTyped
<1> QED BY <1>3 DEF x

-----------------------------------------------------------------------------
(* What is sent to the nodes.                                              *)

\* The member of a flat object, if there is one.
IsMember(x, name, M) == x = Blank \/ \E m \in M : m[1] = name /\ <<x>> = m[2]

LEMMA MemberTied ==
  ASSUME NEW text, NEW M, Tied(NoBlanks(text), M), NEW name, NEW x, x = MemberOf(text, name)
  PROVE  IsMember(x, name, M)
<1> DEFINE bare == NoBlanks(text)
           n == Len(bare)
           found == {k \in 1 .. Len(bare) - 2 : bare[k] = Word(name) /\ bare[k + 1] = Punct("colon")}
           j == Min(found)
<1>1. x = IF found = {} THEN Blank ELSE bare[j + 2]
  BY DEF MemberOf
<1>2. bare \in Seq(Solid) /\ n \in Nat
  BY DEF Tied
<1>3. SUFFICES ASSUME found # {} PROVE \E m \in M : m[1] = name /\ <<x>> = m[2]
  BY <1>1 DEF IsMember
<1>4. found \subseteq 0 .. n
  BY <1>2
<1>5. j \in found
  <2> HIDE DEF found, n
  <2> QED BY <1>2, <1>3, <1>4, MinProperties
<1>6. x = bare[j + 2]
  BY <1>1, <1>3
<1>7. j \in 1 .. n - 2 /\ bare[j] = Word(name) /\ bare[j + 1] = Colon2
  BY <1>5 DEF Colon2
<1> HIDE DEF j, found
<1> DEFINE i == j + 1
<1>8. i \in 1 .. n /\ bare[i] = Colon2 /\ i - 1 = j /\ i + 1 = j + 2
  BY <1>2, <1>7
<1> HIDE DEF i
<1>9. PICK m \in M : bare[i - 1] = Word(m[1]) /\ <<bare[i + 1]>> = m[2]
  BY <1>8 DEF Tied
<1>10. Word(m[1]).s = m[1] /\ Word(name).s = name
  BY DEF Word
<1>11. m[1] = name
  BY <1>7, <1>8, <1>9, <1>10
<1> QED BY <1>6, <1>8, <1>9, <1>11

LEMMA SentMember ==
  ASSUME NEW text, NEW ascii \in Seq(Int), NEW sn \in Words, SaysSome(NoBlanks(text), SentSayings(ascii, sn))
  PROVE  /\ MemberOf(text, "data") \in {Blank, Frame(ascii)}
         /\ MemberOf(text, "devaddr") \in {Blank, Word(sn)}
<1> DEFINE M == SentSayings(ascii, sn)
           a == Frame(ascii)
           b == Word(sn)
<1>1. M \subseteq Plains
  BY SentTyped
<1>2. PICK ms \in Seq(Members) : NoBlanks(text) = Object(ms) /\ \A i \in 1 .. Len(ms) : ms[i] \in M
  BY DEF SaysSome
<1>3. Tied(NoBlanks(text), M)
  <2> HIDE DEF M
  <2> QED BY <1>1, <1>2, TiedObject
<1>4. ASSUME NEW m \in M
      PROVE  /\ m[1] = "data" => m[2] = <<a>>
             /\ m[1] = "devaddr" => m[2] = <<b>>
  <2> HIDE DEF a, b
  <2>1. M = {<<"data", <<a>>>>, <<"devaddr", <<b>>>>, <<"port", <<Num(20)>>>>, <<"time", <<Word("immediately")>>>>}
    BY DEF SentSayings, a, b
  <2> QED BY <2>1
<1>5. \A y, z : <<y>> = <<z>> => y = z
  OBVIOUS
<1> HIDE DEF M, a, b
<1>6. MemberOf(text, "data") \in {Blank, a}
  <2>0. PICK name : name = "data"
    OBVIOUS
  <2>a. PICK x : x = MemberOf(text, name)
    OBVIOUS
  <2>1. IsMember(x, name, M)
    BY ONLY <1>3, <2>a, MemberTied
  <2> QED BY <1>4, <1>5, <2>0, <2>a, <2>1 DEF IsMember
<1>7. MemberOf(text, "devaddr") \in {Blank, b}
  <2>0. PICK name : name = "devaddr"
    OBVIOUS
  <2>a. PICK x : x = MemberOf(text, name)
    OBVIOUS
  <2>1. IsMember(x, name, M)
    BY ONLY <1>3, <2>a, MemberTied
  <2> QED BY <1>4, <1>5, <2>0, <2>a, <2>1 DEF IsMember
<1> QED BY <1>6, <1>7 DEF a, b

\* There is a switch of this size for every one of these registers of a PLC.
AllNamed(plc, start, num, size) ==
  \A r \in start .. start + num - 1 : \E n \in Name : Switch[n].plc = plc /\ Switch[n].reg = r /\ Switch[n].size = size

\* A frame for the PLCs: it writes, or reads registers that all have names.
ForPlc(frame) ==
  frame[2] = FC_READ =>
    LET start == frame[3] * 256 + frame[4]
        num == frame[5] * 256 + frame[6]
    IN num \in 1 .. MaxRead /\ \E size \in {1, 2} : AllNamed(frame[1], start, num, size)

\* What may be on the air towards the nodes.
SentText(text) ==
  text = <<>> \/ \E sn \in Words, frame \in Seq(Byte) :
                    /\ text \in Seq(Tokens) /\ SaysSome(NoBlanks(text), SentSayings(hex2ascii(frame), sn))
                    /\ sn = LoraNode => Len(frame) = 8 /\ ForPlc(frame)

LEMMA Wider == ASSUME NEW S, NEW T, S \subseteq T, NEW x \in Seq(S) PROVE x \in Seq(T)
<1>1. Len(x) \in Nat /\ x \in [1 .. Len(x) -> S]
  OBVIOUS
<1>2. x \in [1 .. Len(x) -> T]
  BY <1>1
<1> QED BY <1>1, <1>2

LEMMA HexTyped == ASSUME NEW frame \in Seq(Byte) PROVE hex2ascii(frame) \in Seq(Int) /\ ascii2hex(hex2ascii(frame)) = frame
<1> DEFINE S == (48 .. 57) \cup (65 .. 70)
<1>1. hex2ascii(frame) \in Seq(S) /\ ascii2hex(hex2ascii(frame)) = frame
  BY TextAndBack
<1>2. S \subseteq Int
  OBVIOUS
<1> HIDE DEF S
<1> QED BY <1>1, <1>2, Wider

\* What a node has got is the frame that was sent to it.
LEMMA CarriedIs ==
  ASSUME SentText(sent), NEW lorasn \in Words, Reaches(lorasn)
  PROVE  Carried \in Seq(Byte) /\ Len(Carried) > 2 /\ (lorasn = LoraNode => Len(Carried) = 8 /\ ForPlc(Carried))
<1>1. MemberOf(sent, "devaddr") = Word(lorasn) /\ Sound(Carried)
  BY DEF Reaches
<1>2. Word(lorasn).t = "string" /\ Word(lorasn).s = lorasn /\ Blank.t = "blank" /\ Blank.n = <<>>
  BY DEF Word, Blank, Punct
<1>3. sent # <<>>
  <2> SUFFICES ASSUME sent = <<>> PROVE FALSE
    OBVIOUS
  <2>1. NoBlanks(sent) = <<>> /\ Len(<<>>) - 2 = -2 /\ 1 .. -2 = {}
    BY NoBlanksNone
  <2>2. MemberOf(sent, "devaddr") = Blank
    BY <2>1 DEF MemberOf
  <2> QED BY <1>1, <1>2, <2>2
<1>4. PICK sn \in Words, frame \in Seq(Byte) :
        /\ SaysSome(NoBlanks(sent), SentSayings(hex2ascii(frame), sn))
        /\ sn = LoraNode => Len(frame) = 8 /\ ForPlc(frame)
  BY <1>3 DEF SentText
<1> DEFINE ascii == hex2ascii(frame)
<1>5. ascii \in Seq(Int) /\ ascii2hex(ascii) = frame
  BY HexTyped
<1> HIDE DEF ascii
<1>6. /\ MemberOf(sent, "data") \in {Blank, Frame(ascii)}
      /\ MemberOf(sent, "devaddr") \in {Blank, Word(sn)}
  BY <1>4, <1>5, SentMember DEF ascii
<1>7. sn = lorasn
  <2>1. Word(sn).s = sn
    BY DEF Word
  <2> QED BY <1>1, <1>2, <1>6, <2>1
<1>8. Len(Carried) > 2
  BY <1>1 DEF Sound
<1>9. CASE MemberOf(sent, "data") = Blank
  <2>1. Carried = ascii2hex(<<>>)
    BY <1>2, <1>9 DEF Carried
  <2>2. Len(<<>>) \div 2 = 0
    OBVIOUS
  <2>3. ascii2hex(<<>>) = [k \in 1 .. 0 |-> Number(<<>>, 2 * k - 1, 2 * k)]
    BY <2>2 DEF ascii2hex
  <2>4. Len(ascii2hex(<<>>)) = 0
    BY <2>3
  <2> QED BY <1>8, <2>1, <2>4
<1>10. CASE MemberOf(sent, "data") = Frame(ascii)
  <2>1. Frame(ascii).n = ascii
    BY DEF Frame
  <2>2. Carried = frame
    BY <1>5, <1>10, <2>1 DEF Carried
  <2> QED BY <1>4, <1>7, <1>8, <2>2
<1> QED BY <1>6, <1>9, <1>10

-----------------------------------------------------------------------------
(* The frames that are sent.                                               *)

LEMMA WordWhole == \A x \in Word16 : x \in Int /\ x % (256 * 256) = x
BY DEF Word16

LEMMA ReadFrameIs ==
  ASSUME NEW plc \in Byte, NEW first \in Word16, NEW count \in Word16, NEW f, f = ReadFrame(plc, first, count)
  PROVE  /\ f \in Seq(Byte) /\ Len(f) = 8 /\ f[1] = plc /\ f[2] = FC_READ
         /\ f[3] * 256 + f[4] = first /\ f[5] * 256 + f[6] = count
<1> DEFINE a == plc % 256
           b == (first \div 256) % 256
           c == first % 256
           d == (count \div 256) % 256
           e == count % 256
           all == <<a, FC_READ>> \o <<b, c>> \o <<d, e>>
<1>1. a = plc /\ first % (256 * 256) = first /\ count % (256 * 256) = count
  <2>1. \A x \in Word16 : x % (256 * 256) = x
    BY WordWhole
  <2>2. plc \in 0 .. 255
    BY DEF Byte
  <2> QED BY <2>1, <2>2
<1>2. b \in Byte /\ c \in Byte /\ d \in Byte /\ e \in Byte /\ b * 256 + c = first /\ d * 256 + e = count
  <2>1. first \in Int /\ count \in Int
    BY WordWhole
  <2>2. b \in Byte /\ c \in Byte /\ b * 256 + c = first % (256 * 256)
    BY <2>1, WordOfBytes
  <2>3. d \in Byte /\ e \in Byte /\ d * 256 + e = count % (256 * 256)
    BY <2>1, WordOfBytes
  <2> QED BY <1>1, <2>2, <2>3
<1>3. f = Framed(all)
  BY DEF ReadFrame, Bytes2
<1>4. FC_READ \in Byte
  BY DEF FC_READ, Byte
<1>5. a \in Byte
  BY <1>1
<1> HIDE DEF a, b, c, d, e
<1>6. /\ all \in Seq(Byte) /\ Len(all) = 6 /\ all # <<>>
      /\ all[1] = a /\ all[2] = FC_READ /\ all[3] = b /\ all[4] = c /\ all[5] = d /\ all[6] = e
  BY <1>2, <1>4, <1>5, SixBytes
<1> HIDE DEF all
<1>7. f \in Seq(Byte) /\ Len(f) = Len(all) + 2 /\ \A i \in 1 .. Len(all) : f[i] = all[i]
  BY <1>3, <1>6, FramesSound, ZenonT(60)
<1>8. f[1] = all[1] /\ f[2] = all[2] /\ f[3] = all[3] /\ f[4] = all[4] /\ f[5] = all[5] /\ f[6] = all[6] /\ Len(f) = 8
  BY <1>6, <1>7
<1> QED BY <1>1, <1>2, <1>6, <1>7, <1>8

LEMMA WriteFrameIs ==
  ASSUME NEW plc \in Byte, NEW channel \in Word16, NEW value \in Int, NEW f, f = WriteFrame(plc, channel, value)
  PROVE  /\ f \in Seq(Byte) /\ Len(f) = 8 /\ f[1] = plc /\ f[2] = FC_WRITE
         /\ f[3] * 256 + f[4] = channel /\ f[5] * 256 + f[6] = value % (256 * 256)
<1> DEFINE a == plc % 256
           b == (channel \div 256) % 256
           c == channel % 256
           d == (value \div 256) % 256
           e == value % 256
           all == <<a, FC_WRITE>> \o <<b, c>> \o <<d, e>>
<1>1. a = plc /\ channel % (256 * 256) = channel
  <2>1. \A x \in Word16 : x % (256 * 256) = x
    BY WordWhole
  <2>2. plc \in 0 .. 255
    BY DEF Byte
  <2> QED BY <2>1, <2>2
<1>2. b \in Byte /\ c \in Byte /\ d \in Byte /\ e \in Byte /\ b * 256 + c = channel /\ d * 256 + e = value % (256 * 256)
  <2>1. channel \in Int
    BY WordWhole
  <2>2. b \in Byte /\ c \in Byte /\ b * 256 + c = channel % (256 * 256)
    BY <2>1, WordOfBytes
  <2>3. d \in Byte /\ e \in Byte /\ d * 256 + e = value % (256 * 256)
    BY WordOfBytes
  <2> QED BY <1>1, <2>2, <2>3
<1>3. f = Framed(all)
  BY DEF WriteFrame, Bytes2
<1>4. FC_WRITE \in Byte
  BY DEF FC_WRITE, Byte
<1>5. a \in Byte
  BY <1>1
<1> HIDE DEF a, b, c, d, e
<1>6. /\ all \in Seq(Byte) /\ Len(all) = 6 /\ all # <<>>
      /\ all[1] = a /\ all[2] = FC_WRITE /\ all[3] = b /\ all[4] = c /\ all[5] = d /\ all[6] = e
  BY <1>2, <1>4, <1>5, SixBytes
<1> HIDE DEF all
<1>7. f \in Seq(Byte) /\ Len(f) = Len(all) + 2 /\ \A i \in 1 .. Len(all) : f[i] = all[i]
  BY <1>3, <1>6, FramesSound, ZenonT(60)
<1>8. f[1] = all[1] /\ f[2] = all[2] /\ f[3] = all[3] /\ f[4] = all[4] /\ f[5] = all[5] /\ f[6] = all[6] /\ Len(f) = 8
  BY <1>6, <1>7
<1> QED BY <1>1, <1>2, <1>6, <1>7, <1>8

\* As many switches as registers: every register has a switch.
LEMMA AllAsked ==
  ASSUME NEW plc, NEW size, NEW start \in Nat, NEW num \in Nat,
         NEW asked, asked = {n \in Name : /\ Switch[n].plc = plc /\ Switch[n].size = size
                                          /\ Switch[n].reg \in start .. start + num - 1},
         Cardinality(asked) = num
  PROVE  AllNamed(plc, start, num, size)
<1> DEFINE T == start .. start + num - 1
           f == [n \in asked |-> Switch[n].reg]
<1>1. f \in Injection(asked, T)
  <2>1. f \in [asked -> T]
    OBVIOUS
  <2>2. ASSUME NEW n \in asked, NEW o \in asked, f[n] = f[o] PROVE n = o
    <3>1. Switch[n].plc = Switch[o].plc /\ Switch[n].reg = Switch[o].reg /\ n \in Name /\ o \in Name
      BY <2>2
    <3>2. \A x, y \in Name :
            Switch[x].plc = Switch[y].plc /\ (Switch[x].reg = Switch[y].reg \/ Switch[x].channel = Switch[y].channel) => x = y
      BY SwitchAssumption
    <3> QED BY <3>1, <3>2
  <2> HIDE DEF f, T
  <2> QED BY <2>1, <2>2 DEF Injection, IsInjective
<1>2. IsFiniteSet(T) /\ Cardinality(T) = num
  <2> DEFINE a == start
             b == start + num - 1
  <2>1. a \in Int /\ b \in Int /\ (IF a > b THEN 0 ELSE b - a + 1) = num
    OBVIOUS
  <2> HIDE DEF a, b
  <2>2. IsFiniteSet(a .. b) /\ Cardinality(a .. b) = IF a > b THEN 0 ELSE b - a + 1
    BY <2>1, FS_Interval
  <2> QED BY <2>1, <2>2 DEF a, b
<1> HIDE DEF f, T
<1>3. f \in Surjection(asked, T)
  BY <1>1, <1>2, FS_Injection
<1>4. ASSUME NEW r \in T PROVE \E n \in Name : Switch[n].plc = plc /\ Switch[n].reg = r /\ Switch[n].size = size
  <2>1. PICK n \in asked : f[n] = r
    BY <1>3 DEF Surjection
  <2> QED BY <2>1 DEF f
<1> QED BY <1>4 DEF AllNamed, T

-----------------------------------------------------------------------------
(* What the nodes answer.                                                  *)

\* Two members of an object.
LEMMA TwoMembers ==
  ASSUME NEW v \in Words, NEW w \in Words, NEW a \in Tokens, NEW b \in Tokens,
         a.t \in {"string", "number"}, b.t \in {"string", "number"},
         NEW x, x = <<v, <<a>>>>, NEW y, y = <<w, <<b>>>>, NEW text, text = Object(<<x, y>>)
  PROVE  Tied(text, {x, y})
<1>1. <<a>> \in Seq(Tokens) /\ <<b>> \in Seq(Tokens)
  OBVIOUS
<1>2. x \in Members /\ y \in Members
  BY <1>1 DEF Members
<1>3. x \in Plains /\ y \in Plains
  BY <1>2 DEF Plains
<1> DEFINE ms == <<x, y>>
<1>4. ms \in Seq(Members) /\ Len(ms) = 2 /\ ms[1] = x /\ ms[2] = y
  BY <1>2
<1> HIDE DEF ms
<1>5. ASSUME NEW i \in 1 .. Len(ms) PROVE ms[i] \in {x, y}
  <2>1. i = 1 \/ i = 2
    BY <1>4
  <2> QED BY ONLY <1>4, <2>1
<1>6. Tied(Object(ms), {x, y})
  BY <1>3, <1>4, <1>5, TiedObject
<1> QED BY <1>6 DEF ms

\* What a node answers is a text.
LEMMA AnswerTyped ==
  ASSUME NEW lorasn \in Words, NEW bytes \in Seq(Byte),
         NEW text, text = Object(<< <<"devaddr", <<Word(lorasn)>>>>, <<"data", <<Frame(hex2ascii(bytes))>>>> >>)
  PROVE  text \in Seq(Tokens)
<1> DEFINE ascii == hex2ascii(bytes)
           a == Word(lorasn)
           b == Frame(ascii)
           u == "devaddr"
           v == "data"
           x == <<u, <<a>>>>
           y == <<v, <<b>>>>
<1>1. ascii \in Seq(Int)
  BY HexTyped
<1>2. a \in Tokens /\ a.t = "string" /\ b \in Tokens /\ b.t = "string"
  BY <1>1, TokensAre
<1>3. text = Object(<<x, y>>)
  OBVIOUS
<1> HIDE DEF a, b
<1>4. u \in Words /\ v \in Words
  BY WordsAre
<1>5. x = <<u, <<a>>>> /\ y = <<v, <<b>>>> /\ a.t \in {"string", "number"} /\ b.t \in {"string", "number"}
  BY <1>2
<1> HIDE DEF u, v, x, y
<1>6. Tied(text, {x, y})
  BY ONLY <1>2, <1>3, <1>4, <1>5, TwoMembers
<1>7. text \in Seq(Solid) /\ Solid \subseteq Tokens
  BY <1>6 DEF Tied, Solid
<1> QED BY <1>7, Wider

-----------------------------------------------------------------------------
(* The replies of the nodes.                                               *)

LEMMA ByteIn == \A n \in Nat : n < 256 => n \in Byte
BY DEF Byte

LEMMA TwoParts == ASSUME NEW S, NEW x \in Seq(S), NEW y \in Seq(S) PROVE x \o y \in Seq(S) /\ Len(x \o y) = Len(x) + Len(y)
OBVIOUS

LEMMA WordIn == \A h, l \in Byte : h * 256 + l \in Nat
BY DEF Byte

LEMMA EightBytes ==
  ASSUME NEW frame \in Seq(Byte), Len(frame) = 8
  PROVE  /\ frame[1] \in Byte /\ frame[2] \in Byte /\ frame[3] \in Byte /\ frame[4] \in Byte
         /\ frame[5] \in Byte /\ frame[6] \in Byte
OBVIOUS

\* Parts of one length.
LEMMA ConcatEven ==
  ASSUME NEW S, NEW parts \in Seq(Seq(S)), NEW c \in {1, 2}, \A i \in 1 .. Len(parts) : Len(parts[i]) = c
  PROVE  Concat(parts) \in Seq(S) /\ Len(Concat(parts)) = c * Len(parts)
<1> DEFINE f == ConcatUpto(parts)
           n == Len(parts)
<1>1. Concats(f, S, parts) /\ Concat(parts) = f[n]
  BY ConcatSteps
<1>2. n \in Nat
  OBVIOUS
<1> DEFINE P == {i \in 0 .. n : Len(f[i]) = c * i}
<1>3. 0 \in P
  BY <1>1, <1>2 DEF Concats
<1>4. ASSUME NEW i \in 1 .. n, i - 1 \in P PROVE i \in P
  <2>1. f[i] = f[i - 1] \o parts[i] /\ f[i - 1] \in Seq(S)
    <3>1. i \in 1 .. Len(parts) /\ i - 1 \in 0 .. Len(parts) /\ Concats(f, S, parts)
      BY <1>1, <1>2
    <3> HIDE DEF f
    <3> QED BY ONLY <3>1 DEF Concats
  <2>2. Len(f[i]) = c * (i - 1) + c
    <3>1. parts[i] \in Seq(S) /\ Len(parts[i]) = c
      OBVIOUS
    <3>2. Len(f[i - 1]) = c * (i - 1)
      BY <1>4
    <3>3. Len(f[i - 1] \o parts[i]) = Len(f[i - 1]) + Len(parts[i])
      <4>1. PICK x : x = f[i - 1]
        OBVIOUS
      <4>2. PICK y : y = parts[i]
        OBVIOUS
      <4>3. x \in Seq(S) /\ y \in Seq(S)
        BY <2>1, <3>1, <4>1, <4>2
      <4>4. Len(x \o y) = Len(x) + Len(y)
        BY ONLY <4>3
      <4> QED BY ONLY <4>1, <4>2, <4>4
    <3> QED BY ONLY <2>1, <3>1, <3>2, <3>3
  <2>3. c * (i - 1) + c = c * i
    BY <1>2
  <2> QED BY <1>2, <2>2, <2>3
<1>5. \A i \in 0 .. n : i \in P
  <2> HIDE DEF P, n
  <2> QED BY <1>2, <1>3, <1>4, Ladder
<1>6. f[n] \in Seq(S)
  BY <1>1, <1>2 DEF Concats
<1> QED BY <1>1, <1>2, <1>5, <1>6

\* Registers hold what they have bytes for.
RegTyped(values) ==
  /\ values \in [Name -> Word16]
  /\ \A n \in Name : Switch[n].size = 1 => values[n] \in Byte

LEMMA Bytes2Typed == ASSUME NEW n \in Int PROVE Bytes2(n) \in Seq(Byte) /\ Len(Bytes2(n)) = 2
<1>1. (n \div 256) % 256 \in Byte /\ n % 256 \in Byte
  BY DEF Byte
<1> DEFINE a == (n \div 256) % 256
           b == n % 256
<1> HIDE DEF a, b
<1>2. <<a, b>> \in Seq(Byte) /\ Len(<<a, b>>) = 2
  BY <1>1 DEF a, b
<1> QED BY <1>2 DEF Bytes2, a, b

\* The values of registers that all have names.
LEMMA HeldTyped ==
  ASSUME RegTyped(reg), NEW plc, NEW start \in Nat, NEW num \in Nat, NEW size \in {1, 2}, AllNamed(plc, start, num, size)
  PROVE  Held(plc, start, num) \in Seq(Byte) /\ Len(Held(plc, start, num)) = size * num
<1> DEFINE name(r) == CHOOSE n \in Name : Switch[n].plc = plc /\ Switch[n].reg = r
           data(n) == IF Switch[n].size = 1 THEN <<reg[n]>> ELSE Bytes2(reg[n])
           parts == [j \in 1 .. num |-> data(name(start + j - 1))]
<1>1. ASSUME NEW j \in 1 .. num PROVE data(name(start + j - 1)) \in Seq(Byte) /\ Len(data(name(start + j - 1))) = size
  <2> DEFINE r == start + j - 1
             m == name(r)
  <2>1. r \in start .. start + num - 1
    OBVIOUS
  <2> HIDE DEF r
  <2>2. PICK n \in Name : Switch[n].plc = plc /\ Switch[n].reg = r /\ Switch[n].size = size
    BY <2>1 DEF AllNamed
  <2>3. m \in Name /\ Switch[m].plc = plc /\ Switch[m].reg = r
    BY <2>2
  <2>4. m = n
    BY <2>2, <2>3, SwitchAssumption
  <2> HIDE DEF m
  <2>5. size = 1 => data(m) = <<reg[m]>> /\ reg[m] \in Byte
    BY <2>2, <2>3, <2>4 DEF RegTyped
  <2>6. size = 2 => data(m) = Bytes2(reg[m])
    BY <2>2, <2>4
  <2>7. reg[m] \in Int
    BY <2>3 DEF RegTyped, Word16
  <2> DEFINE d == data(m)
             v == reg[m]
  <2> HIDE DEF d, v
  <2>8. d \in Seq(Byte) /\ Len(d) = size
    <3>1. CASE size = 1
      <4>1. d = <<v>> /\ v \in Byte
        BY <2>5, <3>1 DEF d, v
      <4> QED BY ONLY <4>1, <3>1
    <3>2. CASE size = 2
      <4>1. d = Bytes2(v) /\ v \in Int
        BY <2>6, <2>7, <3>2 DEF d, v
      <4>2. Bytes2(v) \in Seq(Byte) /\ Len(Bytes2(v)) = 2
        BY <4>1, Bytes2Typed
      <4> QED BY ONLY <4>1, <4>2, <3>2
    <3> QED BY <3>1, <3>2
  <2> QED BY <2>8 DEF m, r, d
<1>2. Held(plc, start, num) = Concat(parts)
  BY DEF Held
<1> HIDE DEF data, name
<1>3. parts \in Seq(Seq(Byte)) /\ Len(parts) = num /\ \A i \in 1 .. Len(parts) : Len(parts[i]) = size
  <2> DEFINE F(j) == data(name(start + j - 1))
  <2>1. parts = [j \in 1 .. num |-> F(j)]
    OBVIOUS
  <2>2. \A j \in 1 .. num : F(j) \in Seq(Byte) /\ Len(F(j)) = size
    BY <1>1
  <2>3. num \in Nat
    OBVIOUS
  <2> HIDE DEF F, parts
  <2> QED BY ONLY <2>1, <2>2, <2>3
<1> HIDE DEF parts
<1> QED BY <1>2, <1>3, ConcatEven

\* Behind three bytes or five, and before two.
ReplyText(head, values) == head \o values \o <<255, 255>>

LEMMA ReplyTyped ==
  ASSUME NEW head \in Seq(Byte), NEW values \in Seq(Byte), Len(head) >= 3
  PROVE  /\ ReplyText(head, values) \in Seq(Byte) /\ Len(ReplyText(head, values)) = Len(head) + Len(values) + 2
         /\ ReplyText(head, values)[3] = head[3]
<1>1. <<255, 255>> \in Seq(Byte) /\ Len(<<255, 255>>) = 2
  BY DEF Byte
<1> DEFINE t == <<255, 255>>
<1> HIDE DEF t
<1>2. t \in Seq(Byte) /\ Len(t) = 2
  BY <1>1 DEF t
<1> DEFINE r == ReplyText(head, values)
<1>3. r = head \o values \o t
  BY DEF t, ReplyText
<1> HIDE DEF r
<1>4. r \in Seq(Byte) /\ Len(r) = Len(head) + Len(values) + 2 /\ r[3] = head[3]
  <2> DEFINE hv == head \o values
  <2>1. Len(head) \in Nat /\ Len(values) \in Nat /\ 3 \in 1 .. Len(head)
    OBVIOUS
  <2>2. hv \in Seq(Byte) /\ Len(hv) = Len(head) + Len(values) /\ hv[3] = head[3]
    BY <2>1
  <2>3. r = hv \o t
    BY <1>3
  <2> HIDE DEF hv
  <2>4. 3 \in 1 .. Len(hv)
    BY <2>1, <2>2
  <2>5. hv \o t \in Seq(Byte) /\ Len(hv \o t) = Len(hv) + Len(t)
    BY ONLY <1>2, <2>2, TwoParts
  <2>6. (hv \o t)[3] = hv[3]
    BY <1>2, <2>2, <2>4
  <2> QED BY ONLY <1>2, <2>1, <2>2, <2>3, <2>5, <2>6
<1> QED BY <1>4 DEF r

LEMMA HighByte == \A h, l \in Byte : (h * 256 + l) \div 256 = h /\ (h * 256 + l) % 256 = l
BY DEF Byte

\* What a PLC answers are bytes.
LEMMA PlcTyped ==
  ASSUME NEW frame \in Seq(Byte), Len(frame) = 8, ForPlc(frame), frame[2] = FC_READ, RegTyped(reg),
         NEW start, start = frame[3] * 256 + frame[4], NEW num, num = frame[5] * 256 + frame[6]
  PROVE  ReplyFrame(frame[1], start, Held(frame[1], start, num)) \in Seq(Byte)
<1> DEFINE values == Held(frame[1], start, num)
           bytes == ReplyFrame(frame[1], start, values)
<1>0. frame[1] \in Byte /\ frame[3] \in Byte /\ frame[4] \in Byte /\ frame[5] \in Byte /\ frame[6] \in Byte
  BY EightBytes
<1>1. start \in Nat /\ num \in Nat
  BY <1>0, WordIn
<1>2. PICK size \in {1, 2} : num \in 1 .. MaxRead /\ AllNamed(frame[1], start, num, size)
  BY DEF ForPlc
<1>a. start \div 256 = frame[3] /\ start % 256 = frame[4]
  BY <1>0, HighByte
<1>3. values \in Seq(Byte) /\ Len(values) = size * num
  BY <1>1, <1>2, HeldTyped
<1>4. num <= 125
  <2>1. MaxRead \in 1 .. 125
    BY ReportsAssumption
  <2> QED BY ONLY <1>1, <1>2, <2>1
<1>5. Len(values) \in Nat /\ Len(values) + 2 <= 252
  <2>1. size = 1 \/ size = 2
    OBVIOUS
  <2> QED BY ONLY <1>1, <1>3, <1>4, <2>1
<1> DEFINE l == Len(values) + 2
<1>6. l \in Byte
  BY <1>5, ByteIn
<1> HIDE DEF l
<1> DEFINE head == <<frame[1], FC_READ, l, frame[3], frame[4]>>
<1>7. FC_READ \in Byte
  BY DEF FC_READ, Byte
<1>8. head \in Seq(Byte) /\ Len(head) = 5
  BY <1>0, <1>6, <1>7
<1>9. bytes = ReplyText(head, values)
  <2>1. bytes = ReplyText(<<frame[1], FC_READ, l, start \div 256, start % 256>>, values)
    BY DEF l, ReplyText, ReplyFrame
  <2> HIDE DEF bytes, values
  <2> QED BY <1>a, <2>1, ZenonT(60)
<1> HIDE DEF head, bytes, values
<1>10. bytes \in Seq(Byte)
  <2>1. Len(head) >= 3
    BY <1>8
  <2> QED BY ONLY <1>3, <1>8, <1>9, <2>1, ReplyTyped
<1> QED BY <1>10 DEF bytes, values

LEMMA StationTyped ==
  ASSUME NEW reading \in Reading
  PROVE  WeatherFrame(reading) \in Seq(Byte)
<1> DEFINE said == reading[2]
           values == Concat([j \in DOMAIN reading[2] |-> Bytes2(reading[2][j])])
           bytes == WeatherFrame(reading)
           parts == [j \in 1 .. Len(said) |-> Bytes2(said[j])]
<1>1. said \in Seq(Int) /\ Len(said) = 2 /\ reading[1] \in Byte
  <2>1. said \in Seq(-128 * 256 .. 256 * 256 - 1) /\ Len(said) = 2 /\ reading[1] \in Byte
    BY ReportsAssumption, ZenonT(60)
  <2>2. -128 * 256 .. 256 * 256 - 1 \subseteq Int
    OBVIOUS
  <2> HIDE DEF said
  <2> DEFINE S == -128 * 256 .. 256 * 256 - 1
  <2>3. S \subseteq Int /\ said \in Seq(S)
    BY <2>1, <2>2
  <2> HIDE DEF S
  <2>4. said \in Seq(Int)
    BY ONLY <2>3, Wider
  <2> QED BY <2>1, <2>4, ZenonT(60)
<1>2. values = Concat(parts)
  <2>1. DOMAIN said = 1 .. Len(said)
    BY <1>1
  <2> QED BY ONLY <2>1 DEF values, said, parts
<1>b. bytes = <<reading[1], FC_READ, Len(values)>> \o values \o <<255, 255>>
  BY DEF WeatherFrame
<1> HIDE DEF said, values, bytes
<1>3. parts \in Seq(Seq(Byte)) /\ Len(parts) = Len(said) /\ \A i \in 1 .. Len(parts) : Len(parts[i]) = 2
  <2>1. \A i \in 1 .. Len(said) : Bytes2(said[i]) \in Seq(Byte) /\ Len(Bytes2(said[i])) = 2
    <3>1. \A i \in 1 .. Len(said) : said[i] \in Int
      BY ONLY <1>1, SMTT(30)
    <3> QED BY ONLY <3>1, Bytes2Typed
  <2> QED BY <1>1, <2>1
<1> HIDE DEF parts
<1>4. values \in Seq(Byte) /\ Len(values) = 2 * Len(said)
  BY <1>2, <1>3, ConcatEven
<1> DEFINE l == Len(values)
<1>5. l \in Byte
  <2>1. Len(values) \in Nat /\ Len(values) < 256
    BY ONLY <1>1, <1>4
  <2> QED BY <2>1, ByteIn
<1> HIDE DEF l
<1> DEFINE head == <<reading[1], FC_READ, l>>
<1>6. FC_READ \in Byte
  BY DEF FC_READ, Byte
<1>7. head \in Seq(Byte) /\ Len(head) = 3
  BY <1>1, <1>5, <1>6
<1>8. bytes = ReplyText(head, values)
  BY <1>b DEF l, ReplyText
<1> HIDE DEF head
<1>9. Len(head) >= 3
  BY <1>7
<1>10. bytes \in Seq(Byte)
  BY ONLY <1>4, <1>7, <1>8, <1>9, ReplyTyped
<1> QED BY <1>10, SMTT(30) DEF bytes

-----------------------------------------------------------------------------
(* What is made for the hub.                                               *)

LEMMA PowerTyped == \A n \in Nat : 2 ^ n \in Int
OBVIOUS

LEMMA RegValueTyped ==
  ASSUME NEW hexdata \in Seq(Byte), NEW size \in {1, 2}, NEW len \in Int, len <= Len(hexdata), NEW j \in 1 .. len \div size
  PROVE  RegValue(hexdata, j - 1, size) \in Int
<1>1. len \in Int /\ j \in Int /\ j >= 1 /\ j <= len \div size
  BY DEF Byte
<1>2. CASE size = 1
  <2>1. j \in 1 .. Len(hexdata)
    BY <1>1, <1>2
  <2>2. hexdata[j] \in Byte
    BY <2>1
  <2>3. RegValue(hexdata, j - 1, size) = hexdata[j]
    <3>1. j - 1 + 1 = j
      BY <1>1
    <3> QED BY <1>2, <3>1 DEF RegValue
  <2> QED BY <2>2, <2>3, ByteIs
<1>3. CASE size = 2
  <2> DEFINE h == 2 * (j - 1) + 1
             l == 2 * (j - 1) + 2
  <2>1. h \in 1 .. Len(hexdata) /\ l \in 1 .. Len(hexdata)
    <3>1. j <= len \div 2
      BY <1>1, <1>3
    <3>2. 2 * j <= len
      BY ONLY <1>1, <3>1
    <3>3. Len(hexdata) \in Nat /\ len <= Len(hexdata)
      OBVIOUS
    <3> QED BY ONLY <1>1, <3>2, <3>3 DEF h, l
  <2> DEFINE x == hexdata[h]
             y == hexdata[l]
  <2>2. RegValue(hexdata, j - 1, size) = x * 2 ^ (8 + y)
    BY <1>3 DEF RegValue
  <2> HIDE DEF h, l
  <2>3. x \in Byte /\ y \in Byte
    BY <2>1
  <2> HIDE DEF x, y
  <2>4. x \in Nat /\ y \in Nat
    BY <2>3, ByteIs
  <2>5. 8 + y \in Nat
    BY ONLY <2>4
  <2>6. 2 ^ (8 + y) \in Int
    BY <2>5, PowerTyped
  <2> DEFINE p == 2 ^ (8 + y)
  <2> HIDE DEF p
  <2>7. x * p \in Int
    <3>1. p \in Int
      BY <2>6 DEF p
    <3> QED BY ONLY <2>4, <3>1
  <2> QED BY <2>2, <2>7 DEF p
<1> QED BY <1>2, <1>3

\* The members that the registers of a reply become.
Registers(plc, start_addr, hexdata, len, reg_size) ==
  LET value(n, i) == IF n = "waterFertilizerPressure" THEN RegValue(hexdata, i, reg_size)
                     ELSE 10 * RegValue(hexdata, i, reg_size)
      named(addr) == {n \in Name : Switch[n].plc = plc /\ Switch[n].reg = addr}
      member(i) == LET n == CHOOSE n \in named(start_addr + i) : TRUE IN <<n, Num(value(n, i))>>
  IN Concat([j \in 1 .. len \div reg_size |->
               IF named(start_addr + j - 1) = {} THEN <<>> ELSE <<member(j - 1)>>])

LEMMA RegistersTyped ==
  ASSUME NEW plc, NEW start \in Int, NEW hexdata \in Seq(Byte), NEW size \in {1, 2}, NEW len \in Int, len <= Len(hexdata)
  PROVE  Registers(plc, start, hexdata, len, size) \in Seq(Simple)
<1> DEFINE value(n, i) == IF n = "waterFertilizerPressure" THEN RegValue(hexdata, i, size)
                          ELSE 10 * RegValue(hexdata, i, size)
           named(addr) == {n \in Name : Switch[n].plc = plc /\ Switch[n].reg = addr}
           member(i) == LET n == CHOOSE n \in named(start + i) : TRUE IN <<n, Num(value(n, i))>>
           F(j) == IF named(start + j - 1) = {} THEN <<>> ELSE <<member(j - 1)>>
           num == len \div size
           parts == [j \in 1 .. num |-> F(j)]
<1>1. Registers(plc, start, hexdata, len, size) = Concat(parts)
  BY DEF Registers
<1>2. ASSUME NEW j \in 1 .. num PROVE F(j) \in Seq(Simple)
  <2>1. CASE named(start + j - 1) = {}
    BY <2>1
  <2>2. CASE named(start + j - 1) # {}
    <3> DEFINE n == CHOOSE n \in named(start + j - 1) : TRUE
               v == value(n, j - 1)
    <3>1. n \in Name
      BY <2>2
    <3>2. RegValue(hexdata, j - 1, size) \in Int
      BY RegValueTyped
    <3>3. v \in Int
      <4> DEFINE w == RegValue(hexdata, j - 1, size)
      <4>1. w \in Int
        BY <3>2
      <4>2. v = IF n = "waterFertilizerPressure" THEN w ELSE 10 * w
        OBVIOUS
      <4> HIDE DEF w, n, v
      <4> QED BY <4>1, <4>2
    <3>4. F(j) = <<<<n, Num(v)>>>>
      <4>1. start + (j - 1) = start + j - 1
        OBVIOUS
      <4> QED BY <2>2, <4>1
    <3> HIDE DEF n, v, F
    <3>5. n \in Words /\ Num(v) \in Tokens /\ Num(v).t = "number"
      BY <3>1, <3>3, WordsAre, TokensAre
    <3> DEFINE a == Num(v)
               x == <<n, a>>
    <3>6. x \in Words \X Tokens /\ x[2] = a /\ a.t = "number"
      BY <3>5
    <3>7. x \in Simple
      BY <3>6 DEF Simple
    <3> HIDE DEF x
    <3>8. <<x>> \in Seq(Simple)
      BY <3>7
    <3> QED BY <3>4, <3>8 DEF x
  <2> QED BY <2>1, <2>2
<1>3. num \in Int
  OBVIOUS
<1> HIDE DEF F, num
<1>4. parts \in Seq(Seq(Simple))
  <2>1. CASE num <= 0
    <3>1. parts = <<>>
      BY <1>3, <2>1
    <3>2. <<>> \in Seq(Seq(Simple))
      OBVIOUS
    <3> HIDE DEF parts
    <3> QED BY <3>1, <3>2
  <2>2. CASE num > 0
    BY <1>2, <1>3, <2>2
  <2> QED BY <1>3, <2>1, <2>2
<1> HIDE DEF parts
<1> QED BY <1>1, <1>4, ConcatTyped

\* The object that is made of them.
Params(lorasn, members) == << <<"loraNodeSerialNo", Word(lorasn)>> >> \o members
ReportBuilt(lorasn, members, heap) ==
  AddObject(AddMembers(cJSON_CreateObject(heap), << <<"id", Num(0)>>, <<"method", Post>> >>), "params", Params(lorasn, members))

ReportFront == << <<"id", <<Num(0)>>>>, <<"method", <<Post>>>> >>
ReportSaid(ms) == Append(ReportFront, <<"params", Object(ms)>>)

\* What may stand in it: two members, and an object.
ReportSayings ==
  {<<"id", <<Num(0)>>>>, <<"method", <<Post>>>>} \cup
  {<<"params", Object(ms)>> : ms \in Seq(Plains)}

LEMMA ReportIs ==
  ASSUME NEW lorasn, NEW plc, NEW start, NEW hexdata, NEW len, NEW size, NEW heap
  PROVE  Report(lorasn, plc, start, hexdata, len, size, heap) =
           PrintAndDelete([ReportBuilt(lorasn, Registers(plc, start, hexdata, len, size), heap)
                             EXCEPT !.ok = @ /\ \E n \in Name : Switch[n].plc = plc])
BY DEF Report, ReportBuilt, Registers, Params

LEMMA PlainPlains ==
  ASSUME NEW members \in Seq(Simple), NEW j \in 1 .. Len(members)
  PROVE  Singly(members)[j] \in Plains
<1> DEFINE x == members[j]
           w == x[1]
           v == x[2]
<1>1. x \in Simple
  OBVIOUS
<1>2. Singly(members)[j] = <<w, <<v>>>>
  BY PlainTyped
<1>3. w \in Words /\ v \in Tokens /\ v.t \in {"string", "number"}
  <2> HIDE DEF x
  <2> QED BY <1>1 DEF Simple
<1> HIDE DEF w, v, x
<1>4. <<v>> \in Seq(Tokens)
  BY <1>3
<1> DEFINE y == <<v>>
           m == <<w, y>>
<1>5. m \in Members /\ m[2] = y
  BY <1>3, <1>4 DEF Members
<1> HIDE DEF m
<1>6. m \in Plains
  BY <1>3, <1>5 DEF Plains
<1> QED BY <1>2, <1>6 DEF m

\* The two members in front.
LEMMA FrontTyped ==
  ASSUME NEW m, m = << <<"id", Num(0)>>, <<"method", Post>> >>
  PROVE  /\ m \in Seq(Simple) /\ Singly(m) = ReportFront /\ ReportFront \in Seq(Members)
         /\ \A j \in 1 .. Len(m) : Singly(m)[j] \in ReportSayings
<1> DEFINE a == Num(0)
           b == Post
           x == <<"id", a>>
           y == <<"method", b>>
<1>1. a \in Tokens /\ a.t = "number" /\ b \in Tokens /\ b.t = "string"
  <2>1. a \in Tokens /\ a.t = "number"
    BY 0 \in Int, TokensAre
  <2>2. b \in Tokens /\ b.t = "string"
    <3> DEFINE w == "thing.event.property.post"
    <3>1. w \in Words
      BY WordsAre
    <3>2. b = Word(w)
      BY DEF Post
    <3> HIDE DEF w, b
    <3> QED BY <3>1, <3>2, TokensAre
  <2> QED BY <2>1, <2>2
<1>2. ReportFront = << <<"id", <<a>>>>, <<"method", <<b>>>> >> /\ <<"id", <<a>>>> \in ReportSayings /\ <<"method", <<b>>>> \in ReportSayings
  BY DEF ReportFront, ReportSayings
<1>3. m = <<x, y>>
  OBVIOUS
<1> HIDE DEF a, b
<1>4. x \in Simple /\ y \in Simple
  BY <1>1, WordsAre DEF Simple
<1>5. x[1] = "id" /\ x[2] = a /\ y[1] = "method" /\ y[2] = b
  OBVIOUS
<1> HIDE DEF x, y
<1>6. m \in Seq(Simple) /\ Len(m) = 2 /\ m[1] = x /\ m[2] = y
  BY <1>3, <1>4
<1>7. Len(Singly(m)) = 2 /\ Singly(m) \in Seq(Members) /\ \A j \in 1 .. 2 : Singly(m)[j] = <<m[j][1], <<m[j][2]>>>>
  BY <1>6, PlainTyped
<1>8. Singly(m)[1] = <<"id", <<a>>>> /\ Singly(m)[2] = <<"method", <<b>>>>
  <2>1. Singly(m)[1] = <<x[1], <<x[2]>>>> /\ Singly(m)[2] = <<y[1], <<y[2]>>>>
    <3>1. 1 \in 1 .. 2 /\ 2 \in 1 .. 2
      OBVIOUS
    <3> QED BY ONLY <1>6, <1>7, <3>1
  <2> QED BY ONLY <1>5, <2>1
<1>9. Singly(m) = << <<"id", <<a>>>>, <<"method", <<b>>>> >>
  <2> DEFINE p == Singly(m)
             u == <<"id", <<a>>>>
             v == <<"method", <<b>>>>
  <2>1. p \in Seq(Members) /\ Len(p) = 2 /\ p[1] = u /\ p[2] = v
    BY <1>7, <1>8
  <2> HIDE DEF p, u, v
  <2>2. p = <<u, v>>
    BY <2>1
  <2> QED BY <2>2 DEF p, u, v
<1>10. \A j \in 1 .. Len(m) : Singly(m)[j] \in ReportSayings
  <2> SUFFICES ASSUME NEW j \in 1 .. Len(m) PROVE Singly(m)[j] \in ReportSayings
    OBVIOUS
  <2>1. j = 1 \/ j = 2
    BY <1>6
  <2> QED BY ONLY <1>2, <1>8, <2>1
<1> QED BY <1>2, <1>6, <1>7, <1>9, <1>10

LEMMA ParamsTyped ==
  ASSUME NEW lorasn \in Words, NEW members \in Seq(Simple)
  PROVE  Params(lorasn, members) \in Seq(Simple)
<1> DEFINE w == "loraNodeSerialNo"
           a == Word(lorasn)
           x == <<w, a>>
<1>1. a \in Tokens /\ a.t = "string"
  BY TokensAre
<1>2. w \in Words
  BY WordsAre
<1>3. Params(lorasn, members) = <<x>> \o members
  BY DEF Params
<1> HIDE DEF a, w
<1>4. x \in Simple
  BY <1>1, <1>2 DEF Simple
<1> HIDE DEF x
<1>5. <<x>> \in Seq(Simple)
  BY <1>4
<1> QED BY <1>3, <1>5

LEMMA ReportBuilds ==
  ASSUME NEW k \in Nat, NEW lorasn \in Words, NEW members \in Seq(Simple),
         NEW heap, Sane(heap), heap.fails = k, heap.over = FALSE, heap.lost = {}
  PROVE  Building(ReportBuilt(lorasn, members, heap), k, heap.live, ReportSaid(Singly(Params(lorasn, members))), ReportSayings)
<1> DEFINE others == heap.live
           S == ReportSayings
           c == cJSON_CreateObject(heap)
           m == << <<"id", Num(0)>>, <<"method", Post>> >>
           h == AddMembers(c, m)
           p == Params(lorasn, members)
           want == <<>> \o Singly(m)
<1>1. Building(c, k, others, <<>>, S)
  BY CreateObjectBuilds
<1>2. m \in Seq(Simple) /\ Singly(m) = ReportFront /\ ReportFront \in Seq(Members) /\ \A j \in 1 .. Len(m) : Singly(m)[j] \in S
  BY FrontTyped
<1>3. <<>> \in Seq(Members)
  OBVIOUS
<1>4. PICK name : name = "params"
  OBVIOUS
<1>5. ReportBuilt(lorasn, members, heap) = AddObject(h, name, p)
  BY <1>4 DEF ReportBuilt
<1>a. name \in Words
  BY <1>4, WordsAre
<1>6. \A ms \in Seq(Members) : (\A i \in 1 .. Len(ms) : ms[i] \in Plains) => <<name, Object(ms)>> \in S
  <2> SUFFICES ASSUME NEW ms \in Seq(Members), \A i \in 1 .. Len(ms) : ms[i] \in Plains
               PROVE  <<name, Object(ms)>> \in S
    OBVIOUS
  <2>1. ms \in Seq(Plains)
    OBVIOUS
  <2> QED BY <1>4, <2>1 DEF ReportSayings
<1>7. p \in Seq(Simple)
  BY ParamsTyped
<1>8. ReportSaid(Singly(p)) = Append(ReportFront, <<name, Object(Singly(p))>>)
  BY <1>4 DEF ReportSaid
<1> HIDE DEF others, S, c, m
<1>9. Building(h, k, others, want, S)
  BY ONLY k \in Nat, <1>1, <1>2, <1>3, AddMembersSteps
<1>10. want = ReportFront
  BY <1>2, ConcatEmptySeq
<1> HIDE DEF h, p, want
<1>11. \A j \in 1 .. Len(p) : Singly(p)[j] \in Plains
  BY <1>7, PlainPlains
<1>12. Building(AddObject(h, name, p), k, others, Append(ReportFront, <<name, Object(Singly(p))>>), S)
  <2>1. k \in Nat
    OBVIOUS
  <2>2. Building(h, k, others, ReportFront, S)
    BY <1>9, <1>10
  <2> QED BY ONLY <1>2, <1>6, <1>7, <1>a, <1>11, <2>1, <2>2, AddObjectBuilds
<1> QED BY <1>5, <1>8, <1>12 DEF others, S, p

-----------------------------------------------------------------------------
(* A text that comes up.                                                   *)

\* What is published of a reply of a PLC: nothing, or a text that says some of it.
ReportGives(r, k, others, said) ==
  /\ r.how \in {"none", "text", "dies"} /\ r.heap.over = FALSE
  /\ r.how # "dies" => Cleared(r.heap, k, others)
  /\ r.how # "text" => r.text = <<>>
  /\ r.how = "text" => /\ r.text \in Seq(Tokens) /\ SaysSome(NoBlanks(r.text), ReportSayings)
                       /\ k = 0 => NoBlanks(r.text) = Object(said)

Known(plc) == \E n \in Name : Switch[n].plc = plc

ReportPrinted(lorasn, members, plc, heap) ==
  PrintAndDelete([ReportBuilt(lorasn, members, heap) EXCEPT !.ok = @ /\ Known(plc)])

\* What ReportPrinted comes to.
PrintedSo(lorasn, members, plc, heap) ==
  LET r == ReportPrinted(lorasn, members, plc, heap)
  IN /\ ReportGives(r, heap.fails, heap.live, ReportSaid(Singly(Params(lorasn, members))))
     /\ heap.fails = 0 => r.how = IF Known(plc) THEN "text" ELSE "none"

Unhurt(heap) == Sane(heap) /\ heap.over = FALSE /\ heap.lost = {}

LEMMA ReportLeaves ==
  ASSUME NEW lorasn \in Words, NEW members \in Seq(Simple), NEW plc, NEW heap, Unhurt(heap)
  PROVE  PrintedSo(lorasn, members, plc, heap)
<1> DEFINE k == heap.fails
           r == ReportPrinted(lorasn, members, plc, heap)
           said == ReportSaid(Singly(Params(lorasn, members)))
<1>0. k \in Nat /\ Sane(heap) /\ heap.over = FALSE /\ heap.lost = {}
  BY DEF Unhurt, Sane, Heaps
<1> DEFINE others == heap.live
           S == ReportSayings
           c == ReportBuilt(lorasn, members, heap)
           b == [c EXCEPT !.ok = @ /\ Known(plc)]
<1>1. Building(c, k, others, said, S)
  BY <1>0, ReportBuilds
<1>2. r = PrintAndDelete(b)
  BY DEF ReportPrinted
<1> HIDE DEF c, others, S, k, r, said
<1>3. Printable(c, k, others) /\ c \in Built
  BY ONLY <1>0, <1>1, BuildingPrintable DEF Printable
<1>4. b \in Built /\ b.ok = (c.ok /\ Known(plc)) /\ b.heap = c.heap /\ b.items = c.items
  BY <1>3 DEF Built, Known
<1> HIDE DEF b
<1>5. Printable(b, k, others)
  BY <1>3, <1>4 DEF Printable
<1>6. PrintLeaves(r, b, k, others)
  BY <1>0, <1>2, <1>5, PrintAndDeleteLeaves
<1>7. ASSUME r.how = "text"
      PROVE  r.text \in Seq(Tokens) /\ SaysSome(NoBlanks(r.text), S) /\ (k = 0 => NoBlanks(r.text) = Object(said))
  <2>1. c.ok /\ r.text \in Seq(Tokens) /\ NoBlanks(r.text) = Spell(c.items)
    BY <1>4, <1>6, <1>7 DEF PrintLeaves
  <2>2. PICK ms : Says(c.items, ms) /\ (k = 0 => ms = said) /\ \A i \in 1 .. Len(ms) : ms[i] \in S
    BY <1>1, <2>1 DEF Building, HeapHolds
  <2>3. Spell(c.items) = Object(ms) /\ ms \in Seq(Members)
    BY <2>2, SaysObject DEF Says
  <2> QED BY <2>1, <2>2, <2>3 DEF SaysSome
<1>8. k = 0 => r.how = IF Known(plc) THEN "text" ELSE "none"
  BY <1>1, <1>4, <1>6 DEF Building, PrintLeaves
<1>9. ReportGives(r, k, others, said)
  BY <1>6, <1>7 DEF PrintLeaves, ReportGives, S
<1> QED BY <1>8, <1>9 DEF PrintedSo, others, k, r, said

\* A reply as the LoRaWAN server hands it on.
Reply(ascii) ==
  LET hex == ascii2hex(ascii)
  IN hex \in Seq(Byte) /\ Len(hex) >= 5 /\ Len(hex) >= 3 + hex[3]

\* What its registers become.
ReplyMembers(ascii) ==
  LET hex == ascii2hex(ascii)
      start_addr == hex[4] * 256 + hex[5]
      reg_size == IF start_addr <= Max1ByteLenReg THEN 1 ELSE 2
  IN Registers(hex[1], start_addr, SubSeq(hex, 6, Len(hex)), hex[3] - 2, reg_size)

LEMMA NonWeatherIs ==
  ASSUME NEW lorasn, NEW ascii, NEW heap
  PROVE  NonWeather(lorasn, ascii, heap) =
           ReportPrinted(lorasn, ReplyMembers(ascii), ascii2hex(ascii)[1], heap)
BY ReportIs DEF NonWeather, ReplyMembers, Known, ReportPrinted

LEMMA ReplyMembersTyped ==
  ASSUME NEW ascii, Reply(ascii)
  PROVE  ReplyMembers(ascii) \in Seq(Simple)
<1> DEFINE hex == ascii2hex(ascii)
           start == hex[4] * 256 + hex[5]
           size == IF start <= Max1ByteLenReg THEN 1 ELSE 2
           data == SubSeq(hex, 6, Len(hex))
           len == hex[3] - 2
           plc == hex[1]
<1>1. ReplyMembers(ascii) = Registers(plc, start, data, len, size)
  BY DEF ReplyMembers
<1>2. hex \in Seq(Byte) /\ Len(hex) >= 5 /\ Len(hex) >= 3 + hex[3]
  BY DEF Reply
<1> HIDE DEF hex
<1>3. hex[3] \in Byte /\ hex[4] \in Byte /\ hex[5] \in Byte
  BY <1>2
<1>4. start \in Int /\ len \in Int
  <2>1. start \in Nat
    BY <1>3, WordIn
  <2>2. hex[3] \in Nat
    BY <1>3, ByteIs
  <2> QED BY ONLY <2>1, <2>2 DEF len
<1>5. data \in Seq(Byte) /\ Len(data) = Len(hex) - 5
  <2> DEFINE n == Len(hex)
  <2>1. n \in Nat /\ n >= 5
    BY <1>2
  <2>2. \A i \in 6 .. n : hex[i] \in Byte
    BY <1>2
  <2>3. Len(data) = IF 6 <= n THEN n - 6 + 1 ELSE 0
    BY <1>2
  <2>4. data \in Seq(Byte)
    BY <1>2
  <2> HIDE DEF data
  <2> HIDE DEF n, data
  <2>5. Len(data) = n - 5
    <3> DEFINE l == Len(data)
    <3> HIDE DEF l
    <3>1. l = IF 6 <= n THEN n - 6 + 1 ELSE 0
      BY <2>3 DEF l
    <3>2. l = n - 5
      BY ONLY <2>1, <3>1
    <3> QED BY <3>2 DEF l
  <2> QED BY <2>4, <2>5 DEF n, data
<1>6. len <= Len(data)
  <2>1. hex[3] \in Nat
    BY <1>3, ByteIs
  <2>2. Len(hex) \in Nat
    BY <1>2
  <2>3. Len(hex) >= 3 + hex[3] /\ Len(data) = Len(hex) - 5
    BY <1>2, <1>5
  <2> HIDE DEF data
  <2> QED BY ONLY <2>1, <2>2, <2>3 DEF len
<1>7. size \in {1, 2}
  OBVIOUS
<1> HIDE DEF start, size, data, len, plc
<1> QED BY <1>1, <1>4, <1>5, <1>6, <1>7, RegistersTyped

LEMMA NonWeatherLeaves ==
  ASSUME NEW lorasn \in Words, NEW ascii, Reply(ascii), NEW heap, Unhurt(heap)
  PROVE  PrintedSo(lorasn, ReplyMembers(ascii), ascii2hex(ascii)[1], heap)
BY ReplyMembersTyped, ReportLeaves

\* The frame of the lines for test is one.
LEMMA TestReply == TestNode \in Words /\ Reply(TestFrame)
<1> DEFINE f == <<1, 3, 4, 0, 7, 88, 1, 255, 255>>
<1>1. f \in Seq(Byte) /\ Len(f) = 9 /\ f[3] = 4
  BY DEF Byte
<1>4. TestFrame = hex2ascii(f) /\ TestNode \in Words
  BY WordsAre DEF TestFrame, TestNode
<1> HIDE DEF f
<1>2. ascii2hex(hex2ascii(f)) = f
  BY <1>1, HexTyped
<1>3. Reply(hex2ascii(f))
  <2>1. Len(f) >= 5 /\ Len(f) >= 3 + f[3] /\ f \in Seq(Byte)
    BY ONLY <1>1
  <2> QED BY ONLY <1>2, <2>1 DEF Reply
<1> QED BY <1>3, <1>4

-----------------------------------------------------------------------------
(* What the heap looks like between the operations.                        *)

\* Nothing is left behind but at most one block that nobody frees, unless an allocation failed.
Clean(rest, failing) ==
  /\ rest.strays = {} /\ ~ rest.wild
  /\ ~ failing => rest.lost <= 1

LEMMA ClearedClean ==
  ASSUME NEW heap, NEW k \in Nat, Cleared(heap, k, {}), Leaves(heap, k), failed \in BOOLEAN
  PROVE  failed' \in BOOLEAN /\ Clean(left', failed') /\ left'.over = FALSE
<1>1. /\ heap.wild = FALSE /\ heap.over = FALSE /\ heap.live \subseteq heap.lost
      /\ k = 0 => heap.lost = {} \/ \E x : heap.lost = {x}
  BY DEF Cleared, Sane
<1>2. failed' = (failed \/ k # 0) /\ left' = Left(heap)
  BY DEF Leaves
<1>3. /\ left'.strays = heap.live \ heap.lost /\ left'.lost = Cardinality(heap.lost)
      /\ left'.wild = heap.wild /\ left'.over = heap.over
  BY <1>2 DEF Left
<1>4. k = 0 => Cardinality(heap.lost) <= 1
  <2>1. CASE heap.lost = {}
    BY <2>1, FS_EmptySet
  <2>2. ASSUME NEW x, heap.lost = {x} PROVE Cardinality(heap.lost) <= 1
    <3>1. Cardinality({x}) = 1
      BY FS_Singleton
    <3> QED BY <2>2, <3>1
  <2> QED BY <1>1, <2>1, <2>2
<1>5. ~ failed' => k = 0
  BY <1>2
<1> QED BY <1>1, <1>2, <1>3, <1>4, <1>5 DEF Clean

\* An item is deleted with everything below it.
LEMMA DeleteClears ==
  ASSUME NEW heap, NEW k, NEW items, Cleared(heap, k, Blocks(items))
  PROVE  Cleared(cJSON_Delete(heap, items), k, {})
<1> DEFINE h == cJSON_Delete(heap, items)
<1>1. /\ Sane(heap) /\ heap.fails = k /\ heap.over = FALSE
      /\ Blocks(items) \subseteq heap.live /\ heap.live \subseteq Blocks(items) \cup heap.lost
      /\ k = 0 => heap.lost = {} \/ \E x : heap.lost = {x}
  BY DEF Cleared
<1>2. /\ Sane(h) /\ h.live = heap.live \ Blocks(items)
      /\ h.lost = heap.lost /\ h.fails = heap.fails /\ h.over = heap.over
  BY <1>1, Deallocated DEF cJSON_Delete
<1> HIDE DEF h
<1>3. Cleared(h, k, {})
  BY <1>1, <1>2 DEF Cleared
<1> QED BY <1>3 DEF h

\* What cJSON_Parse leaves belongs to its items.
LEMMA ParsedClears ==
  ASSUME NEW k \in Nat, NEW text \in Seq(Tokens), NEW r, r = cJSON_Parse(Heap(k), text)
  PROVE  /\ Cleared(r.heap, k, Blocks(r.items)) /\ Unhurt(r.heap) /\ r.heap.fails = k
         /\ r.heap.live = Blocks(r.items) /\ r.items \in Seq(Items)
<1>1. /\ Sane(r.heap) /\ r.heap.live = Blocks(r.items) /\ r.heap.lost = {}
      /\ r.heap.fails = k /\ r.heap.over = FALSE /\ r.items \in Seq(Items)
  BY ParseOwns, ZenonT(60)
<1> QED BY <1>1 DEF Cleared, Unhurt

-----------------------------------------------------------------------------
(* A message from the LoRaWAN server.                                      *)

LEMMA PublishingClean ==
  ASSUME NEW root, NEW report, NEW k \in Nat, Publishes(root, report, k), failed \in BOOLEAN,
         report.how # "dies" => Cleared(report.heap, k, Blocks(root.items)), report.heap.over = FALSE
  PROVE  /\ at' \in {"idle", "dead"} /\ failed' \in BOOLEAN /\ left'.over = FALSE
         /\ at' # "dead" => Clean(left', failed')
         /\ at' = "dead" => report.how = "dies" /\ (k # 0 => failed')
<1>1. CASE report.how = "dies"
  <2>1. at' = "dead" /\ Leaves(report.heap, k)
    BY <1>1 DEF Publishes
  <2>2. failed' = (failed \/ k # 0) /\ left' = Left(report.heap)
    BY <2>1 DEF Leaves
  <2>3. left'.over = FALSE
    BY <2>2 DEF Left
  <2> QED BY <1>1, <2>1, <2>2, <2>3
<1>2. CASE report.how # "dies"
  <2> DEFINE h == cJSON_Delete(report.heap, root.items)
  <2>1. at' = "idle" /\ Leaves(h, k)
    BY <1>2 DEF Publishes
  <2>2. Cleared(h, k, {})
    BY <1>2, DeleteClears
  <2> HIDE DEF h
  <2>3. failed' \in BOOLEAN /\ Clean(left', failed') /\ left'.over = FALSE
    BY <2>1, <2>2, ClearedClean
  <2> QED BY <2>1, <2>3
<1> QED BY <1>1, <1>2

\* The value of an item that has been read.
LEMMA ReadValue ==
  ASSUME NEW i \in ReadItems
  PROVE  /\ i.valuestring.s \in Words /\ TokenOf(i).s \in {i.valuestring.s, ""}
         /\ i.valuestring.s # "" => TokenOf(i).s = i.valuestring.s
         /\ TokenOf(i).t = "string" => TokenOf(i).n = i.valuestring.n /\ i.type = "string"
<1>1. i \in Items /\ (i.type # "string" => i.valuestring = NoText)
  BY DEF ReadItems
<1>2. i.valuestring.s \in Words
  BY <1>1 DEF Items, TextBlocks
<1>3. CASE i.type = "string"
  <2>1. TokenOf(i) = StringToken(i.valuestring)
    BY <1>3 DEF TokenOf
  <2> QED BY <1>2, <1>3, <2>1 DEF StringToken
<1>4. CASE i.type # "string"
  <2>1. i.valuestring.s = ""
    <3>1. NoText.s = ""
      BY DEF NoText
    <3> QED BY <1>1, <1>4, <3>1
  <2>2. (TokenOf(i) = Num(i.valuedouble[1]) /\ i.type = "number") \/ TokenOf(i) = Punct(i.type)
    BY <1>4 DEF TokenOf
  <2>3. TokenOf(i).s = "" /\ TokenOf(i).t = i.type
    <3>1. Num(i.valuedouble[1]).s = "" /\ Num(i.valuedouble[1]).t = "number"
      BY DEF Num
    <3>2. Punct(i.type).s = "" /\ Punct(i.type).t = i.type
      BY DEF Punct
    <3> QED BY <2>2, <3>1, <3>2
  <2> QED BY <1>2, <1>4, <2>1, <2>3
<1> QED BY <1>3, <1>4

\* The item that is found by a name has a value that the text gives to it.
LEMMA FoundIs ==
  ASSUME NEW k \in Nat, NEW text \in Seq(Tokens), NEW name,
         NEW root, root = cJSON_Parse(Heap(k), text),
         NEW x, x = cJSON_GetObjectItem(root.items, name), x # <<>>
  PROVE  \E v \in Values(text, name) :
           v.t = "string" => IsString(x[1]) /\ x[1].valuestring.s = v.s /\ x[1].valuestring.n = v.n
<1>1. x[1] \in ReadItems /\ TokenOf(x[1]) \in Values(text, name)
  BY FoundValue
<1> DEFINE d == x[1]
           v == TokenOf(d)
<1> HIDE DEF d
<1>2. d \in ReadItems /\ v \in Values(text, name)
  BY <1>1 DEF d
<1>3. ASSUME v.t = "string" PROVE IsString(d) /\ d.valuestring.s = v.s /\ d.valuestring.n = v.n
  <2>1. d.type = "string"
    BY <1>2, <1>3, ReadValue
  <2>2. v = StringToken(d.valuestring)
    BY <2>1 DEF TokenOf
  <2> QED BY <2>1, <2>2 DEF StringToken, IsString
<1> HIDE DEF v
<1> QED BY <1>2, <1>3 DEF d

\* In a sturdy text what is found is a string with room.
LEMMA SturdyFound ==
  ASSUME NEW k \in Nat, NEW text \in Seq(Tokens), Sturdy(text), NEW root, root = cJSON_Parse(Heap(k), text),
         NEW devaddr, devaddr = cJSON_GetObjectItem(root.items, "devaddr"), devaddr # <<>>,
         NEW data, data = cJSON_GetObjectItem(root.items, "data"), data # <<>>
  PROVE  IsString(devaddr[1]) /\ IsString(data[1]) /\ HasRoom(devaddr[1], data[1])
<1>1. PICK v \in Values(text, "devaddr") :
        v.t = "string" => IsString(devaddr[1]) /\ devaddr[1].valuestring.s = v.s
  <2>0. PICK name : name = "devaddr"
    OBVIOUS
  <2>1. devaddr = cJSON_GetObjectItem(root.items, name)
    BY <2>0
  <2>2. PICK v \in Values(text, name) : v.t = "string" => IsString(devaddr[1]) /\ devaddr[1].valuestring.s = v.s
    BY <2>1, FoundIs
  <2> QED BY <2>0, <2>2
<1>2. PICK w \in Values(text, "data") :
        w.t = "string" => IsString(data[1]) /\ data[1].valuestring.n = w.n
  <2>0. PICK name : name = "data"
    OBVIOUS
  <2>1. data = cJSON_GetObjectItem(root.items, name)
    BY <2>0
  <2>2. PICK w \in Values(text, name) : w.t = "string" => IsString(data[1]) /\ data[1].valuestring.n = w.n
    BY <2>1, FoundIs
  <2> QED BY <2>0, <2>2
<1>3. v.t = "string" /\ v.s \in {LoraNode, Station} /\ w.t = "string" /\ Len(w.n) >= Len(TestFrame)
  BY DEF Sturdy
<1> QED BY <1>1, <1>2, <1>3 DEF HasRoom

-----------------------------------------------------------------------------
(* The inductive invariant.                                                *)

\* What must be known of the rest to know what is left of the heap.
RoundTrip ==
  /\ at \in {"idle", "down", "up", "dead"} /\ (at = "up" => received \in Seq(Tokens))
  /\ lora \in Words /\ list \in Seq(Name \X Int)
  /\ RegTyped(reg) /\ SentText(sent)
  /\ failed \in BOOLEAN /\ Survives

HeapInv == left.over = FALSE /\ (at # "dead" => Clean(left, failed))

LEMMA InitInv == Init => RoundTrip /\ HeapInv
<1> SUFFICES ASSUME Init PROVE RoundTrip /\ HeapInv
  OBVIOUS
<1>1. at \in {"idle", "up"} /\ (at = "up" => received \in Seq(Tokens)) /\ Survives
  BY ServerAssumption DEF Init, Survives
<1>2. lora \in Words /\ list \in Seq(Name \X Int)
  <2>1. lora = "" /\ list = <<>>
    BY DEF Init
  <2>2. <<>> \in Seq(Name \X Int)
    OBVIOUS
  <2>3. "" \in Words
    BY WordsAre
  <2> QED BY <2>1, <2>2, <2>3
<1>3. RegTyped(reg)
  <2>1. reg = [n \in Name |-> 0]
    BY DEF Init
  <2>2. 0 \in Word16 /\ 0 \in Byte
    BY DEF Word16, Byte
  <2> QED BY <2>1, <2>2 DEF RegTyped
<1>4. SentText(sent)
  BY DEF Init, SentText
<1>5. failed = FALSE /\ HeapInv
  <2> DEFINE h == Heap(0)
  <2>1. h.live = {} /\ h.lost = {} /\ h.wild = FALSE /\ h.over = FALSE
    BY DEF Heap
  <2>2. failed = FALSE /\ left = Left(h)
    BY DEF Init
  <2> HIDE DEF h
  <2>3. left.strays = {} /\ left.lost = 0 /\ left.wild = FALSE /\ left.over = FALSE
    BY <2>1, <2>2, FS_EmptySet DEF Left
  <2> QED BY <2>2, <2>3 DEF HeapInv, Clean
<1> QED BY <1>1, <1>2, <1>3, <1>4, <1>5 DEF RoundTrip

\* The text for test decoded.
LEMMA DecodedLeaves ==
  ASSUME NEW heap, Unhurt(heap), NEW report \in Decoded(heap)
  PROVE  /\ report.heap.over = FALSE /\ (report.how # "dies" => Cleared(report.heap, heap.fails, heap.live))
         /\ heap.fails = 0 => report.how # "dies"
<1>1. CASE TestNode = Station
  <2>1. report.heap = heap /\ report.how = "text"
    BY <1>1 DEF Decoded
  <2>2. Cleared(heap, heap.fails, heap.live)
    BY DEF Unhurt, Cleared
  <2> QED BY <2>1, <2>2 DEF Unhurt
<1>2. CASE TestNode # Station
  <2> DEFINE sn == TestNode
             ascii == TestFrame
             members == ReplyMembers(ascii)
             plc == ascii2hex(ascii)[1]
  <2>1. report = NonWeather(sn, ascii, heap)
    BY <1>2 DEF Decoded
  <2>2. sn \in Words /\ Reply(ascii)
    BY TestReply
  <2> HIDE DEF sn, ascii
  <2>3. PrintedSo(sn, members, plc, heap)
    BY <2>2, NonWeatherLeaves
  <2>4. report = ReportPrinted(sn, members, plc, heap)
    BY <2>1, NonWeatherIs
  <2> HIDE DEF members, plc
  <2> QED BY <2>3, <2>4 DEF PrintedSo, ReportGives
<1> QED BY <1>1, <1>2

LEMMA ReceiveStep ==
  ASSUME RoundTrip, NEW k \in Nat, ws_receive_msg(k)
  PROVE  /\ at' \in {"idle", "dead"} /\ failed' \in BOOLEAN /\ left'.over = FALSE
         /\ at' # "dead" => Clean(left', failed')
         /\ at' = "dead" => failed' \/ spoilt'
<1> DEFINE root == cJSON_Parse(Heap(k), received)
           devaddr == cJSON_GetObjectItem(root.items, "devaddr")
           data == cJSON_GetObjectItem(root.items, "data")
           nothing == [how |-> "none", text |-> <<>>, heap |-> root.heap]
           killed == [how |-> "dies", text |-> <<>>, heap |-> root.heap]
           fit == IsString(devaddr[1]) /\ IsString(data[1]) /\ HasRoom(devaddr[1], data[1])
<1>1. received \in Seq(Tokens) /\ failed \in BOOLEAN /\ spoilt' = (spoilt \/ ~ Sturdy(received))
  BY DEF ws_receive_msg, RoundTrip
<1>2. \/ Publishes(root, nothing, k)
      \/ \E report \in Decoded(root.heap) : Publishes(root, report, k)
      \/ devaddr # <<>> /\ data # <<>> /\ ~ fit /\ Publishes(root, killed, k)
  <2>1. Handles(root, devaddr, data, k)
    BY DEF ws_receive_msg
  <2> HIDE DEF root, devaddr, data
  <2> QED BY <2>1 DEF Handles
<1>3. Cleared(root.heap, k, Blocks(root.items)) /\ Unhurt(root.heap) /\ root.heap.fails = k /\ root.heap.live = Blocks(root.items)
  BY <1>1, ParsedClears
<1>a. root.heap.over = FALSE
  BY <1>3 DEF Unhurt
<1>b. devaddr # <<>> /\ data # <<>> /\ Sturdy(received) => fit
  BY <1>1, SturdyFound
<1> HIDE DEF root, devaddr, data, fit
<1>4. CASE Publishes(root, nothing, k)
  <2>1. nothing.heap = root.heap /\ nothing.how = "none"
    OBVIOUS
  <2> HIDE DEF nothing
  <2> QED BY <1>1, <1>3, <1>4, <1>a, <2>1, PublishingClean
<1>5. ASSUME NEW report \in Decoded(root.heap), Publishes(root, report, k)
      PROVE  /\ at' \in {"idle", "dead"} /\ failed' \in BOOLEAN /\ left'.over = FALSE
             /\ at' # "dead" => Clean(left', failed')
             /\ at' = "dead" => failed' \/ spoilt'
  <2>1. /\ report.heap.over = FALSE /\ (report.how # "dies" => Cleared(report.heap, k, Blocks(root.items)))
        /\ k = 0 => report.how # "dies"
    BY <1>3, DecodedLeaves
  <2> QED BY <1>1, <1>5, <2>1, PublishingClean
<1>6. CASE devaddr # <<>> /\ data # <<>> /\ ~ fit /\ Publishes(root, killed, k)
  <2>1. killed.heap = root.heap /\ killed.how = "dies"
    OBVIOUS
  <2> HIDE DEF killed
  <2>2. spoilt'
    BY <1>1, <1>6, <1>b
  <2> QED BY <1>1, <1>3, <1>6, <1>a, <2>1, <2>2, PublishingClean
<1> QED BY <1>2, <1>4, <1>5, <1>6

\* What every step leaves.
After ==
  /\ failed' \in BOOLEAN /\ left'.over = FALSE
  /\ at' # "dead" => Clean(left', failed')
  /\ at' = "dead" => failed' \/ spoilt'

LEMMA SendsStep ==
  ASSUME SentText(sent), failed \in BOOLEAN, NEW k \in Nat, NEW lorasn \in Words, NEW bytes \in Seq(Byte),
         lorasn = LoraNode => Len(bytes) = 8 /\ ForPlc(bytes), Sends(lorasn, bytes, k)
  PROVE  at' \in {"down", "dead"} /\ SentText(sent') /\ After /\ UNCHANGED <<reg, received, lora>>
<1> DEFINE ascii == hex2ascii(bytes)
           json == construct_json_text2lora(ascii, lorasn, Heap(k))
<1>1. /\ at' = IF json.how = "dies" THEN "dead" ELSE "down"
      /\ sent' \in CASE json.how = "text" -> {json.text}
                     [] json.how = "none" -> {<<>>, sent}
                     [] json.how = "dies" -> {sent}
      /\ Leaves(json.heap, k)
      /\ UNCHANGED <<reg, received, lora>>
  BY DEF Sends
<1>2. ascii \in Seq(Int)
  BY HexTyped
<1>3. /\ json.how \in {"none", "text", "dies"} /\ json.heap.over = FALSE
      /\ json.how # "dies" => Cleared(json.heap, k, {})
      /\ json.how = "text" => json.text \in Seq(Tokens) /\ SaysSome(NoBlanks(json.text), SentSayings(ascii, lorasn))
      /\ k = 0 => json.how = "text"
  <2> HIDE DEF ascii
  <2> QED BY <1>2, ConstructLeaves
<1> HIDE DEF json
<1>4. SentText(sent')
  <2>1. CASE json.how = "text"
    <3>1. sent' = json.text
      BY <1>1, <2>1
    <3> QED BY <1>3, <2>1, <3>1 DEF SentText
  <2>2. CASE json.how = "none"
    <3>1. sent' = <<>> \/ sent' = sent
      BY <1>1, <2>2
    <3>2. CASE sent' = <<>>
      BY <3>2 DEF SentText
    <3>3. CASE sent' = sent
      BY <3>3
    <3> QED BY <3>1, <3>2, <3>3
  <2>3. CASE json.how = "dies"
    <3>1. sent' = sent
      BY <1>1, <2>3
    <3> QED BY <3>1
  <2> QED BY <1>3, <2>1, <2>2, <2>3
<1>5. After
  <2>1. CASE json.how = "dies"
    <3>1. at' = "dead" /\ failed' = (failed \/ k # 0) /\ left' = Left(json.heap)
      BY <1>1, <2>1 DEF Leaves
    <3>2. failed' = TRUE
      BY <1>3, <2>1, <3>1
    <3> QED BY <1>3, <3>1, <3>2 DEF After, Left
  <2>2. CASE json.how # "dies"
    <3> DEFINE h == json.heap
    <3>1. Cleared(h, k, {}) /\ Leaves(h, k)
      BY <1>1, <1>3, <2>2
    <3>2. at' = "down"
      BY <1>1, <2>2
    <3> HIDE DEF h
    <3> QED BY <3>1, <3>2, ClearedClean DEF After
  <2> QED BY <2>1, <2>2
<1> QED BY <1>1, <1>4, <1>5

LEMMA FailureTyped == ASSUME NEW k \in Failure PROVE k \in Nat
<1>1. MaxAllocations \in Nat
  BY ReportsAssumption
<1> QED BY <1>1, SMTT(30) DEF Failure

\* A serial number that is no string stands in the text.
LEMMA CopyFound ==
  ASSUME NEW k \in Nat, NEW text \in Seq(Tokens), NEW root, root = cJSON_Parse(Heap(k), text),
         NEW params, params = cJSON_GetObjectItem(root.items, "params"), CopiesNothing(params)
  PROVE  \E v \in Values(text, "loraNodeSerialNo") : v.t # "string"
<1>1. PICK j \in Children(params) :
        params[j].string.at # 0 /\ params[j].string.s = "loraNodeSerialNo" /\ params[j].type # "string"
  BY DEF CopiesNothing
<1>2. j \in 1 .. Len(params)
  BY DEF Children
<1>3. params # <<>>
  BY <1>2
<1>4. params[j] \in ReadItems /\ TokenOf(params[j]) \in Values(text, params[j].string.s)
  <2>0. PICK name : name = "params"
    OBVIOUS
  <2>1. params = cJSON_GetObjectItem(root.items, name)
    BY <2>0
  <2>2. \A i \in 1 .. Len(params) : params[i].string.at # 0 =>
          params[i] \in ReadItems /\ TokenOf(params[i]) \in Values(text, params[i].string.s)
    BY <1>3, <2>1, FoundValue
  <2> QED BY <1>1, <1>2, <2>2
<1>5. TokenOf(params[j]).t # "string"
  <2> DEFINE d == params[j]
  <2>1. d \in ReadItems /\ d.type # "string"
    BY <1>1, <1>4
  <2> HIDE DEF d
  <2>2. TokenOf(d).t # "string"
    BY <2>1, ReadValue
  <2> QED BY <2>2 DEF d
<1> QED BY <1>1, <1>4, <1>5

LEMMA HubStep ==
  ASSUME RoundTrip, NEW msg \in HubMessage, NEW k \in Nat, process_single_iot_hub_msg(msg, k)
  PROVE  RoundTrip' /\ HeapInv'
<1> DEFINE root == cJSON_Parse(Heap(k), msg.text)
           params == cJSON_GetObjectItem(root.items, "params")
           r == ListOf(params)
           h == cJSON_Delete(root.heap, root.items)
           copied == \E v \in Values(msg.text, "loraNodeSerialNo") : v.t # "string"
<1>1. /\ lora' = r.lora /\ list' = r.list /\ Leaves(h, k)
      /\ at = "idle" /\ at' = IF CopiesNothing(params) THEN "dead" ELSE at
      /\ spoilt' = (spoilt \/ copied)
      /\ UNCHANGED <<reg, sent, received>>
  BY DEF process_single_iot_hub_msg
<1>2. r \in Orders
  BY OrdersTyped
<1>3. msg.text \in Seq(Tokens)
  BY HubAssumption
<1>4. Cleared(root.heap, k, Blocks(root.items))
  BY <1>3, ParsedClears
<1>a. CopiesNothing(params) => copied
  BY <1>3, CopyFound
<1> HIDE DEF root, params, copied
<1>5. Cleared(h, k, {})
  BY <1>4, DeleteClears
<1> HIDE DEF r, h
<1>6. failed' \in BOOLEAN /\ Clean(left', failed') /\ left'.over = FALSE
  BY <1>1, <1>5, ClearedClean DEF RoundTrip
<1>7. lora' \in Words /\ list' \in Seq(Name \X Int)
  BY <1>1, <1>2 DEF Orders
<1>8. RegTyped(reg)' /\ SentText(sent)'
  <2>1. reg' = reg /\ sent' = sent
    BY <1>1
  <2> QED BY <2>1 DEF RoundTrip
<1>9. at' \in {"idle", "dead"} /\ Survives'
  <2>1. CASE CopiesNothing(params)
    <3>1. at' = "dead" /\ spoilt'
      BY <1>1, <1>a, <2>1
    <3> QED BY <3>1 DEF Survives
  <2>2. CASE ~ CopiesNothing(params)
    <3>1. at' = "idle"
      BY <1>1, <2>2
    <3> QED BY <3>1 DEF Survives
  <2> QED BY <2>1, <2>2
<1> QED BY <1>6, <1>7, <1>8, <1>9 DEF RoundTrip, HeapInv

\* A step that sends and leaves the rest as it is.
LEMMA SendingStep ==
  ASSUME RoundTrip, at' \in {"down", "dead"}, SentText(sent'), After, UNCHANGED <<reg, received, lora>>,
         list' \in Seq(Name \X Int)
  PROVE  RoundTrip' /\ HeapInv'
<1>1. RegTyped(reg)' /\ lora' \in Words
  <2>1. reg' = reg /\ lora' = lora
    OBVIOUS
  <2> QED BY <2>1 DEF RoundTrip
<1> QED BY <1>1 DEF RoundTrip, HeapInv, After, Survives

LEMMA CommandStep ==
  ASSUME RoundTrip, NEW k \in Nat, run_command_on_lora_node(k)
  PROVE  RoundTrip' /\ HeapInv'
<1> DEFINE p == Head(list)
           plc == Switch[p[1]].plc
           channel == Switch[p[1]].channel
           value == p[2]
           bytes == WriteFrame(plc, channel, value)
<1>1. list # <<>> /\ list' = Tail(list) /\ Sends(lora, bytes, k)
  BY DEF run_command_on_lora_node
<1>2. list \in Seq(Name \X Int) /\ lora \in Words /\ SentText(sent) /\ failed \in BOOLEAN
  BY DEF RoundTrip
<1>3. p[1] \in Name /\ value \in Int /\ list' \in Seq(Name \X Int)
  BY <1>1, <1>2
<1> HIDE DEF p
<1>4. plc \in Byte /\ channel \in Word16
  BY <1>3, SwitchAssumption
<1> HIDE DEF plc, channel, value
<1>5. bytes \in Seq(Byte) /\ Len(bytes) = 8 /\ bytes[2] = FC_WRITE
  <2>1. bytes = WriteFrame(plc, channel, value)
    OBVIOUS
  <2> HIDE DEF bytes
  <2> QED BY ONLY <1>3, <1>4, <2>1, WriteFrameIs
<1> HIDE DEF bytes
<1>6. ForPlc(bytes)
  <2>1. FC_WRITE # FC_READ
    BY DEF FC_WRITE, FC_READ
  <2> QED BY <1>5, <2>1 DEF ForPlc
<1>7. at' \in {"down", "dead"} /\ SentText(sent') /\ After /\ UNCHANGED <<reg, received, lora>>
  BY <1>1, <1>2, <1>5, <1>6, SendsStep
<1> QED BY <1>3, <1>7, SendingStep

LEMMA QueryStep ==
  ASSUME RoundTrip, NEW n \in Name, NEW num_reg \in 1 .. MaxRead, NEW k \in Nat,
         run_single_switch_query_command(Switch[n].plc, Switch[n].size, Switch[n].reg, num_reg, k)
  PROVE  RoundTrip' /\ HeapInv'
<1> DEFINE plc == Switch[n].plc
           size == Switch[n].size
           start == Switch[n].reg
           asked == {o \in Name : /\ Switch[o].plc = plc /\ Switch[o].size = size
                                  /\ Switch[o].reg \in start .. start + num_reg - 1}
           bytes == ReadFrame(plc, start, num_reg)
<1>1. Cardinality(asked) = num_reg /\ Sends(LoraNode, bytes, k) /\ list' = list
  BY DEF run_single_switch_query_command
<1>2. list \in Seq(Name \X Int) /\ SentText(sent) /\ failed \in BOOLEAN
  BY DEF RoundTrip
<1>3. plc \in Byte /\ size \in {1, 2} /\ start \in Word16
  BY SwitchAssumption, SMTT(30)
<1>4. MaxRead \in 1 .. 125
  BY ReportsAssumption
<1>5. num_reg \in Word16 /\ num_reg \in Nat
  BY <1>4 DEF Word16
<1>6. start \in Nat
  BY <1>3 DEF Word16
<1> HIDE DEF plc, size, start
<1>7. AllNamed(plc, start, num_reg, size)
  BY <1>1, <1>5, <1>6, AllAsked
<1> HIDE DEF asked
<1>8. /\ bytes \in Seq(Byte) /\ Len(bytes) = 8 /\ bytes[1] = plc /\ bytes[2] = FC_READ
      /\ bytes[3] * 256 + bytes[4] = start /\ bytes[5] * 256 + bytes[6] = num_reg
  BY <1>3, <1>5, ReadFrameIs
<1> HIDE DEF bytes
<1>9. ForPlc(bytes)
  BY <1>3, <1>7, <1>8 DEF ForPlc
<1>10. at' \in {"down", "dead"} /\ SentText(sent') /\ After /\ UNCHANGED <<reg, received, lora>>
  BY <1>1, <1>2, <1>8, <1>9, WordsAre, SendsStep
<1> QED BY <1>1, <1>2, <1>10, SendingStep

LEMMA WeatherStep ==
  ASSUME RoundTrip, NEW reading \in Reading, NEW k \in Nat, send_weather_info_request(reading[1], k)
  PROVE  RoundTrip' /\ HeapInv'
<1> DEFINE plc == reading[1]
           bytes == ReadFrame(plc, 0, 2)
<1>1. Sends(Station, bytes, k) /\ list' = list
  BY DEF send_weather_info_request
<1>2. list \in Seq(Name \X Int) /\ SentText(sent) /\ failed \in BOOLEAN
  BY SMTT(30) DEF RoundTrip
<1>3. plc \in Byte
  BY ReportsAssumption
<1>4. 0 \in Word16 /\ 2 \in Word16
  BY DEF Word16
<1> HIDE DEF plc
<1>5. bytes \in Seq(Byte)
  BY <1>3, <1>4, ReadFrameIs
<1> HIDE DEF bytes
<1>6. at' \in {"down", "dead"} /\ SentText(sent') /\ After /\ UNCHANGED <<reg, received, lora>>
  BY <1>1, <1>2, <1>5, WordsAre, SendsStep
<1> QED BY <1>1, <1>2, <1>6, SendingStep

LEMMA IgnoredStep ==
  ASSUME RoundTrip, HeapInv, Ignored
  PROVE  RoundTrip' /\ HeapInv'
<1>1. at = "down" /\ at' = "idle" /\ UNCHANGED <<reg, sent, received, lora, list, failed, left>>
  BY DEF Ignored
<1>2. RegTyped(reg)' /\ SentText(sent)' /\ lora' \in Words /\ list' \in Seq(Name \X Int) /\ failed' \in BOOLEAN
  BY <1>1 DEF RoundTrip
<1>3. HeapInv' /\ Survives'
  BY <1>1 DEF HeapInv, Survives
<1> QED BY <1>1, <1>2, <1>3 DEF RoundTrip

\* A reply on its way up.
LEMMA AnsweringStep ==
  ASSUME RoundTrip, HeapInv, at = "down", NEW lorasn \in {LoraNode, Station}, NEW bytes \in Seq(Byte),
         Answers(lorasn, bytes), UNCHANGED <<reg, sent, lora, list, failed, left>>
  PROVE  RoundTrip' /\ HeapInv'
<1>1. at' = "up" /\ received' = Object(<< <<"devaddr", <<Word(lorasn)>>>>, <<"data", <<Frame(hex2ascii(bytes))>>>> >>)
  BY DEF Answers
<1>2. lorasn \in Words
  BY WordsAre
<1>3. received' \in Seq(Tokens)
  BY <1>1, <1>2, AnswerTyped
<1>4. RegTyped(reg)' /\ SentText(sent)' /\ lora' \in Words /\ list' \in Seq(Name \X Int) /\ failed' \in BOOLEAN
  BY DEF RoundTrip
<1>5. HeapInv' /\ Survives'
  BY <1>1 DEF HeapInv, Survives
<1> QED BY <1>1, <1>3, <1>4, <1>5 DEF RoundTrip

LEMMA WordBytes == \A n \in Word16 : n % 256 \in Byte
BY DEF Word16, Byte

LEMMA TwoBytesWord == \A h, l \in Byte : h * 256 + l \in Word16
BY DEF Word16, Byte

LEMMA PlcStep ==
  ASSUME RoundTrip, HeapInv, PlcActs
  PROVE  RoundTrip' /\ HeapInv'
<1> DEFINE frame == Carried
           start == frame[3] * 256 + frame[4]
           last == frame[5] * 256 + frame[6]
           bytes == ReplyFrame(frame[1], start, Held(frame[1], start, last))
           write == /\ frame[2] = FC_WRITE
                    /\ reg' = [n \in Name |-> IF Switch[n].plc = frame[1] /\ Switch[n].channel = start
                                              THEN IF Switch[n].size = 1 THEN last % 256 ELSE last ELSE reg[n]]
                    /\ at' = "idle" /\ UNCHANGED received
           read == frame[2] = FC_READ /\ Answers(LoraNode, bytes) /\ UNCHANGED reg
<1>1. Reaches(LoraNode) /\ (write \/ read) /\ UNCHANGED <<sent, lora, list, failed, left>>
  BY DEF PlcActs
<1>2. SentText(sent) /\ LoraNode \in Words
  BY WordsAre DEF RoundTrip
<1>3. frame \in Seq(Byte) /\ Len(frame) = 8 /\ ForPlc(frame)
  BY <1>1, <1>2, CarriedIs
<1>4. at = "down"
  BY <1>1 DEF Reaches
<1>5. RegTyped(reg)
  BY DEF RoundTrip
<1> HIDE DEF frame
<1>6. CASE write
  <2>1. last \in Word16
    BY <1>3, EightBytes, TwoBytesWord
  <2>2. last % 256 \in Byte
    BY <2>1, WordBytes
  <2>3. \A b \in Byte : b \in Word16
    BY ByteIs
  <2>4. RegTyped(reg')
    <3> DEFINE v(n) == IF Switch[n].plc = frame[1] /\ Switch[n].channel = start
                       THEN IF Switch[n].size = 1 THEN last % 256 ELSE last ELSE reg[n]
    <3>1. ASSUME NEW n \in Name PROVE v(n) \in Word16 /\ (Switch[n].size = 1 => v(n) \in Byte)
      <4> HIDE DEF start, last
      <4> QED BY <1>5, <2>1, <2>2, <2>3 DEF RegTyped
    <3>2. reg' = [n \in Name |-> v(n)]
      BY <1>6
    <3> HIDE DEF v
    <3> QED BY <3>1, <3>2 DEF RegTyped
  <2>5. SentText(sent)' /\ lora' \in Words /\ list' \in Seq(Name \X Int) /\ failed' \in BOOLEAN /\ HeapInv' /\ Survives'
    BY <1>1, <1>4, <1>6 DEF RoundTrip, HeapInv, Survives
  <2>6. at' = "idle"
    BY <1>6
  <2> QED BY <2>4, <2>5, <2>6 DEF RoundTrip
<1>7. CASE read
  <2>1. frame[2] = FC_READ /\ Answers(LoraNode, bytes) /\ UNCHANGED reg
    BY <1>7
  <2>2. bytes \in Seq(Byte)
    BY <1>3, <1>5, <2>1, PlcTyped
  <2> HIDE DEF bytes
  <2> QED BY <1>1, <1>4, <2>1, <2>2, AnsweringStep
<1> QED BY <1>1, <1>6, <1>7

LEMMA StationStep ==
  ASSUME RoundTrip, HeapInv, NEW reading \in Reading, StationAnswers(reading)
  PROVE  RoundTrip' /\ HeapInv'
<1> DEFINE bytes == WeatherFrame(reading)
<1>1. Reaches(Station) /\ Answers(Station, bytes) /\ UNCHANGED <<reg, sent, lora, list, failed, left>>
  BY DEF StationAnswers
<1>2. at = "down"
  BY <1>1 DEF Reaches
<1>3. bytes \in Seq(Byte)
  BY StationTyped
<1> HIDE DEF bytes
<1> QED BY <1>1, <1>2, <1>3, AnsweringStep

LEMMA ServerStep ==
  ASSUME RoundTrip, HeapInv, NEW text \in ServerText, ServerSays(text)
  PROVE  RoundTrip' /\ HeapInv'
<1>1. at = "idle" /\ at' = "up" /\ received' = text /\ UNCHANGED <<reg, sent, lora, list, failed, left>>
  BY DEF ServerSays
<1>2. received' \in Seq(Tokens)
  BY <1>1, ServerAssumption
<1>3. RegTyped(reg)' /\ SentText(sent)' /\ lora' \in Words /\ list' \in Seq(Name \X Int) /\ failed' \in BOOLEAN
  BY <1>1 DEF RoundTrip
<1>4. HeapInv' /\ Survives'
  BY <1>1 DEF HeapInv, Survives
<1> QED BY <1>1, <1>2, <1>3, <1>4 DEF RoundTrip

LEMMA UpStep ==
  ASSUME RoundTrip, NEW k \in Nat, ws_receive_msg(k)
  PROVE  RoundTrip' /\ HeapInv'
<1>1. /\ at' \in {"idle", "dead"} /\ failed' \in BOOLEAN /\ left'.over = FALSE
      /\ at' # "dead" => Clean(left', failed')
      /\ at' = "dead" => failed' \/ spoilt'
  BY ReceiveStep
<1>2. UNCHANGED <<reg, sent, lora, list>>
  BY DEF ws_receive_msg
<1>3. RegTyped(reg)' /\ SentText(sent)' /\ lora' \in Words /\ list' \in Seq(Name \X Int)
  BY <1>2 DEF RoundTrip
<1> QED BY <1>1, <1>3 DEF RoundTrip, HeapInv, Survives

LEMMA StillStep ==
  ASSUME RoundTrip, HeapInv, UNCHANGED vars
  PROVE  RoundTrip' /\ HeapInv'
<1>1. UNCHANGED <<reg, at, sent, received, lora, list, spoilt, failed, left>>
  BY DEF vars
<1>2. RegTyped(reg)' /\ SentText(sent)' /\ Survives'
  BY <1>1 DEF RoundTrip, Survives
<1>3. HeapInv'
  BY <1>1 DEF HeapInv
<1> QED BY <1>1, <1>2, <1>3 DEF RoundTrip

LEMMA NextInv == RoundTrip /\ HeapInv /\ [Next]_vars => RoundTrip' /\ HeapInv'
<1> SUFFICES ASSUME RoundTrip, HeapInv, [Next]_vars PROVE RoundTrip' /\ HeapInv'
  OBVIOUS
<1>1. ASSUME NEW msg \in HubMessage, NEW k \in Failure, process_single_iot_hub_msg(msg, k) PROVE RoundTrip' /\ HeapInv'
  BY <1>1, FailureTyped, HubStep
<1>2. ASSUME NEW k \in Failure, run_command_on_lora_node(k) PROVE RoundTrip' /\ HeapInv'
  BY <1>2, FailureTyped, CommandStep
<1>3. ASSUME NEW k \in Failure, NEW n \in Name, NEW num_reg \in 1 .. MaxRead,
             run_single_switch_query_command(Switch[n].plc, Switch[n].size, Switch[n].reg, num_reg, k)
      PROVE  RoundTrip' /\ HeapInv'
  BY <1>3, FailureTyped, QueryStep
<1>4. ASSUME NEW k \in Failure, NEW reading \in Reading, send_weather_info_request(reading[1], k) PROVE RoundTrip' /\ HeapInv'
  BY <1>4, FailureTyped, WeatherStep
<1>5. ASSUME NEW k \in Failure, ws_receive_msg(k) PROVE RoundTrip' /\ HeapInv'
  BY <1>5, FailureTyped, UpStep
<1>6. CASE PlcActs
  BY <1>6, PlcStep
<1>7. ASSUME NEW reading \in Reading, StationAnswers(reading) PROVE RoundTrip' /\ HeapInv'
  BY <1>7, StationStep
<1>8. CASE Ignored
  BY <1>8, IgnoredStep
<1>9. ASSUME NEW text \in ServerText, ServerSays(text) PROVE RoundTrip' /\ HeapInv'
  BY <1>9, ServerStep
<1>10. CASE Dead
  BY <1>10, StillStep DEF Dead
<1>11. CASE UNCHANGED vars
  BY <1>11, StillStep
<1> QED BY <1>1, <1>2, <1>3, <1>4, <1>5, <1>6, <1>7, <1>8, <1>9, <1>10, <1>11 DEF Next

\* mqtt.c:512, statusquery.c:126 and wsclient.c:159: whatever the hub and the LoRaWAN
\* server send and whichever allocation fails, the text sent last says a frame that its
\* PLC can act on, registers hold no more than they have bytes for, the process is dead
\* only where an allocation failed or a text was no string, and the heap is clean.
THEOREM Invariance == Spec => [](RoundTrip /\ HeapInv)
<1> QED BY InitInv, NextInv, PTL DEF Spec

\* cJSON.h:146, "the caller is always responsible to free the results": over any sequence of
\* operations, with an allocation failing anywhere, what parsing, building, printing and
\* deleting allocate is freed again, and no block twice, but for the printed texts and the
\* members that could not be attached.
THEOREM HeapKept == Spec => []NothingElseLeaks
<1>1. HeapInv => NothingElseLeaks
  BY DEF HeapInv, Clean, NothingElseLeaks
<1> QED BY <1>1, Invariance, PTL

\* mqtt.c:199-200 and wsclient.c:171-197: as long as no allocation fails, the only texts
\* of the hub or the LoRaWAN server that the process dies of are those whose serial number,
\* address or data is no string, or a string without the room for the lines for test.
THEOREM OnlySpoilt == Spec => []Survives
<1>1. RoundTrip => Survives
  BY DEF RoundTrip
<1> QED BY <1>1, Invariance, PTL

-----------------------------------------------------------------------------
(* What is printed can be read.                                            *)

\* A value has been read that began in this state.
Past(s, r) == r.open = s.open /\ r.want = IF s.open = <<>> THEN "done" ELSE "next"

\* A text that is a value wherever so many lists are open.
ReadAnywhere(v, d) == \A s : OnItsWay(s, 0) /\ s.want = "value" /\ Len(s.open) = d => Past(s, Run(s, v))
Readable(v, d) == v \in Seq(Solid) /\ ReadAnywhere(v, d)

LEMMA OpeningKinds ==
  /\ \A t \in Opening : t # "string" /\ t # "number"
  /\ \A t \in {"string", "number"} : t \in Begins /\ ~ (t \in Opening)
  /\ "object" \in Begins /\ "object" \in Opening /\ ~ ("object" \in Scalar \cup {"string"})
  /\ Closing["object"] = "endobject"
BY DEF Opening, Begins, Scalar, Closing

LEMMA GoesBetween == ASSUME NEW s, OnItsWay(s, 0) PROVE Between(s) /\ s.heap.fails = 0 /\ s.open \in Seq(Opening) /\ s \in States
<1>1. Between(s) /\ s.heap.fails = 0
  BY DEF OnItsWay
<1>2. s \in States
  BY <1>1 DEF Between, Owning
<1> QED BY <1>1, <1>2 DEF States

LEMMA ReadGoes == ASSUME NEW s, OnItsWay(s, 0), NEW t \in Tokens PROVE OnItsWay(Read(s, t), 0)
<1>1. <<t>> \in Seq(Tokens)
  OBVIOUS
<1>2. OnItsWay(Run(s, <<t>>), 0) /\ Run(s, <<t>>) = Read(s, t)
  BY <1>1, RunGoes, RunOne
<1> QED BY <1>2

\* What a token makes of a state, without a failure.
LEMMA ReadsOn ==
  ASSUME NEW s, OnItsWay(s, 0), s.want \notin {"done", "error"}, NEW t \in Solid
  PROVE  Reads(s, t, Read(s, t)) /\ OnItsWay(Read(s, t), 0) /\ s.heap.fails = 0
<1>1. t \in Tokens /\ t # Blank
  BY DEF Solid
<1> QED BY <1>1, GoesBetween, ReadGoes, ReadForm

LEMMA TokenReadable ==
  ASSUME NEW t \in Tokens, t.t \in {"string", "number"}, NEW d
  PROVE  Readable(<<t>>, d)
<1>1. t \in Solid /\ <<t>> \in Seq(Solid)
  BY ColonAlone
<1>2. ASSUME NEW s, OnItsWay(s, 0), s.want = "value", Len(s.open) = d PROVE Past(s, Run(s, <<t>>))
  <2> DEFINE r == Read(s, t)
  <2>1. Run(s, <<t>>) = r
    BY <1>2, RunOne
  <2>2. Reads(s, t, r) /\ s.heap.fails = 0
    BY <1>1, <1>2, ReadsOn
  <2> HIDE DEF r
  <2>3. Accepts(s, t, r, s.item.string, s.item.level)
    BY <1>2, <2>2 DEF Reads
  <2>4. r.open = s.open /\ r.want = IF s.open = <<>> THEN "done" ELSE "next"
    BY <2>2, <2>3, OpeningKinds DEF Accepts
  <2> QED BY <2>1, <2>4 DEF Past
<1> QED BY <1>1, <1>2 DEF Readable, ReadAnywhere

\* In an object, in front of a member or behind one.
InObject(r, open, n) ==
  OnItsWay(r, 0) /\ r.open = Append(open, "object") /\ r.want = IF n = 0 THEN "first" ELSE "next"

LEMMA LastIs == ASSUME NEW S, NEW open \in Seq(S), NEW x PROVE Last(Append(open, x)) = x /\ Front(Append(open, x)) = open /\ Len(Append(open, x)) = Len(open) + 1
BY DEF Last, Front

LEMMA ObjectOpens ==
  ASSUME NEW s, OnItsWay(s, 0), s.want = "value", Len(s.open) < NestingLimit
  PROVE  InObject(Read(s, Punct("object")), s.open, 0)
<1> DEFINE t == Punct("object")
           r == Read(s, t)
<1>1. t \in Solid /\ t.t = "object"
  <2>1. t \in Tokens
    BY PunctTyped DEF Kind
  <2> QED BY <2>1 DEF Solid, Punct, Blank
<1>2. Reads(s, t, r) /\ OnItsWay(r, 0) /\ s.heap.fails = 0
  BY <1>1, ReadsOn
<1> HIDE DEF t, r
<1>3. Accepts(s, t, r, s.item.string, s.item.level)
  BY <1>2 DEF Reads
<1>4. Len(s.open) \in Nat /\ ~ TooDeep(Len(s.open))
  <2>1. s.open \in Seq(Opening) /\ Len(s.open) \in Nat
    BY GoesBetween
  <2>2. NestingLimit \in Nat
    BY CjsonAssumption
  <2> QED BY <2>1, <2>2 DEF TooDeep
<1>5. r.open = Append(s.open, "object") /\ r.want = "first"
  BY <1>1, <1>2, <1>3, <1>4, OpeningKinds DEF Accepts
<1> QED BY <1>2, <1>5 DEF InObject, r, t

LEMMA CommaReads ==
  ASSUME NEW r, NEW open \in Seq(Opening), NEW n, n # 0, InObject(r, open, n)
  PROVE  LET q == Read(r, Punct("comma"))
         IN OnItsWay(q, 0) /\ q.open = Append(open, "object") /\ q.want = "element"
<1> DEFINE t == Punct("comma")
           q == Read(r, t)
<1>1. t \in Solid /\ t.t = "comma"
  <2>1. t \in Tokens
    BY PunctTyped DEF Kind
  <2> QED BY <2>1 DEF Solid, Punct, Blank
<1>2. OnItsWay(r, 0) /\ r.open = Append(open, "object") /\ r.want = "next"
  BY DEF InObject
<1>3. Reads(r, t, q) /\ OnItsWay(q, 0)
  BY <1>1, <1>2, ReadsOn
<1> HIDE DEF t, q
<1>4. MayContinue(r, t, q)
  BY <1>2, <1>3 DEF Reads
<1>5. Closing[Last(r.open)] = "endobject"
  BY <1>2, LastIs, OpeningKinds
<1>6. q.want = "element" /\ q.open = r.open
  BY <1>1, <1>2, <1>4, <1>5 DEF MayContinue
<1> QED BY <1>2, <1>3, <1>6 DEF q, t

\* A name, in front of which there is nothing or a comma.
LEMMA NameReads ==
  ASSUME NEW r, NEW open \in Seq(Opening), OnItsWay(r, 0), r.open = Append(open, "object"), r.want \in {"first", "element"},
         NEW w \in Words
  PROVE  LET q == Read(r, Word(w))
         IN OnItsWay(q, 0) /\ q.open = Append(open, "object") /\ q.want = "colon"
<1> DEFINE t == Word(w)
           q == Read(r, t)
<1>1. t \in Tokens /\ t.t = "string"
  BY TokensAre
<1>2. t \in Solid
  BY <1>1, ColonAlone
<1>3. Reads(r, t, q) /\ OnItsWay(q, 0) /\ r.heap.fails = 0
  BY <1>2, ReadsOn
<1> HIDE DEF t, q
<1>4. Last(r.open) = "object" /\ Closing[Last(r.open)] = "endobject"
  BY LastIs, OpeningKinds
<1>5. Elements(r, t, q)
  <2>1. CASE r.want = "first"
    <3>1. MayContinue(r, t, q)
      BY <1>3, <2>1 DEF Reads
    <3> QED BY <1>1, <1>4, <2>1, <3>1 DEF MayContinue
  <2>2. CASE r.want = "element"
    BY <1>3, <2>2 DEF Reads
  <2> QED BY <2>1, <2>2
<1>6. Names(r, t, q, Len(r.open))
  BY <1>3, <1>4, <1>5 DEF Elements
<1>7. q.want = "colon" /\ q.open = r.open
  BY <1>1, <1>3, <1>6 DEF Names
<1> QED BY <1>3, <1>7 DEF q, t

LEMMA ColonReads ==
  ASSUME NEW r, OnItsWay(r, 0), r.want = "colon"
  PROVE  LET q == Read(r, Punct("colon")) IN OnItsWay(q, 0) /\ q.open = r.open /\ q.want = "value"
<1> DEFINE t == Punct("colon")
           q == Read(r, t)
<1>1. t \in Solid /\ t.t = "colon"
  BY ColonAlone DEF Colon2
<1>3. Reads(r, t, q) /\ OnItsWay(q, 0)
  BY <1>1, ReadsOn
<1> HIDE DEF t, q
<1>4. Colon(r, t, q)
  BY <1>3 DEF Reads
<1> QED BY <1>1, <1>3, <1>4 DEF Colon, q, t

LEMMA ObjectCloses ==
  ASSUME NEW r, NEW s, s.open \in Seq(Opening), NEW n, InObject(r, s.open, n)
  PROVE  Past(s, Read(r, Punct("endobject")))
<1> DEFINE t == Punct("endobject")
           q == Read(r, t)
<1>1. t \in Solid /\ t.t = "endobject"
  <2>1. t \in Tokens
    BY PunctTyped DEF Kind
  <2> QED BY <2>1 DEF Solid, Punct, Blank
<1>2. OnItsWay(r, 0) /\ r.open = Append(s.open, "object") /\ r.want \in {"first", "next"}
  BY DEF InObject
<1>3. Reads(r, t, q) /\ OnItsWay(q, 0)
  BY <1>1, <1>2, ReadsOn
<1> HIDE DEF t, q
<1>4. MayContinue(r, t, q)
  BY <1>2, <1>3 DEF Reads
<1>5. Closing[Last(r.open)] = "endobject" /\ Front(r.open) = s.open
  BY <1>2, LastIs, OpeningKinds
<1>6. q.open = Front(r.open) /\ q.want = IF Front(r.open) = <<>> THEN "done" ELSE "next"
  BY <1>1, <1>2, <1>4, <1>5 DEF MayContinue
<1> QED BY <1>5, <1>6 DEF Past, q, t

\* A member with what stands in front of it.
LEMMA MemberReads ==
  ASSUME NEW r, NEW open \in Seq(Opening), NEW n, InObject(r, open, n),
         NEW m \in Members, Readable(m[2], Len(open) + 1), NEW first \in BOOLEAN, first <=> n = 0,
         NEW text, text = CommaUnless(first) \o MemberText(m)
  PROVE  InObject(Run(r, text), open, 1)
<1> DEFINE name == Word(m[1])
           colon == Punct("colon")
           v == m[2]
           comma == CommaUnless(first)
           q == Run(r, comma)
           q1 == Read(q, name)
           q2 == Read(q1, colon)
           q3 == Run(q2, v)
<1>1. m[1] \in Words /\ v \in Seq(Tokens) /\ comma \in Seq(Tokens) /\ MemberText(m) \in Seq(Tokens)
  BY MemberTyped, CommaTyped
<1>2. name \in Tokens /\ colon \in Tokens /\ <<name, colon>> \in Seq(Tokens) /\ <<name>> \in Seq(Tokens) /\ <<colon>> \in Seq(Tokens)
  BY <1>1, TokensAre, ColonAlone DEF Colon2
<1>3. OnItsWay(r, 0) /\ r.open = Append(open, "object")
  BY DEF InObject
<1>4. OnItsWay(q, 0) /\ q.open = Append(open, "object") /\ q.want \in {"first", "element"}
  <2>1. CASE n = 0
    <3>1. q = r
      BY <1>3, <2>1, RunNone DEF CommaUnless
    <3> QED BY <1>3, <2>1, <3>1 DEF InObject
  <2>2. CASE n # 0
    <3>1. q = Read(r, Punct("comma"))
      <4>1. comma = <<Punct("comma")>> /\ Punct("comma") \in Tokens
        BY <2>2, PunctTyped DEF CommaUnless, Kind
      <4> HIDE DEF comma
      <4> QED BY <1>3, <4>1, RunOne
    <3> QED BY <2>2, <3>1, CommaReads
  <2> QED BY <2>1, <2>2
<1> HIDE DEF q
<1>5. OnItsWay(q1, 0) /\ q1.open = Append(open, "object") /\ q1.want = "colon"
  BY <1>1, <1>4, NameReads
<1> HIDE DEF q1
<1>6. OnItsWay(q2, 0) /\ q2.open = Append(open, "object") /\ q2.want = "value"
  BY <1>5, ColonReads
<1> HIDE DEF q2
<1>7. Len(q2.open) = Len(open) + 1 /\ q2.open # <<>>
  BY <1>6, LastIs
<1>8. Past(q2, q3)
  BY <1>6, <1>7 DEF Readable, ReadAnywhere
<1>9. OnItsWay(q3, 0)
  BY <1>1, <1>6, RunGoes
<1>10. Run(r, text) = q3
  <2> HIDE DEF comma, v, name, colon, q3
  <2> DEFINE front == <<name, colon>>
             behind == front \o v
  <2>0. front \in Seq(Tokens) /\ v \in Seq(Tokens) /\ comma \in Seq(Tokens)
    BY <1>1, <1>2
  <2>1. text = comma \o behind
    BY DEF MemberText, comma, name, colon, v
  <2> HIDE DEF front
  <2>a. behind \in Seq(Tokens) /\ Run(q, behind) = Run(Run(q, front), v)
    BY ONLY <1>4, <2>0, RunJoin
  <2> HIDE DEF behind
  <2>2. Run(r, text) = Run(q, behind)
    BY ONLY <1>3, <2>0, <2>1, <2>a, RunJoin DEF q
  <2>3. Run(r, text) = Run(Run(q, <<name, colon>>), v)
    BY <2>2, <2>a DEF front
  <2>4. <<name, colon>> = <<name>> \o <<colon>>
    BY <1>2, TwoJoin
  <2>5. Run(q, <<name>> \o <<colon>>) = Read(Run(q, <<name>>), colon)
    BY <1>2, <1>4, RunMore
  <2>6. Run(q, <<name>>) = q1
    BY <1>2, <1>4, RunOne DEF q1
  <2> QED BY <2>3, <2>4, <2>5, <2>6 DEF q2, q3
<1> HIDE DEF q3
<1> QED BY <1>6, <1>7, <1>8, <1>9, <1>10 DEF InObject, Past

\* The first members of an object.
Leading(ms, n) == SubSeq(ms, 1, n)

LEMMA FirstMore ==
  ASSUME NEW ms \in Seq(Members), NEW n \in 1 .. Len(ms)
  PROVE  /\ Leading(ms, n - 1) \in Seq(Members) /\ Leading(ms, n) = Append(Leading(ms, n - 1), ms[n])
         /\ ms[n] \in Members /\ (Leading(ms, n - 1) = <<>> <=> n - 1 = 0)
<1>1. SubSeq(ms, 1, n - 1) \in Seq(Members) /\ Len(SubSeq(ms, 1, n - 1)) = n - 1 /\ ms[n] \in Members
  OBVIOUS
<1>2. SubSeq(ms, 1, n) = Append(SubSeq(ms, 1, n - 1), ms[n])
  OBVIOUS
<1> QED BY <1>1, <1>2 DEF Leading

LEMMA FirstEnds == ASSUME NEW ms \in Seq(Members) PROVE Leading(ms, 0) = <<>> /\ Leading(ms, Len(ms)) = ms
BY DEF Leading

\* Members whose values can be read where so many lists are open.
Filling(ms, d) == ms \in Seq(Members) /\ \A i \in 1 .. Len(ms) : Readable(ms[i][2], d)

\* An object up to its end.
LEMMA MembersRead ==
  ASSUME NEW s, OnItsWay(s, 0), s.want = "value", Len(s.open) < NestingLimit,
         NEW ms, Filling(ms, Len(s.open) + 1)
  PROVE  InObject(Run(s, Opened(ms)), s.open, Len(ms))
<1> DEFINE N == Len(ms)
           P == {n \in 0 .. N : InObject(Run(s, Opened(Leading(ms, n))), s.open, n)}
<1>1. ms \in Seq(Members) /\ N \in Nat /\ \A i \in 1 .. N : Readable(ms[i][2], Len(s.open) + 1)
  BY DEF Filling
<1>2. s.open \in Seq(Opening)
  BY GoesBetween
<1>3. 0 \in P
  <2>1. Opened(Leading(ms, 0)) = <<Punct("object")>>
    BY <1>1, FirstEnds, OpenedNone
  <2>2. Punct("object") \in Tokens
    BY PunctTyped DEF Kind
  <2>3. Run(s, <<Punct("object")>>) = Read(s, Punct("object"))
    BY <2>2, RunOne
  <2>4. InObject(Run(s, Opened(Leading(ms, 0))), s.open, 0)
    BY <2>1, <2>3, ObjectOpens
  <2> QED BY <1>1, <2>4
<1>4. ASSUME NEW n \in 1 .. N, n - 1 \in P PROVE n \in P
  <2> DEFINE before == Leading(ms, n - 1)
             m == ms[n]
             first == (before = <<>>)
             text == CommaUnless(first) \o MemberText(m)
             r == Run(s, Opened(before))
  <2>1. before \in Seq(Members) /\ Leading(ms, n) = Append(before, m) /\ m \in Members /\ (first <=> n - 1 = 0)
    BY <1>1, FirstMore
  <2>2. InObject(r, s.open, n - 1)
    BY <1>4
  <2>3. Readable(m[2], Len(s.open) + 1)
    BY <1>1
  <2>a. first \in BOOLEAN
    OBVIOUS
  <2> HIDE DEF before, m, first
  <2>4. Opened(Leading(ms, n)) = Opened(before) \o text /\ Opened(before) \in Seq(Tokens)
    BY <2>1, OpenedMore, OpenedTyped DEF first
  <2>5. text \in Seq(Tokens)
    <3>1. CommaUnless(first) \in Seq(Tokens) /\ MemberText(m) \in Seq(Tokens)
      BY <2>1, <2>a, MemberTyped, CommaTyped
    <3> QED BY ONLY <3>1, TwoParts
  <2> HIDE DEF text
  <2>6. Run(s, Opened(Leading(ms, n))) = Run(r, text)
    BY <2>4, <2>5, RunJoin
  <2> HIDE DEF r
  <2>7. InObject(Run(r, text), s.open, 1)
    BY <1>2, <2>1, <2>2, <2>3, <2>a, MemberReads DEF text
  <2>8. n # 0 /\ n \in 0 .. N
    BY <1>1
  <2>9. InObject(Run(r, text), s.open, n)
    BY <2>7, <2>8 DEF InObject
  <2> QED BY <2>6, <2>8, <2>9
<1>5. N \in P
  <2> HIDE DEF P
  <2>1. \A i \in 0 .. N : i \in P
    BY <1>1, <1>3, <1>4, Ladder
  <2> QED BY <1>1, <2>1
<1> QED BY <1>1, <1>5, FirstEnds

LEMMA SolidParts == ASSUME NEW c \in Kind \ {"string", "number", "blank"} PROVE Punct(c) \in Solid
<1>1. Punct(c) \in Tokens
  BY PunctTyped
<1> QED BY <1>1 DEF Solid, Punct, Blank

LEMMA OpenedSolid ==
  ASSUME NEW ms \in Seq(Members), \A i \in 1 .. Len(ms) : ms[i][2] \in Seq(Solid)
  PROVE  Opened(ms) \in Seq(Solid) /\ Object(ms) \in Seq(Solid)
<1> DEFINE parts == Comma(Mem(ms))
<1>1. /\ parts \in Seq(Seq(Tokens)) /\ Len(parts) = Len(ms)
      /\ \A k \in 1 .. Len(ms) : parts[k] = IF k = 1 THEN MemberText(ms[k]) ELSE <<Punct("comma")>> \o MemberText(ms[k])
  BY PartsTyped
<1> HIDE DEF parts
<1>2. Punct("comma") \in Solid /\ Punct("colon") \in Solid /\ Punct("object") \in Solid /\ Punct("endobject") \in Solid
  BY SolidParts DEF Kind
<1>3. <<Punct("comma")>> \in Seq(Solid) /\ <<Punct("object")>> \in Seq(Solid) /\ <<Punct("endobject")>> \in Seq(Solid)
  BY <1>2
<1>4. ASSUME NEW k \in 1 .. Len(ms) PROVE parts[k] \in Seq(Solid)
  <2> DEFINE name == Word(ms[k][1])
             colon == Punct("colon")
             front == <<name, colon>>
             v == ms[k][2]
  <2>1. ms[k] \in Members /\ ms[k][1] \in Words /\ v \in Seq(Solid)
    BY MemberTyped
  <2>2. name \in Solid
    BY <2>1, ColonAlone, TokensAre
  <2>3. front \in Seq(Solid)
    BY <1>2, <2>2
  <2>4. MemberText(ms[k]) = front \o v
    BY DEF MemberText
  <2> HIDE DEF front, v
  <2>5. MemberText(ms[k]) \in Seq(Solid)
    BY ONLY <2>1, <2>3, <2>4, TwoParts
  <2>6. <<Punct("comma")>> \o MemberText(ms[k]) \in Seq(Solid)
    BY ONLY <1>3, <2>5, TwoParts
  <2> QED BY <1>1, <2>5, <2>6
<1>5. parts \in Seq(Seq(Solid))
  <2>1. parts \in [1 .. Len(parts) -> Seq(Solid)] /\ Len(parts) \in Nat
    BY <1>1, <1>4
  <2> QED BY ONLY <2>1
<1>6. Concat(parts) \in Seq(Solid)
  BY <1>5, ConcatTyped
<1>7. Opened(ms) = <<Punct("object")>> \o Concat(parts)
  BY DEF Opened, parts
<1>8. Opened(ms) \in Seq(Solid)
  BY ONLY <1>3, <1>6, <1>7, TwoParts
<1>9. Object(ms) \in Seq(Solid)
  BY ONLY <1>3, <1>8, ObjectIs, TwoParts
<1> QED BY <1>8, <1>9

\* An object can be read where its values can be read one list further in.
LEMMA ObjectReadable ==
  ASSUME NEW d \in Nat, d < NestingLimit, NEW ms, Filling(ms, d + 1)
  PROVE  Readable(Object(ms), d)
<1>1. ms \in Seq(Members) /\ \A i \in 1 .. Len(ms) : ms[i][2] \in Seq(Solid)
  BY DEF Filling, Readable
<1>2. Object(ms) \in Seq(Solid)
  BY <1>1, OpenedSolid
<1>3. ASSUME NEW s, OnItsWay(s, 0), s.want = "value", Len(s.open) = d PROVE Past(s, Run(s, Object(ms)))
  <2> DEFINE e == Punct("endobject")
             r == Run(s, Opened(ms))
  <2>1. InObject(r, s.open, Len(ms))
    BY <1>3, MembersRead
  <2>2. s.open \in Seq(Opening)
    BY <1>3, GoesBetween
  <2>3. Opened(ms) \in Seq(Tokens) /\ e \in Tokens /\ Object(ms) = Opened(ms) \o <<e>>
    BY <1>1, OpenedTyped, ObjectIs, PunctTyped DEF Kind
  <2>4. Past(s, Read(r, e))
    BY <2>1, <2>2, ObjectCloses
  <2> HIDE DEF e
  <2>5. Run(s, Object(ms)) = Read(r, e)
    BY <1>3, <2>3, RunMore
  <2> QED BY <2>4, <2>5
<1> QED BY <1>2, <1>3 DEF Readable, ReadAnywhere

LEMMA NestsTwice == NestingLimit \in Nat /\ NestingLimit >= 2
<1>1. NestingLimit \in Nat
  BY CjsonAssumption, ZenonT(60)
<1>2. NestingLimit >= 2
  BY ReportsAssumption
<1> QED BY <1>1, <1>2

LEMMA BegunReads ==
  ASSUME NEW b, b = Begun(allocate(Heap(0)))
  PROVE  b.want = "value" /\ b.open = <<>>
<1>1. Sane(Heap(0)) /\ Heap(0).fails = 0
  BY HeapSane
<1>2. Granted(allocate(Heap(0)))
  BY <1>1, GotAlways
<1> QED BY <1>2 DEF Begun

\* A text of this object, whatever white space is in it.
SaysAll(text, ms) == text \in Seq(Tokens) /\ NoBlanks(text) = Object(ms) /\ Filling(ms, 1)

\* cJSON_Parse reads the text of an object to its last token.
LEMMA TextReads ==
  ASSUME NEW text, NEW ms, SaysAll(text, ms), NEW r, r = cJSON_Parse(Heap(0), text)
  PROVE  r.ok /\ Spell(r.items) = NoBlanks(text)
<1> DEFINE b == Begun(allocate(Heap(0)))
           s == Run(b, text)
           e == Punct("endobject")
           p == Run(b, Opened(ms))
<1>1. text \in Seq(Tokens) /\ NoBlanks(text) = Object(ms) /\ Filling(ms, 1)
  BY DEF SaysAll
<1>2. OnItsWay(b, 0) /\ r.ok = (s.want = "done") /\ (s.want = "done" => r.items = s.items)
  BY <1>1, ParseRuns
<1>3. b.want = "value" /\ b.open = <<>> /\ Told(b, <<>>)
  BY BegunReads, BegunTold
<1> HIDE DEF b
<1>4. ms \in Seq(Members) /\ \A i \in 1 .. Len(ms) : ms[i][2] \in Seq(Solid)
  BY <1>1 DEF Filling, Readable
<1>5. Opened(ms) \in Seq(Solid) /\ Opened(ms) \in Seq(Tokens) /\ e \in Solid /\ e \in Tokens
  BY <1>4, OpenedSolid, OpenedTyped, SolidParts, PunctTyped DEF Kind
<1>6. Object(ms) = Opened(ms) \o <<e>>
  BY ObjectIs
<1>7. Len(b.open) = 0 /\ 0 < NestingLimit /\ Len(b.open) + 1 = 1
  BY <1>3, NestsTwice
<1>8. InObject(p, b.open, Len(ms))
  BY <1>1, <1>2, <1>3, <1>7, MembersRead
<1>9. OnItsWay(p, 0) /\ p.want \in {"first", "next"}
  BY <1>8 DEF InObject
<1>10. Tells(p, Opened(ms))
  <2>1. Told(p, NoBlanks(Opened(ms)))
    BY <1>2, <1>3, <1>5, RunTold
  <2>2. NoBlanks(Opened(ms)) = Opened(ms)
    BY <1>5, SolidBare
  <2>3. PICK x, y \in Seq(Tokens) : Opened(ms) = x \o y /\ Tells(p, x) /\ y = <<>>
    BY <1>9, <2>1, <2>2 DEF Told
  <2>4. x \o <<>> = x
    OBVIOUS
  <2> QED BY <2>3, <2>4
<1>11. s = Read(p, e)
  <2>1. s = Run(b, NoBlanks(text))
    BY <1>1, <1>2, RunBare
  <2>2. Run(b, Opened(ms) \o <<e>>) = Read(p, e)
    BY <1>2, <1>5, RunMore
  <2> QED BY <1>1, <1>6, <2>1, <2>2
<1>12. s.want = "done"
  <2>1. Past(b, Read(p, e))
    <3>1. b.open \in Seq(Opening)
      BY <1>2, GoesBetween
    <3> QED BY <1>8, <3>1, ObjectCloses
  <2> QED BY <1>3, <1>11, <2>1 DEF Past
<1>13. Tells(s, Opened(ms) \o <<e>>)
  <2>1. Between(p) /\ e # Blank
    BY <1>5, <1>9, GoesBetween DEF Solid
  <2>2. s.want # "error"
    BY <1>12
  <2> HIDE DEF e, s, p
  <2> QED BY <1>5, <1>9, <1>10, <1>11, <2>1, <2>2, ReadTells
<1>14. Spell(s.items) = Object(ms)
  <2>1. s.items \in Seq(ReadItems) /\ Object(ms) = Spell(s.items) \o Partial(s)
    BY <1>6, <1>13 DEF Tells
  <2>2. Partial(s) = <<>>
    BY <1>12 DEF Partial
  <2>3. Spell(s.items) \in Seq(Tokens)
    BY <2>1, ReadSayings
  <2>4. Spell(s.items) \o <<>> = Spell(s.items)
    BY ONLY <2>3
  <2> QED BY <2>1, <2>2, <2>4
<1> QED BY <1>1, <1>2, <1>12, <1>14

\* The members of the program's texts: a token, or an object of such.
LEMMA PlainFilling ==
  ASSUME NEW ms \in Seq(Members), \A i \in 1 .. Len(ms) : ms[i] \in Plains, NEW d
  PROVE  Filling(ms, d)
<1> SUFFICES ASSUME NEW i \in 1 .. Len(ms) PROVE Readable(ms[i][2], d)
  BY DEF Filling
<1>1. PICK t \in Tokens : ms[i][2] = <<t>> /\ t.t \in {"string", "number"}
  BY DEF Plains
<1> QED BY <1>1, TokenReadable

LEMMA NestedReadable ==
  ASSUME NEW ms \in Seq(Members), \A i \in 1 .. Len(ms) : ms[i] \in Plains
  PROVE  Readable(Object(ms), 1)
<1>1. Filling(ms, 1 + 1)
  BY PlainFilling
<1>2. 1 < NestingLimit /\ 1 \in Nat
  BY NestsTwice
<1> QED BY <1>1, <1>2, ObjectReadable

\* A text that is printed, if there is one.
IsPrinted(text) == text = <<>> \/ \E ms : SaysAll(text, ms)

LEMMA SentPrinted == ASSUME NEW text, SentText(text) PROVE IsPrinted(text)
<1> SUFFICES ASSUME text # <<>> PROVE \E ms : SaysAll(text, ms)
  BY DEF IsPrinted
<1>1. PICK sn \in Words, frame \in Seq(Byte) :
        text \in Seq(Tokens) /\ SaysSome(NoBlanks(text), SentSayings(hex2ascii(frame), sn))
  BY DEF SentText
<1> DEFINE M == SentSayings(hex2ascii(frame), sn)
<1>2. M \subseteq Plains
  BY HexTyped, SentTyped
<1> HIDE DEF M
<1>3. PICK ms \in Seq(Members) : NoBlanks(text) = Object(ms) /\ \A i \in 1 .. Len(ms) : ms[i] \in M
  BY <1>1 DEF SaysSome, M
<1>4. Filling(ms, 1)
  BY <1>2, <1>3, PlainFilling
<1> QED BY <1>1, <1>3, <1>4 DEF SaysAll

LEMMA ReportPrints ==
  ASSUME NEW text \in Seq(Tokens), SaysSome(NoBlanks(text), ReportSayings)
  PROVE  IsPrinted(text)
<1>1. PICK ms \in Seq(Members) : NoBlanks(text) = Object(ms) /\ \A i \in 1 .. Len(ms) : ms[i] \in ReportSayings
  BY DEF SaysSome
<1>2. ASSUME NEW i \in 1 .. Len(ms) PROVE Readable(ms[i][2], 1)
  <2> DEFINE m == ms[i]
  <2>1. m \in ReportSayings /\ m \in Members
    BY <1>1
  <2> HIDE DEF m
  <2>2. CASE m = <<"id", <<Num(0)>>>>
    <3>1. Num(0) \in Tokens /\ Num(0).t = "number"
      BY TokensAre
    <3>2. m[2] = <<Num(0)>>
      BY <2>2
    <3> QED BY <3>1, <3>2, TokenReadable DEF m
  <2>3. CASE m = <<"method", <<Post>>>>
    <3>1. Post \in Tokens /\ Post.t = "string"
      BY TokensAre, WordsAre DEF Post
    <3>2. m[2] = <<Post>>
      BY <2>3
    <3> QED BY <3>1, <3>2, TokenReadable DEF m
  <2>4. ASSUME NEW inner \in Seq(Plains), m = <<"params", Object(inner)>> PROVE Readable(ms[i][2], 1)
    <3>1. inner \in Seq(Members) /\ \A j \in 1 .. Len(inner) : inner[j] \in Plains
      <4>1. Plains \subseteq Members
        BY DEF Plains
      <4> QED BY <4>1, Wider
    <3>2. m[2] = Object(inner)
      BY <2>4
    <3> QED BY <3>1, <3>2, NestedReadable DEF m
  <2> QED BY <2>1, <2>2, <2>3, <2>4 DEF ReportSayings
<1>3. Filling(ms, 1)
  BY <1>2 DEF Filling
<1> QED BY <1>1, <1>3 DEF SaysAll, IsPrinted

-----------------------------------------------------------------------------
(* The weather that is published.                                          *)

\* strtol of digits.
LEMMA StrtolTyped ==
  ASSUME NEW ascii, NEW first \in Nat, NEW last \in Nat, first <= last,
         \A k \in first .. last : DigitValue(ascii[k]) \in Nat
  PROVE  Number(ascii, first, last) \in Nat
<1> DEFINE n == last - first + 1
           DigitUpto(upto, k) == IF k < first THEN 0 ELSE upto[k - 1] * 16 + DigitValue(ascii[k])
           Made(upto) == [k \in first - 1 .. last |-> DigitUpto(upto, k)]
           g == CHOOSE upto : upto =
                  [k \in first - 1 .. last |-> IF k < first THEN 0 ELSE upto[k - 1] * 16 + DigitValue(ascii[k])]
           d == [i \in 1 .. n |-> DigitValue(ascii[first + i - 1])]
           step == [i \in 1 .. n |-> [x \in Nat |-> x * 16 + d[i]]]
<1>1. n \in Nat /\ d \in [1 .. n -> Nat]
  OBVIOUS
<1>2. step \in [1 .. n -> [Nat -> Nat]]
  <2> HIDE DEF d, n
  <2> QED BY <1>1
<1>3. PICK h \in [0 .. n -> Nat] : h[0] = 0 /\ \A i \in 1 .. n : h[i] = step[i][h[i - 1]]
  <2>1. 0 \in Nat
    OBVIOUS
  <2> HIDE DEF step, n
  <2>2. Iterates(n, Nat, 0, step)
    BY <1>1, <1>2, <2>1, Iteration
  <2> QED BY <2>2 DEF Iterates
<1>4. \A i \in 1 .. n : h[i] = h[i - 1] * 16 + d[i]
  <2> SUFFICES ASSUME NEW i \in 1 .. n PROVE h[i] = h[i - 1] * 16 + d[i]
    OBVIOUS
  <2>1. i - 1 \in 0 .. n
    BY <1>1
  <2>2. h[i - 1] \in Nat
    BY <2>1
  <2> HIDE DEF d, n
  <2> QED BY <1>3, <2>2
<1> DEFINE f == [k \in first - 1 .. last |-> h[k - first + 1]]
<1>5. Number(ascii, first, last) = g[last]
  BY DEF Number
<1>6. g = CHOOSE upto : upto = Made(upto)
  OBVIOUS
<1>7. f = Made(f)
  <2>1. ASSUME NEW k \in first - 1 .. last PROVE f[k] = DigitUpto(f, k)
    <3>1. CASE k < first
      <4>1. k = first - 1 /\ k - first + 1 = 0
        BY <3>1
      <4>2. f[k] = h[0]
        BY <4>1
      <4> QED BY <1>3, <3>1, <4>2
    <3>2. CASE ~ (k < first)
      <4> DEFINE i == k - first + 1
      <4>1. i \in 1 .. n /\ k - 1 \in first - 1 .. last /\ k - 1 - first + 1 = i - 1 /\ first + i - 1 = k
        BY <3>2
      <4>2. f[k] = h[i]
        OBVIOUS
      <4>3. f[k - 1] = h[i - 1]
        BY <4>1
      <4>4. d[i] = DigitValue(ascii[k])
        BY <4>1
      <4>5. h[i] = h[i - 1] * 16 + d[i]
        BY <1>4, <4>1
      <4>6. DigitUpto(f, k) = f[k - 1] * 16 + DigitValue(ascii[k])
        BY <3>2
      <4> QED BY ONLY <4>2, <4>3, <4>4, <4>5, <4>6
    <3> QED BY <3>1, <3>2
  <2> HIDE DEF DigitUpto
  <2> QED BY <2>1
<1>8. g = Made(g)
  <2> HIDE DEF Made, f, g
  <2> QED BY <1>6, <1>7
<1> HIDE DEF g, f, d, step
<1>9. \A k \in first - 1 .. last : g[k] = DigitUpto(g, k)
  <2> HIDE DEF DigitUpto
  <2> QED BY <1>8
<1> DEFINE P == {i \in 0 .. n : g[first - 1 + i] \in Nat}
<1>10. 0 \in P
  <2>1. first - 1 \in first - 1 .. last /\ first - 1 < first /\ first - 1 + 0 = first - 1 /\ 0 \in 0 .. n
    BY <1>1
  <2> HIDE DEF n
  <2> QED BY <1>9, <2>1
<1>11. ASSUME NEW i \in 1 .. n, i - 1 \in P PROVE i \in P
  <2> DEFINE k == first - 1 + i
             x == g[k - 1]
             y == DigitValue(ascii[k])
  <2>1. k \in first .. last /\ k \in first - 1 .. last /\ ~ (k < first) /\ first - 1 + (i - 1) = k - 1 /\ i \in 0 .. n
    OBVIOUS
  <2>2. x \in Nat
    BY <1>11, <2>1
  <2>3. y \in Nat
    BY <2>1
  <2>4. g[k] = x * 16 + y
    BY <1>9, <2>1
  <2> HIDE DEF x, y
  <2>5. x * 16 + y \in Nat
    BY ONLY <2>2, <2>3
  <2> QED BY <2>1, <2>4, <2>5
<1>12. \A i \in 0 .. n : i \in P
  <2> HIDE DEF P, n
  <2> QED BY <1>1, <1>10, <1>11, Ladder
<1>13. n \in 0 .. n /\ first - 1 + n = last
  BY <1>1
<1> QED BY <1>5, <1>12, <1>13

LEMMA DigitsWhole == \A c \in (48 .. 57) \cup (65 .. 70) : DigitValue(c) \in Nat
<1> SUFFICES ASSUME NEW c \in (48 .. 57) \cup (65 .. 70) PROVE DigitValue(c) \in Nat
  OBVIOUS
<1>1. CASE c \in 48 .. 57
  <2>1. DigitValue(c) = c - 48
    BY <1>1 DEF DigitValue
  <2> QED BY <1>1, <2>1
<1>2. CASE c \in 65 .. 70
  <2>1. DigitValue(c) = c - 55
    BY <1>2 DEF DigitValue
  <2> QED BY <1>2, <2>1
<1> QED BY <1>1, <1>2

\* The frame for test has digits.
LEMMA TestDigits == Len(TestFrame) = 18 /\ \A k \in 1 .. Len(TestFrame) : DigitValue(TestFrame[k]) \in Nat
<1> DEFINE f == <<1, 3, 4, 0, 7, 88, 1, 255, 255>>
           S == (48 .. 57) \cup (65 .. 70)
<1>1. f \in Seq(Byte) /\ Len(f) = 9
  BY DEF Byte
<1> HIDE DEF f
<1>2. hex2ascii(f) \in Seq(S) /\ Len(hex2ascii(f)) = 18
  <2>1. hex2ascii(f) \in Seq(S) /\ Len(hex2ascii(f)) = 2 * Len(f)
    BY <1>1, TextAndBack
  <2> HIDE DEF S
  <2> QED BY <1>1, <2>1
<1>3. TestFrame \in Seq(S) /\ Len(TestFrame) = 18
  BY <1>2 DEF TestFrame, f
<1>4. \A k \in 1 .. Len(TestFrame) : TestFrame[k] \in S
  <2>1. PICK t : t = TestFrame
    OBVIOUS
  <2> HIDE DEF S
  <2>2. t \in Seq(S)
    BY <1>3, <2>1
  <2>3. \A k \in 1 .. Len(t) : t[k] \in S
    BY ONLY <2>2
  <2> QED BY <2>1, <2>3
<1> QED BY <1>3, <1>4, DigitsWhole

\* The numbers in it.
LEMMA TestNumbers ==
  ASSUME NEW first \in Nat, NEW last \in Nat, 1 <= first, first <= last, last <= 18
  PROVE  Number(TestFrame, first, last) \in Int
<1>1. \A k \in first .. last : DigitValue(TestFrame[k]) \in Nat
  BY TestDigits
<1>2. Number(TestFrame, first, last) \in Nat
  BY <1>1, StrtolTyped
<1> QED BY <1>2

\* A member that is a number or a word.
LEMMA PlainIs ==
  ASSUME NEW w \in Words, NEW t \in Tokens, t.t \in {"string", "number"}
  PROVE  <<w, <<t>>>> \in Plains
<1> DEFINE v == <<t>>
           m == <<w, v>>
<1>1. v \in Seq(Tokens)
  OBVIOUS
<1>2. m \in Members /\ m[2] = v
  BY <1>1 DEF Members
<1> HIDE DEF m
<1>3. m \in Plains
  BY <1>2 DEF Plains
<1> QED BY <1>3 DEF m

\* The form of the weather around its measured values.
LEMMA WeatherPrints ==
  ASSUME NEW members \in Seq(Plains)
  PROVE  IsPrinted(Formatted(members))
<1> DEFINE a == <<"id", <<Num(0)>>>>
           s == <<"loraNodeSerialNo", <<Word("00000000")>>>>
           inner == <<s>> \o members
           b == <<"params", Object(inner)>>
           c == <<"method", <<Post>>>>
           ms == <<a, b, c>>
<1>1. a \in Plains /\ s \in Plains /\ c \in Plains
  <2>1. a \in Plains
    <3>1. Num(0) \in Tokens /\ Num(0).t = "number"
      BY 0 \in Int, TokensAre
    <3>2. "id" \in Words
      BY WordsAre
    <3> QED BY <3>1, <3>2, PlainIs
  <2>2. s \in Plains
    <3> DEFINE z == "00000000"
    <3>1. z \in Words /\ "loraNodeSerialNo" \in Words
      BY WordsAssumption
    <3> HIDE DEF z
    <3>2. Word(z) \in Tokens /\ Word(z).t = "string"
      BY <3>1, TokensAre
    <3>3. <<"loraNodeSerialNo", <<Word(z)>>>> \in Plains
      BY <3>1, <3>2, PlainIs
    <3> QED BY <3>3 DEF z
  <2>3. c \in Plains
    <3> DEFINE z == "thing.event.property.post"
    <3>1. z \in Words /\ "method" \in Words /\ Post = Word(z)
      BY WordsAre DEF Post
    <3> HIDE DEF z
    <3>2. Post \in Tokens /\ Post.t = "string"
      BY <3>1, TokensAre
    <3> QED BY <3>1, <3>2, PlainIs
  <2> QED BY <2>1, <2>2, <2>3
<1>2. Formatted(members) = Object(ms)
  BY DEF Formatted
<1>3. "params" \in Words /\ b[1] = "params" /\ b[2] = Object(inner)
  BY WordsAre
<1> HIDE DEF a, s, c
<1>4. inner \in Seq(Plains)
  <2>1. <<s>> \in Seq(Plains)
    BY <1>1
  <2> QED BY <2>1
<1> HIDE DEF inner
<1>5. Plains \subseteq Members
  BY DEF Plains
<1>6. inner \in Seq(Members) /\ \A i \in 1 .. Len(inner) : inner[i] \in Plains
  BY <1>4, <1>5, Wider
<1>7. Readable(Object(inner), 1)
  BY <1>6, NestedReadable
<1>8. \A m \in Plains : Readable(m[2], 1)
  <2> SUFFICES ASSUME NEW m \in Plains PROVE Readable(m[2], 1)
    OBVIOUS
  <2>1. PICK t \in Tokens : m[2] = <<t>> /\ t.t \in {"string", "number"}
    BY DEF Plains
  <2> QED BY <2>1, TokenReadable
<1>9. Solid \subseteq Tokens
  BY DEF Solid
<1>10. b \in Members
  <2> DEFINE o == Object(inner)
             p == "params"
  <2>1. o \in Seq(Tokens)
    BY <1>7, <1>9, Wider DEF Readable
  <2>2. b = <<p, o>> /\ p \in Words
    BY <1>3
  <2> HIDE DEF o, p, b
  <2> QED BY <2>1, <2>2 DEF Members
<1>11. Readable(a[2], 1) /\ Readable(b[2], 1) /\ Readable(c[2], 1) /\ a \in Members /\ c \in Members
  BY <1>1, <1>3, <1>5, <1>7, <1>8
<1> HIDE DEF b
<1>12. ms \in Seq(Members) /\ Len(ms) = 3 /\ ms[1] = a /\ ms[2] = b /\ ms[3] = c
  BY <1>10, <1>11
<1> HIDE DEF ms
<1>13. \A i \in 1 .. Len(ms) : Readable(ms[i][2], 1)
  <2> SUFFICES ASSUME NEW i \in 1 .. Len(ms) PROVE Readable(ms[i][2], 1)
    OBVIOUS
  <2>1. i = 1 \/ i = 2 \/ i = 3
    BY <1>12
  <2> QED BY <1>11, <1>12, <2>1
<1>14. Object(ms) \in Seq(Solid)
  BY <1>12, <1>13, OpenedSolid DEF Readable
<1>15. Object(ms) \in Seq(Tokens) /\ NoBlanks(Object(ms)) = Object(ms)
  BY <1>9, <1>14, Wider, SolidBare
<1>16. SaysAll(Object(ms), ms)
  BY <1>12, <1>13, <1>15 DEF SaysAll, Filling
<1> QED BY <1>2, <1>16 DEF IsPrinted

LEMMA OneOrTwo ==
  ASSUME NEW S, NEW x \in S, NEW y \in S
  PROVE  <<x>> \in Seq(S) /\ <<x, y>> \in Seq(S)
OBVIOUS

\* What is published of the frame for test where it is taken for weather.
LEMMA TestWeather == \A text \in Weather(TestFrame) : IsPrinted(text)
<1> DEFINE raw(k) == Number(TestFrame, k, k + 3)
           sensor == Number(TestFrame, 1, 2)
<1>1. raw(7) \in Int /\ raw(11) \in Int
  <2>1. Number(TestFrame, 7, 10) \in Int /\ Number(TestFrame, 11, 14) \in Int
    BY TestNumbers
  <2> QED BY <2>1
<1> DEFINE x == raw(7)
           y == raw(11)
<1> HIDE DEF x, y
<1>2. x \in Int /\ y \in Int
  BY <1>1 DEF x, y
<1>3. Signed16(y) \in Int
  BY <1>2 DEF Signed16
<1>4. /\ "temperature" \in Words /\ "humidity" \in Words /\ "windDirection" \in Words /\ "windSpeed" \in Words
  BY WordsAssumption
<1>5. \A w \in Words, v \in Int : <<w, <<Num(v)>>>> \in Plains
  <2> SUFFICES ASSUME NEW w \in Words, NEW v \in Int PROVE <<w, <<Num(v)>>>> \in Plains
    OBVIOUS
  <2>1. Num(v) \in Tokens /\ Num(v).t = "number"
    BY TokensAre
  <2> QED BY <2>1, PlainIs
<1>6. IsPrinted(Formatted(<< <<"temperature", <<Num(Signed16(y))>>>>, <<"humidity", <<Num(x)>>>> >>))
  <2> DEFINE a == <<"temperature", <<Num(Signed16(y))>>>>
             b == <<"humidity", <<Num(x)>>>>
             ms == <<a, b>>
  <2>1. a \in Plains /\ b \in Plains
    BY <1>2, <1>3, <1>4, <1>5
  <2> HIDE DEF a, b
  <2>2. ms \in Seq(Plains)
    BY <2>1, OneOrTwo
  <2> HIDE DEF ms
  <2>3. IsPrinted(Formatted(ms))
    BY <2>2, WeatherPrints
  <2> QED BY <2>3 DEF ms, a, b
<1>7. ASSUME NEW w \in Words, NEW v \in Int PROVE IsPrinted(Formatted(<< <<w, <<Num(v)>>>> >>))
  <2> DEFINE a == <<w, <<Num(v)>>>>
             ms == <<a>>
  <2>1. a \in Plains
    BY <1>5
  <2> HIDE DEF a
  <2>2. ms \in Seq(Plains)
    BY <2>1, OneOrTwo
  <2> HIDE DEF ms
  <2>3. IsPrinted(Formatted(ms))
    BY <2>2, WeatherPrints
  <2> QED BY <2>3 DEF ms, a
<1>8. ASSUME NEW d \in {x} \cup {x * 16 + z : z \in StackDigit} PROVE d \in Int
  <2>1. StackDigit \subseteq 0 .. 15
    BY ReportsAssumption
  <2> QED BY <1>2, <2>1, SMTT(30)
<1> SUFFICES ASSUME NEW text \in Weather(TestFrame) PROVE IsPrinted(text)
  OBVIOUS
<1>9. \/ text = Formatted(<< <<"temperature", <<Num(Signed16(y))>>>>, <<"humidity", <<Num(x)>>>> >>)
      \/ \E d \in {x} \cup {x * 16 + z : z \in StackDigit} : text = Formatted(<< <<"windDirection", <<Num(d)>>>> >>)
      \/ text = Formatted(<< <<"windSpeed", <<Num(x)>>>> >>)
      \/ text = <<>>
  <2>1. CASE sensor = 4
    BY <2>1 DEF Weather, x, y
  <2>2. CASE sensor = 2
    BY <2>2 DEF Weather, x, y
  <2>3. CASE sensor = 1
    BY <2>3 DEF Weather, x, y
  <2>4. CASE sensor \notin {1, 2, 4}
    BY <2>4 DEF Weather
  <2> QED BY <2>1, <2>2, <2>3, <2>4
<1>10. CASE \E d \in {x} \cup {x * 16 + z : z \in StackDigit} : text = Formatted(<< <<"windDirection", <<Num(d)>>>> >>)
  <2>1. PICK d \in {x} \cup {x * 16 + z : z \in StackDigit} : text = Formatted(<< <<"windDirection", <<Num(d)>>>> >>)
    BY <1>10
  <2>2. d \in Int
    BY <1>8
  <2>3. PICK w \in Words : w = "windDirection"
    BY <1>4
  <2>4. IsPrinted(Formatted(<< <<w, <<Num(d)>>>> >>))
    BY <1>7, <2>2
  <2> QED BY <2>1, <2>3, <2>4
<1>11. CASE text = Formatted(<< <<"windSpeed", <<Num(x)>>>> >>)
  <2>1. PICK w \in Words : w = "windSpeed"
    BY <1>4
  <2>2. IsPrinted(Formatted(<< <<w, <<Num(x)>>>> >>))
    BY <1>2, <1>7
  <2> QED BY <1>11, <2>1, <2>2
<1>12. CASE text = <<>>
  BY <1>12 DEF IsPrinted
<1> QED BY <1>6, <1>9, <1>10, <1>11, <1>12

-----------------------------------------------------------------------------
(* Every text printed.                                                     *)

LEMMA DecodedPrints ==
  ASSUME NEW heap, Unhurt(heap), NEW report \in Decoded(heap)
  PROVE  IsPrinted(report.text)
<1>1. CASE TestNode = Station
  <2>1. report.text \in Weather(TestFrame)
    BY <1>1 DEF Decoded
  <2> QED BY <2>1, TestWeather
<1>2. CASE TestNode # Station
  <2> DEFINE sn == TestNode
             ascii == TestFrame
             members == ReplyMembers(ascii)
             plc == ascii2hex(ascii)[1]
  <2>1. report = NonWeather(sn, ascii, heap)
    BY <1>2 DEF Decoded
  <2>2. sn \in Words /\ Reply(ascii)
    BY TestReply
  <2> HIDE DEF sn, ascii
  <2>3. PrintedSo(sn, members, plc, heap)
    BY <2>2, NonWeatherLeaves
  <2>4. report = ReportPrinted(sn, members, plc, heap)
    BY <2>1, NonWeatherIs
  <2> HIDE DEF members, plc
  <2>5. CASE report.how = "text"
    <3>1. report.text \in Seq(Tokens) /\ SaysSome(NoBlanks(report.text), ReportSayings)
      BY <2>3, <2>4, <2>5 DEF PrintedSo, ReportGives
    <3> QED BY <3>1, ReportPrints
  <2>6. CASE report.how # "text"
    <3>1. report.text = <<>>
      BY <2>3, <2>4, <2>6 DEF PrintedSo, ReportGives
    <3> QED BY <3>1 DEF IsPrinted
  <2> QED BY <2>5, <2>6
<1> QED BY <1>1, <1>2

LEMMA PublishedStep ==
  ASSUME RoundTrip, NEW k \in Nat, ws_receive_msg(k)
  PROVE  IsPrinted(published')
<1> DEFINE root == cJSON_Parse(Heap(k), received)
           devaddr == cJSON_GetObjectItem(root.items, "devaddr")
           data == cJSON_GetObjectItem(root.items, "data")
<1>1. received \in Seq(Tokens)
  BY DEF ws_receive_msg, RoundTrip
<1>2. \/ published' = <<>>
      \/ \E report \in Decoded(root.heap) : published' = report.text
  <2>1. Handles(root, devaddr, data, k)
    BY DEF ws_receive_msg
  <2> HIDE DEF root, devaddr, data
  <2> QED BY <2>1 DEF Handles, Publishes
<1>3. Unhurt(root.heap)
  BY <1>1, ParsedClears
<1> HIDE DEF root
<1>4. ASSUME NEW report \in Decoded(root.heap), published' = report.text PROVE IsPrinted(published')
  BY <1>3, <1>4, DecodedPrints
<1>5. CASE published' = <<>>
  BY <1>5 DEF IsPrinted
<1> QED BY <1>2, <1>4, <1>5

LEMMA PrintedStep ==
  ASSUME RoundTrip, IsPrinted(published), [Next]_vars
  PROVE  IsPrinted(published')
<1>0. IsPrinted(<<>>)
  BY DEF IsPrinted
<1>1. ASSUME NEW msg \in HubMessage, NEW k \in Failure, process_single_iot_hub_msg(msg, k) PROVE published' = <<>>
  BY <1>1 DEF process_single_iot_hub_msg
<1>2. ASSUME NEW k \in Failure, run_command_on_lora_node(k) PROVE published' = <<>>
  BY <1>2 DEF run_command_on_lora_node, Sends
<1>3. ASSUME NEW k \in Failure, NEW n \in Name, NEW num_reg \in 1 .. MaxRead,
             run_single_switch_query_command(Switch[n].plc, Switch[n].size, Switch[n].reg, num_reg, k)
      PROVE  published' = <<>>
  BY <1>3 DEF run_single_switch_query_command, Sends
<1>4. ASSUME NEW k \in Failure, NEW reading \in Reading, send_weather_info_request(reading[1], k) PROVE published' = <<>>
  BY <1>4 DEF send_weather_info_request, Sends
<1>5. ASSUME NEW k \in Failure, ws_receive_msg(k) PROVE IsPrinted(published')
  BY <1>5, FailureTyped, PublishedStep
<1>6. CASE PlcActs
  BY <1>6 DEF PlcActs
<1>7. ASSUME NEW reading \in Reading, StationAnswers(reading) PROVE IsPrinted(published')
  BY <1>7 DEF StationAnswers
<1>8. CASE Ignored
  BY <1>8 DEF Ignored
<1>9. ASSUME NEW text \in ServerText, ServerSays(text) PROVE published' = <<>>
  BY <1>9 DEF ServerSays
<1>10. CASE Dead
  BY <1>10 DEF Dead, vars
<1>11. CASE UNCHANGED vars
  BY <1>11 DEF vars
<1> QED BY <1>0, <1>1, <1>2, <1>3, <1>4, <1>5, <1>6, <1>7, <1>8, <1>9, <1>10, <1>11 DEF Next

\* A text that is printed is read back.
LEMMA PrintedReads ==
  ASSUME NEW text, IsPrinted(text), text # <<>>, NEW r, r = cJSON_Parse(Heap(0), text)
  PROVE  r.ok /\ Spell(r.items) = NoBlanks(text)
<1>1. PICK ms : SaysAll(text, ms)
  BY DEF IsPrinted
<1> QED BY <1>1, TextReads

\* cJSON.c:382, "realloc printbuffer if necessary to have at least "needed" bytes more":
\* whatever is sent or published, with an allocation failing anywhere and whatever size the
\* buffer begins with, cJSON_Print stays within its buffer, and cJSON_Parse reads what it
\* has written back to the last token.
THEOREM PrintedAndRead == Spec => []PrintsReadably
<1>1. Init => IsPrinted(published)
  BY DEF Init, IsPrinted
<1>2. RoundTrip /\ IsPrinted(published) /\ [Next]_vars => IsPrinted(published)'
  BY PrintedStep
<1>3. RoundTrip /\ HeapInv /\ IsPrinted(published) => PrintsReadably
  <2> SUFFICES ASSUME RoundTrip, HeapInv, IsPrinted(published) PROVE PrintsReadably
    OBVIOUS
  <2>1. ~ left.over
    BY DEF HeapInv
  <2>2. IsPrinted(sent)
    BY SentPrinted DEF RoundTrip
  <2>3. ASSUME NEW text \in {sent, published} \ {<<>>}
        PROVE  LET r == cJSON_Parse(Heap(0), text) IN r.ok /\ Spell(r.items) = NoBlanks(text)
    <3>1. IsPrinted(text) /\ text # <<>>
      BY <2>2
    <3> QED BY <3>1, PrintedReads
  <2> QED BY <2>1, <2>3 DEF PrintsReadably
<1> QED BY <1>1, <1>2, <1>3, Invariance, PTL DEF Spec

=============================================================================
