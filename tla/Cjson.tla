------------------------------- MODULE Cjson -------------------------------
(***************************************************************************)
(* cJSON.c as the program uses it: cJSON_Parse, the look-up of an item,    *)
(* the construction of objects, cJSON_Print and cJSON_Delete, with the     *)
(* blocks they allocate and free.  Any one allocation may fail.            *)
(*                                                                         *)
(* A text is a sequence of tokens.  A call is an operator on the heap and  *)
(* what it is given.  An item stands with everything below it in one       *)
(* sequence: each item carries the addresses of its three blocks, and a    *)
(* list, its children (the next fields from child on) and a mark where     *)
(* they end follow each other.  <<>> is NULL.  Errors that are only logged *)
(* have no place in the results.                                           *)
(***************************************************************************)
EXTENDS Integers, Sequences, SequencesExt, FiniteSetsExt, Functions

CONSTANTS Words,            \* the strings that texts and names are made of
          NestingLimit,     \* CJSON_NESTING_LIMIT
          BufferSize        \* default_buffer_size of print

ASSUME CjsonAssumption ==
  /\ "" \in Words /\ \A w \in Words : Len(w) \in Nat
  /\ NestingLimit \in Nat /\ BufferSize \in Nat \ {0}

-----------------------------------------------------------------------------
(* Tokens.  A string is a word s and, for a Modbus frame, its text n; a     *)
(* number is n[1] tenths.                                                   *)

Punct(c) == [t |-> c, s |-> "", n |-> <<>>]
Word(s) == [t |-> "string", s |-> s, n |-> <<>>]
Frame(n) == [t |-> "string", s |-> "", n |-> n]
Num(v) == [t |-> "number", s |-> "", n |-> <<v>>]
Blank == Punct("blank")

\* "end" is the zero byte, "other" anything that no JSON text has.
Kind == {"string", "badstring", "number", "null", "false", "true", "blank", "end", "other",
         "array", "endarray", "object", "endobject", "colon", "comma"}

Tokens == [t : {"string"}, s : Words, n : Seq(Int)] \cup [t : {"number"}, s : {""}, n : [1 .. 1 -> Int]] \cup
         {Punct(c) : c \in Kind \ {"string", "number"}}

Puncts(cs) == [k \in DOMAIN cs |-> Punct(cs[k])]

\* A string that is closed but has an escape sequence nobody knows.
Strings == {"string", "badstring"}

\* The values of one token that need no block.
Scalar == {"null", "false", "true", "number"}

Closing == [open \in {"array", "object"} |-> IF open = "array" THEN "endarray" ELSE "endobject"]

Opens(t) == t \in DOMAIN Closing
Closes(t) == t \in {"endarray", "endobject"}

\* Texts one behind the other.
Concat(parts) ==
  LET upto[n \in 0 .. Len(parts)] == IF n = 0 THEN <<>> ELSE upto[n - 1] \o parts[n]
  IN upto[Len(parts)]

NoBlanks(text) == Concat([n \in 1 .. Len(text) |-> IF text[n] = Blank THEN <<>> ELSE <<text[n]>>])

-----------------------------------------------------------------------------
(* The heap: blocks are numbered as they are allocated.                     *)

\* fails: which allocation fails, 0 for none; live: the blocks allocated and not
\* freed; lost: those that nobody has a pointer to; wild: a block was freed that
\* was not live; over: a byte was written outside a block, or not where it belongs.
Heap(k) == [fails |-> k, made |-> 0, live |-> {}, lost |-> {}, wild |-> FALSE, over |-> FALSE]

allocate(heap) ==
  LET block == heap.made + 1
  IN [heap EXCEPT !.made = block, !.live = IF block = heap.fails THEN @ ELSE @ \cup {block}]

\* The allocation just made gave a block, whose address is heap.made.
Granted(heap) == heap.made # heap.fails

deallocate(heap, blocks) ==
  [heap EXCEPT !.live = @ \ blocks, !.wild = @ \/ ~ blocks \subseteq heap.live]

NoText == [at |-> 0, s |-> "", n |-> <<>>]

\* A block of cJSON_New_Item, so many lists down.
Item(at, level) ==
  [at |-> at, level |-> level, type |-> "invalid", string |-> NoText, valuestring |-> NoText, valuedouble |-> <<>>]

\* Where the children of a list end: no block.
Mark(close, level) == [Item(0, level) EXCEPT !.type = close]

Own(i) == {i.at, i.string.at, i.valuestring.at} \ {0}
Blocks(items) == UNION {Own(items[k]) : k \in DOMAIN items}

\* An item with everything below it.
cJSON_Delete(heap, items) == deallocate(heap, Blocks(items))

-----------------------------------------------------------------------------
(* cJSON_Parse, token by token.  The calls of parse_value, parse_array and  *)
(* parse_object that have not returned are the lists in open, outermost     *)
(* first; item is the one they fill in, items are those before it.  want is *)
(* what is read next: a value, the first element of a list, an element, the *)
(* colon after a name, what comes next in a list; done and error are ends.  *)

\* Mutant of Failed: the item that is being filled in is in no list yet.
FailedLeaky(s) ==
  [s EXCEPT !.want = "error", !.heap = cJSON_Delete(s.heap, s.items),
            !.items = <<>>, !.item = Item(0, 0), !.open = <<>>]

\* The "fail" of every call that has not returned: it deletes its list, and cJSON_Parse
\* the item it began with.
Failed(s) ==
  [s EXCEPT !.want = "error", !.heap = cJSON_Delete(s.heap, Append(s.items, s.item)),
            !.items = <<>>, !.item = Item(0, 0), !.open = <<>>]

\* A value is read, or a list closed, to its end: the call has returned.
Returned(s, item, open) ==
  [s EXCEPT !.want = IF open = <<>> THEN "done" ELSE "next",
            !.items = Append(@, item), !.item = Item(0, 0), !.open = open]

\* A string and its block, or a block for nothing, which is freed. A name is swapped into
\* its place, "because we parsed the name".
parse_string(s, token, heap) ==
  LET string == [at |-> heap.made, s |-> token.s, n |-> token.n]
  IN CASE token.t \notin Strings -> Failed(s)
       [] token.t \in Strings /\ ~ Granted(heap) -> Failed([s EXCEPT !.heap = heap])
       [] token.t = "badstring" /\ Granted(heap) -> Failed([s EXCEPT !.heap = deallocate(heap, {heap.made})])
       [] token.t = "string" /\ Granted(heap) /\ s.want = "name" ->
            [s EXCEPT !.want = "colon", !.heap = heap, !.item.string = string]
       [] token.t = "string" /\ Granted(heap) /\ s.want = "value" ->
            Returned([s EXCEPT !.heap = heap], [s.item EXCEPT !.type = "string", !.valuestring = string], s.open)

\* Mutant of TooDeep: a list too many.
TooDeepLater(depth) == depth > NestingLimit

TooDeep(depth) == depth >= NestingLimit

\* The beginning of parse_array and parse_object; the item is of no use before its list is
\* complete, and has its type from now on.
ListBegins(s, open) ==
  IF TooDeep(Len(s.open)) THEN Failed(s)
  ELSE [s EXCEPT !.want = "first", !.items = Append(@, [s.item EXCEPT !.type = open]),
                 !.item = Item(0, 0), !.open = Append(@, open)]

parse_value(s, token) ==
  CASE token.t \in Scalar -> Returned(s, [s.item EXCEPT !.type = token.t, !.valuedouble = token.n], s.open)
    [] token.t \in Strings -> parse_string(s, token, allocate(s.heap))
    [] Opens(token.t) -> ListBegins(s, token.t)
    [] OTHER -> Failed(s)

\* An element: a block for the item, and its name or its value.
Element(s, token, heap) ==
  LET new == [s EXCEPT !.heap = heap, !.item = Item(heap.made, Len(s.open))]
  IN CASE ~ Granted(heap) -> Failed([s EXCEPT !.heap = heap])
       [] Granted(heap) /\ Last(s.open) = "object" -> parse_string([new EXCEPT !.want = "name"], token, allocate(heap))
       [] Granted(heap) /\ Last(s.open) = "array" -> parse_value([new EXCEPT !.want = "value"], token)

\* The loops of parse_array and parse_object from a comma or the end of the list on.
ListGoesOn(s, token) ==
  CASE token.t = Closing[Last(s.open)] -> Returned(s, Mark(token.t, Len(s.open) - 1), Front(s.open))
    [] token.t = "comma" /\ s.want = "next" -> [s EXCEPT !.want = "element"]
    [] token.t # Closing[Last(s.open)] /\ s.want = "first" -> Element(s, token, allocate(s.heap))
    [] OTHER -> Failed(s)

\* The next token.
Read(s, token) ==
  CASE s.want \in {"done", "error"} \/ token = Blank -> s
    [] s.want = "value" /\ token # Blank -> parse_value(s, token)
    [] s.want = "colon" /\ token # Blank -> IF token.t = "colon" THEN [s EXCEPT !.want = "value"] ELSE Failed(s)
    [] s.want = "element" /\ token # Blank -> Element(s, token, allocate(s.heap))
    [] s.want \in {"first", "next"} /\ token # Blank -> ListGoesOn(s, token)

\* cJSON_New_Item for the value.
Begun(heap) ==
  [want |-> IF Granted(heap) THEN "value" ELSE "error", heap |-> heap, items |-> <<>>,
   item |-> Item(IF Granted(heap) THEN heap.made ELSE 0, 0), open |-> <<>>]

\* After so many tokens of a text.
Parsing(heap, text) ==
  LET after[n \in 0 .. Len(text)] == IF n = 0 THEN Begun(allocate(heap)) ELSE Read(after[n - 1], text[n])
  IN after

\* cJSON_Parse: a zero byte ends the text; what follows the value is not looked at.
cJSON_Parse(heap, text) ==
  LET s == Parsing(heap, Append(text, Punct("end")))[Len(text) + 1]
  IN [ok |-> s.want = "done", heap |-> s.heap, items |-> s.items]

\* The places of the children of a list.
Children(items) ==
  {k \in 2 .. Len(items) : items[k].level = items[1].level + 1 /\ ~ Closes(items[k].type)}

\* The item at a place with everything below it.
Below(items, k) ==
  SubSeq(items, k, Min({j \in k .. Len(items) : items[j].level = items[k].level /\ ~ Opens(items[j].type)}))

\* cJSON_GetObjectItemCaseSensitive: the search ends at a child without a name.
cJSON_GetObjectItem(items, name) ==
  LET found == {k \in Children(items) : items[k].string.at = 0 \/ items[k].string.s = name}
  IN IF found = {} \/ items[Min(found)].string.at = 0 THEN <<>> ELSE Below(items, Min(found))

-----------------------------------------------------------------------------
(* Building an object.  Between the calls: heap, object, and whether every  *)
(* item could be created.                                                   *)

\* cJSON_New_Item with a type.
New_Item(type, value, heap) ==
  [ok |-> Granted(heap), heap |-> heap,
   items |-> IF Granted(heap) THEN <<[Item(heap.made, 0) EXCEPT !.type = type, !.valuedouble = value]>> ELSE <<>>]

cJSON_CreateObject(heap) ==
  LET r == New_Item("object", <<>>, allocate(heap)) IN IF r.ok THEN [r EXCEPT !.items = Append(@, Mark("endobject", 0))] ELSE r

cJSON_CreateNumber(heap, token) == New_Item("number", token.n, allocate(heap))

\* The block for the copy is there, or not.
StringCopied(r, token, heap) ==
  IF Granted(heap)
  THEN [r EXCEPT !.heap = heap, !.items = <<[@[1] EXCEPT !.valuestring = [at |-> heap.made, s |-> token.s, n |-> token.n]]>>]
  ELSE [ok |-> FALSE, heap |-> cJSON_Delete(heap, r.items), items |-> <<>>]

cJSON_CreateString(heap, token) ==
  LET r == New_Item("string", <<>>, allocate(heap))
  IN IF r.ok THEN StringCopied(r, token, allocate(r.heap)) ELSE r

\* The items of an object with one more child, whose name has a block at this address.
Attached(items, name, at, child) ==
  Front(items)
  \o [k \in DOMAIN child |-> [child[k] EXCEPT !.level = @ + 1, !.string = IF k = 1 THEN [at |-> at, s |-> name, n |-> <<>>] ELSE @]]
  \o <<Last(items)>>

\* The block for the name is there, or not: without it the item is not added, and
\* cJSON_AddItemToObject does not say so.
NameCopied(b, name, child, heap) ==
  IF Granted(heap) THEN [b EXCEPT !.heap = heap, !.items = Attached(@, name, heap.made, child)]
  ELSE [b EXCEPT !.heap = [heap EXCEPT !.lost = @ \cup Blocks(child)]]

cJSON_AddItemToObject(b, name, child) == NameCopied(b, name, child, allocate(b.heap))

\* The caller's "goto end if it is NULL, add": a new item of object b, which is ok.
Add(b, name, new) ==
  IF new.ok THEN cJSON_AddItemToObject([b EXCEPT !.heap = new.heap], name, new.items)
  ELSE [b EXCEPT !.ok = FALSE, !.heap = new.heap]

\* A member <<name, token>>.
AddMember(b, member) ==
  IF ~ b.ok THEN b
  ELSE Add(b, member[1], IF member[2].t = "string" THEN cJSON_CreateString(b.heap, member[2])
                         ELSE cJSON_CreateNumber(b.heap, member[2]))

AddMembers(b, members) ==
  LET upto[n \in 0 .. Len(members)] == IF n = 0 THEN b ELSE AddMember(upto[n - 1], members[n])
  IN upto[Len(members)]

\* What comes of object b when a child of it, added or not, has got its members.
Adopted(b, name, at, full) ==
  IF at = 0 THEN [ok |-> full.ok, heap |-> [full.heap EXCEPT !.lost = @ \cup Blocks(full.items)], items |-> b.items]
  ELSE [full EXCEPT !.items = Attached(b.items, name, at, @)]

ObjectAdded(b, name, child, members, heap) ==
  Adopted(b, name, IF Granted(heap) THEN heap.made ELSE 0, AddMembers([ok |-> TRUE, heap |-> heap, items |-> child], members))

\* A member that is an object and gets its members once it has been added.
AddObject(b, name, members) ==
  LET new == cJSON_CreateObject(b.heap)
  IN IF ~ b.ok THEN b
     ELSE IF ~ new.ok THEN [b EXCEPT !.ok = FALSE, !.heap = new.heap]
     ELSE ObjectAdded(b, name, new.items, members, allocate(new.heap))

-----------------------------------------------------------------------------
(* cJSON_Print.  The print buffer: its block and length, offset, how far it *)
(* is filled and whether a zero byte is there; bad: a byte was put outside  *)
(* the block or not where the text ends, or strlen had no end to find.      *)

\* Bytes of a string with its quotes, and of a number with one decimal, if it needs one,
\* that is not negative.
Width(text) == IF text.n # <<>> THEN Len(text.n) + 2 ELSE Len(text.s) + 2
Digits(v) == 1 + Cardinality({k \in 1 .. 9 : 10 ^ k <= v \div 10}) + IF v % 10 = 0 THEN 0 ELSE 2

\* realloc gave a block of so many bytes, or not.
Reallocated(p, size, heap) ==
  IF Granted(heap) THEN [p EXCEPT !.heap = deallocate(heap, {p.buffer}), !.buffer = heap.made, !.length = size]
  ELSE [p EXCEPT !.heap = deallocate(heap, {p.buffer}), !.buffer = 0, !.length = 0, !.ok = FALSE]

\* Mutant of ensure: the bytes that are there are forgotten.
ensureLess(p, needed) ==
  IF p.buffer = 0 \/ p.offset >= p.length THEN [p EXCEPT !.ok = FALSE]
  ELSE IF needed + 1 <= p.length THEN p
  ELSE Reallocated(p, 2 * (needed + 1), allocate(p.heap))

\* Room for needed bytes and a zero byte.
ensure(p, needed) ==
  IF p.buffer = 0 \/ p.offset >= p.length THEN [p EXCEPT !.ok = FALSE]
  ELSE IF needed + p.offset + 1 <= p.length THEN p
  ELSE Reallocated(p, 2 * (needed + p.offset + 1), allocate(p.heap))

\* Tokens of so many bytes at the offset, with or without a zero byte behind them.
Written(p, tokens, bytes, zero) ==
  IF ~ p.ok THEN p
  ELSE [p EXCEPT !.text = @ \o tokens, !.filled = p.offset + bytes, !.zero = zero,
                 !.bad = \/ @ \/ p.offset # p.filled
                         \/ p.offset + bytes + (IF zero THEN 1 ELSE 0) > p.length]

Put(p, needed, tokens, bytes, zero) == IF p.ok THEN Written(ensure(p, needed), tokens, bytes, zero) ELSE p

Advance(p, bytes) == IF p.ok THEN [p EXCEPT !.offset = @ + bytes] ELSE p

\* update_offset, by strlen.
update_offset(p) == IF p.ok THEN [p EXCEPT !.offset = p.filled, !.bad = @ \/ ~ p.zero] ELSE p

print_string_ptr(p, text) ==
  Put(p, Width(text) + 1, <<[t |-> "string", s |-> text.s, n |-> text.n]>>, Width(text), TRUE)

print_number(p, v) == Advance(Put(p, Digits(v) + 1, <<Num(v)>>, Digits(v), TRUE), Digits(v))

Tabs(n) == [k \in 1 .. n |-> Blank]

\* print_object, with format: the name of a child before its value
print_name(p, string) ==
  LET tabs == Advance(Put(p, p.depth, Tabs(p.depth), p.depth, FALSE), p.depth)
      name == update_offset(print_string_ptr(tabs, string))
  IN Advance(Put(name, 2, <<Punct("colon"), Blank>>, 2, FALSE), 2)

\* what stands in front of its children
print_open(p) == [Advance(Put(p, 3, <<Punct("object"), Blank>>, 2, FALSE), 2) EXCEPT !.depth = @ + 1]

\* and behind them
print_close(p) == [Put(p, p.depth + 1, Tabs(p.depth - 1) \o <<Punct("endobject")>>, p.depth, TRUE) EXCEPT !.depth = @ - 1]

\* and what stands behind a child, with a comma if there is another one.
print_next(p, comma) == Advance(Put(p, Len(comma) + 2, comma \o <<Blank>>, Len(comma) + 1, TRUE), Len(comma) + 1)

\* print_value
print_value(p, item) ==
  CASE item.type = "string" -> update_offset(print_string_ptr(p, item.valuestring))
    [] item.type = "number" -> update_offset(print_number(p, item.valuedouble[1]))
    [] item.type = "object" -> print_open(p)
    [] item.type = "endobject" -> update_offset(print_close(p))

\* The item or mark at a place.
print_item(p, items, k) ==
  LET i == items[k]
      value == print_value(IF i.string.at = 0 THEN p ELSE print_name(p, i.string), i)
  IN IF Opens(i.type) \/ k = Len(items) THEN value
     ELSE print_next(value, IF Closes(items[k + 1].type) THEN <<>> ELSE <<Punct("comma")>>)

\* The buffer is freed in any case, and the text is there if it could be cut to its length.
Printed(p, cut) ==
  LET heap == [deallocate(cut, {p.buffer} \ {0}) EXCEPT !.over = p.bad]
  IN IF p.ok /\ Granted(cut) THEN [ok |-> TRUE, heap |-> heap, printed |-> cut.made, text |-> p.text]
     ELSE [ok |-> FALSE, heap |-> heap, printed |-> 0, text |-> <<>>]

Cut(p) == Printed(p, IF p.ok THEN allocate(p.heap) ELSE p.heap)

\* An empty print buffer.
PrintBuffer(heap) ==
  [ok |-> Granted(heap), heap |-> heap, buffer |-> IF Granted(heap) THEN heap.made ELSE 0, length |-> BufferSize,
   offset |-> 0, filled |-> 0, zero |-> FALSE, depth |-> 0, text |-> <<>>, bad |-> FALSE]

\* After so many items.
Printing(heap, items) ==
  LET after[n \in 0 .. Len(items)] == IF n = 0 THEN PrintBuffer(allocate(heap)) ELSE print_item(after[n - 1], items, n)
  IN after

\* cJSON_Print: the text is a block of its own that the caller has to free.
cJSON_Print(heap, items) == Cut(Printing(heap, items)[Len(items)])

-----------------------------------------------------------------------------
(* The references.                                                         *)

\* Parts with commas between them.
Joined(parts) == Concat([k \in DOMAIN parts |-> IF k = 1 THEN parts[k] ELSE <<Punct("comma")>> \o parts[k]])

Object(members) ==
  <<Punct("object")>> \o Joined([k \in DOMAIN members |-> <<Word(members[k][1]), Punct("colon")>> \o members[k][2]])
                \o <<Punct("endobject")>>

\* What an item says, without white space, mark for mark.
Say(items, k) ==
  LET i == items[k]
      comma == IF k = 1 \/ Closes(i.type) \/ Opens(items[k - 1].type) THEN <<>> ELSE <<Punct("comma")>>
      StringToken(text) == [t |-> "string", s |-> text.s, n |-> text.n]
      name == IF i.string.at = 0 THEN <<>> ELSE <<StringToken(i.string), Punct("colon")>>
      value == CASE i.type = "string" -> StringToken(i.valuestring)
                 [] i.type = "number" -> Num(i.valuedouble[1])
                 [] OTHER -> Punct(i.type)
  IN comma \o name \o <<value>>

Spell(items) == Concat([k \in 1 .. Len(items) |-> Say(items, k)])

\* A text has no more lists than this open anywhere.
NestsWithin(text, limit) ==
  LET open[n \in 0 .. Len(text)] ==
        IF n = 0 THEN 0
        ELSE open[n - 1] + IF Opens(text[n].t) THEN 1 ELSE IF Closes(text[n].t) THEN -1 ELSE 0
  IN \A n \in 0 .. Len(text) : open[n] <= limit

\* The JSON texts that nest lists depth deep at most, with these keys and scalars
\* and lists of up to two elements.
JsonText(depth, keys, scalars) ==
  LET lists(elements) == {<<>>} \cup elements \cup {x \o <<Punct("comma")>> \o y : x, y \in elements}
      members(values) == {<<key, Punct("colon")>> \o x : key \in keys, x \in values}
      texts[d \in 0 .. depth] ==
        {<<x>> : x \in scalars} \cup
        (IF d = 0 THEN {}
         ELSE {<<Punct("array")>> \o x \o <<Punct("endarray")>> : x \in lists(texts[d - 1])} \cup
              {<<Punct("object")>> \o x \o <<Punct("endobject")>> : x \in lists(members(texts[d - 1]))})
  IN texts[depth]

=============================================================================
