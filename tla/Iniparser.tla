----------------------------- MODULE Iniparser -----------------------------
(***************************************************************************)
(* The syntax of a line of edgebox.ini: iniparser_line (iniparser.c) with  *)
(* its sscanf formats, and what a line says, stated without them.          *)
(*                                                                         *)
(* A text is a sequence of tokens: the characters that the parser tells    *)
(* apart, one blank for all of them, and words.                            *)
(***************************************************************************)
EXTENDS Naturals, Sequences, SequencesExt

CONSTANTS Length,       \* the bytes of every token
          Lower(_)      \* a token in lower case

Token == DOMAIN Length

ASSUME TokenAssumption ==
  /\ Length \in [Token -> Nat \ {0}]
  /\ \A t \in Token : Lower(t) \in Token
  /\ "part" \in Token

Quotes == {"\"", "'"}
Remarks == {";", "#"}
Blanks == {" "}

Size(text) ==
  LET upto[k \in 0 .. Len(text)] == IF k = 0 THEN 0 ELSE upto[k - 1] + Length[text[k]]
  IN upto[Len(text)]

\* The first token of a text that is in S, or the place behind its end.
FirstIn(text, S) == Min({k \in DOMAIN text : text[k] \in S} \cup {Len(text) + 1})

Before(text, S) == SubSeq(text, 1, FirstIn(text, S) - 1)

\* Blanks at the end, and at both ends.
WithoutEnd(text) == SubSeq(text, 1, Max({k \in DOMAIN text : text[k] \notin Blanks} \cup {0}))
strstrip(text) ==
  LET inner == WithoutEnd(text)
  IN SubSeq(inner, Min({k \in DOMAIN inner : inner[k] \notin Blanks} \cup {Len(inner) + 1}), Len(inner))

Lowered(text) == [k \in DOMAIN text |-> Lower(text[k])]

\* At most len - 1 bytes of a text; of a word that is cut only "part" is known.
strlwc(text, len) ==
  LET kept == Max({k \in 0 .. Len(text) : Size(SubSeq(text, 1, k)) < len})
      whole == SubSeq(text, 1, kept)
  IN Lowered(whole) \o IF kept < Len(text) /\ Size(whole) < len - 1 THEN <<"part">> ELSE <<>>

-----------------------------------------------------------------------------
(* sscanf, for the directives of these formats.                            *)

Upto(S) == [kind |-> "set", chars |-> S, but |-> TRUE]        \* %[^...]
Of(S) == [kind |-> "set", chars |-> S, but |-> FALSE]         \* %[...]
Just(c) == [kind |-> "char", chars |-> {c}, but |-> FALSE]
White == [kind |-> "white", chars |-> Blanks, but |-> FALSE]

\* Where the tokens from the place "at" on end that a directive takes.
Past(text, at, d) ==
  LET fits(k) == (text[k] \in d.chars) # d.but
      most == IF d.kind = "char" THEN Min({at + 1, Len(text) + 1}) ELSE Len(text) + 1
  IN Min({most} \cup {k \in at .. most - 1 : ~ fits(k)})

\* A directive that takes nothing ends the scan, unless it is white space.
Directive(text, scan, d) ==
  LET past == Past(text, scan.at, d)
      takes == past > scan.at
  IN IF ~ scan.goesOn THEN scan
     ELSE [at |-> past, goesOn |-> takes \/ d.kind = "white",
           got |-> IF takes /\ d.kind = "set" THEN Append(scan.got, SubSeq(text, scan.at, past - 1)) ELSE scan.got]

\* What the conversions of a format are given.
sscanf(text, format) ==
  LET scan[i \in 0 .. Len(format)] ==
        IF i = 0 THEN [at |-> 1, goesOn |-> TRUE, got |-> <<>>] ELSE Directive(text, scan[i - 1], format[i])
  IN scan[Len(format)].got

KeyEquals == <<Upto({"="}), White, Just("="), White>>
Quoted(q) == KeyEquals \o <<Just(q), Upto({q}), Just(q)>>
Plain == KeyEquals \o <<Upto(Remarks)>>
NoValue == {KeyEquals \o <<Of(Remarks)>>, <<Upto({"="}), White, Of({"="})>>}

\* The formats for values that match a line; the first one counts.
KeyFormats(line) ==
  LET two(formats) == {f \in formats : Len(sscanf(line, f)) = 2}
      quoted == two({Quoted(q) : q \in Quotes})
  IN IF quoted # {} THEN quoted ELSE two({Plain})

\* iniparser_line.  The section is the buffer of iniparser_load: where "[" is
\* followed by "]" it keeps what it had, cut to the length of the line.
iniparser_line(input, section) ==
  LET line == strstrip(input)
      is(status) == [status |-> status, section |-> section, key |-> <<>>, value |-> <<>>]
      name == sscanf(line, <<Just("["), Upto({"]"})>>)
      key == strlwc(strstrip(Before(line, {"="})), Size(line))
      plain(value) == IF value \in {<<q, q>> : q \in Quotes} THEN <<>> ELSE value
  IN IF line = <<>> THEN is("empty")
     ELSE IF line[1] \in Remarks THEN is("comment")
     ELSE IF line[1] = "[" /\ Last(line) = "]"
          THEN [is("section") EXCEPT !.section =
                  strlwc(strstrip(IF name = <<>> THEN section ELSE name[1]), Size(line))]
     ELSE IF KeyFormats(line) # {}
          THEN LET format == CHOOSE f \in KeyFormats(line) : TRUE
                   got == sscanf(line, format)
               IN [is("value") EXCEPT !.key = key,
                     !.value = IF format = Plain THEN plain(strstrip(got[2])) ELSE got[2]]
     ELSE IF \E f \in NoValue : Len(sscanf(line, f)) = 2
          THEN [is("value") EXCEPT !.key = key]
     ELSE is("error")

-----------------------------------------------------------------------------
(* What a line says, from its first characters on.                         *)

IsNote(text) == LET t == strstrip(text) IN t = <<>> \/ t[1] \in Remarks
IsSection(text) == LET t == strstrip(text) IN ~ IsNote(t) /\ t[1] = "[" /\ Last(t) = "]"
IsEntry(text) ==
  LET t == strstrip(text) IN ~ IsNote(t) /\ ~ IsSection(t) /\ FirstIn(t, {"="}) \in 2 .. Len(t)

\* A name is what stands before the "=", and a value what is behind it: between
\* its quotes, or up to a remark.
SectionName(text) == Lowered(strstrip(Before(Tail(strstrip(text)), {"]"})))
KeyName(text) == Lowered(strstrip(Before(strstrip(text), {"="})))
ValueIn(text) ==
  LET t == strstrip(text)
      right == strstrip(SubSeq(t, FirstIn(t, {"="}) + 1, Len(t)))
      bare == strstrip(Before(right, Remarks))
  IN IF Len(right) > 1 /\ right[1] \in Quotes /\ right[2] # right[1]
     THEN Before(Tail(right), {right[1]})
     ELSE IF bare \in {<<q, q>> : q \in Quotes} THEN <<>> ELSE bare

\* iniparser_line reads a line as it says.  "[]", which says nothing of the
\* section, is read like this only where there was none.
ReadAsSaid(text) ==
  LET found == iniparser_line(text, <<>>)
  IN /\ IsNote(text) <=> found.status \in {"empty", "comment"}
     /\ IsSection(text) <=> found.status = "section"
     /\ IsEntry(text) <=> found.status = "value"
     /\ found.section = IF IsSection(text) THEN SectionName(text) ELSE <<>>
     /\ IsEntry(text) => found.key = KeyName(text) /\ found.value = ValueIn(text)

=============================================================================
