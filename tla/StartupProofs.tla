--------------------------- MODULE StartupProofs ---------------------------
(***************************************************************************)
(* Proofs about the start-up and the session behind it, for every file     *)
(* over any tokens and every size of the buffers and the dictionary:       *)
(*   - for every message and every key, the update of partly filled        *)
(*     buffers and the padding of utils_sha256_finish cut what is signed   *)
(*     into the blocks of FIPS 180-4 and RFC 2104 (HmacAsStandard);        *)
(*   - for every line, iniparser_line with its sscanf formats finds what   *)
(*     the line says (LinesAsSaid);                                        *)
(*   - however often mqtt_conn_init is called again, the session serves    *)
(*     what it says and leaks no socket, and the start-up in front of it   *)
(*     is a start of the session;                                          *)
(*   - the password is the HMAC of the credentials (PasswordSigned);       *)
(*   - strtok cuts the list of nodes at its commas (NodesListed);          *)
(*   - the configuration is what the lines of the file say, over lines     *)
(*     that go on, keys that are set again, a table that grows, hashes     *)
(*     that collide and allocations that fail (ConfigWritten).             *)
(*                                                                         *)
(* A recursive function over the places of a text is known step by step    *)
(* once one is known to exist (Iteration, in DataProofs); what goes from   *)
(* each place to the next goes for all of them (Ladder).                   *)
(***************************************************************************)
EXTENDS Startup, DataProofs

-----------------------------------------------------------------------------
(* The signature.                                                          *)

\* Places in a text, counted in blocks of 64.
LEMMA Places ==
  ASSUME NEW n \in Nat
  PROVE  /\ n \div 64 \in Nat /\ n % 64 \in 0 .. 63
         /\ n = 64 * (n \div 64) + (n % 64)
OBVIOUS

LEMMA PlacesUnique ==
  ASSUME NEW q \in Nat, NEW r \in 0 .. 63
  PROVE  (64 * q + r) \div 64 = q /\ (64 * q + r) % 64 = r
OBVIOUS

LEMMA InBlocks ==
  ASSUME NEW q \in Nat, NEW k \in 1 .. q
  PROVE  64 * (k - 1) \in Nat /\ 64 * (k - 1) + 64 <= 64 * q
OBVIOUS

\* A piece of a text: its n bytes behind the place "from".
LEMMA Piece ==
  ASSUME NEW S, NEW text \in Seq(S), NEW from \in Nat, NEW n \in Nat, from + n <= Len(text)
  PROVE  /\ SubSeq(text, from + 1, from + n) \in Seq(S)
         /\ Len(SubSeq(text, from + 1, from + n)) = n
         /\ SubSeq(text, from + 1, from + n) = [i \in 1 .. n |-> text[from + i]]
<1> DEFINE piece == SubSeq(text, from + 1, from + n)
<1>1. \A i \in from + 1 .. from + n : text[i] \in S
  BY LenProperties
<1>2. piece \in Seq(S) /\ Len(piece) = n /\ \A i \in 1 .. n : piece[i] = text[from + i]
  BY <1>1, SubSeqProperties
<1> QED BY <1>2, LenProperties

\* A byte of the front or of the back of a text.
LEMMA ConcatBytes ==
  ASSUME NEW S, NEW s \in Seq(S), NEW t \in Seq(S)
  PROVE  /\ s \o t \in Seq(S) /\ Len(s \o t) = Len(s) + Len(t) /\ Len(s) \in Nat /\ Len(t) \in Nat
         /\ \A i \in 1 .. Len(s) : (s \o t)[i] = s[i]
         /\ \A i \in 1 .. Len(t) : (s \o t)[Len(s) + i] = t[i]
<1>1. Len(s) \in Nat /\ Len(t) \in Nat
  BY LenProperties
<1>2. s \o t \in Seq(S) /\ Len(s \o t) = Len(s) + Len(t)
  BY ConcatProperties
<1>3. \A i \in 1 .. Len(s) + Len(t) : (s \o t)[i] = IF i <= Len(s) THEN s[i] ELSE t[i - Len(s)]
  BY ConcatProperties
<1>4. ASSUME NEW i \in 1 .. Len(s) PROVE (s \o t)[i] = s[i]
  BY <1>1, <1>3
<1>5. ASSUME NEW i \in 1 .. Len(t) PROVE (s \o t)[Len(s) + i] = t[i]
  <2>1. Len(s) + i \in 1 .. Len(s) + Len(t) /\ ~ (Len(s) + i <= Len(s)) /\ (Len(s) + i) - Len(s) = i
    BY <1>1
  <2> QED BY <2>1, <1>3
<1> QED BY <1>1, <1>2, <1>4, <1>5

\* The bytes of a text behind the place "from".
Bytes64(text, from) == [i \in 1 .. 64 |-> text[from + i]]

LEMMA ChoppedBlocks ==
  ASSUME NEW S, NEW text \in Seq(S), NEW q \in Nat, NEW r \in 0 .. 63, Len(text) = 64 * q + r
  PROVE  Chopped(text) = [k \in 1 .. q |-> Bytes64(text, 64 * (k - 1))]
<1>1. Len(text) \div 64 = q
  BY PlacesUnique
<1>2. ASSUME NEW k \in 1 .. q
      PROVE  SubSeq(text, 64 * (k - 1) + 1, 64 * k) = Bytes64(text, 64 * (k - 1))
  <2>1. 64 * (k - 1) \in Nat /\ 64 * (k - 1) + 64 <= Len(text) /\ 64 * k = 64 * (k - 1) + 64
    OBVIOUS
  <2>2. SubSeq(text, 64 * (k - 1) + 1, 64 * (k - 1) + 64) = [i \in 1 .. 64 |-> text[64 * (k - 1) + i]]
    BY <2>1, Piece
  <2> QED BY <2>1, <2>2 DEF Bytes64
<1> QED BY <1>1, <1>2 DEF Chopped

LEMMA WholeBlocksOf ==
  ASSUME NEW S, NEW text \in Seq(S), NEW from \in Nat, from <= Len(text)
  PROVE  WholeBlocks(text, from) =
           [k \in 1 .. (Len(text) - from) \div 64 |-> Bytes64(text, from + 64 * (k - 1))]
<1> DEFINE q == (Len(text) - from) \div 64
<1>1. Len(text) - from \in Nat /\ Len(text) \in Nat
  BY LenProperties
<1>2. q \in Nat /\ Len(text) - from >= 64 * q
  BY <1>1, Places
<1> HIDE DEF q
<1>3. ASSUME NEW k \in 1 .. q
      PROVE  SubSeq(text, from + 64 * (k - 1) + 1, from + 64 * k) = Bytes64(text, from + 64 * (k - 1))
  <2> DEFINE b == from + 64 * (k - 1)
  <2>1. b \in Nat /\ b + 64 <= Len(text) /\ from + 64 * k = b + 64
    BY <1>1, <1>2
  <2> HIDE DEF b
  <2>2. SubSeq(text, b + 1, b + 64) = [i \in 1 .. 64 |-> text[b + i]]
    BY <2>1, Piece
  <2> QED BY <2>1, <2>2 DEF Bytes64, b
<1> QED BY <1>3 DEF WholeBlocks, q

LEMMA LeftOverOf ==
  ASSUME NEW S, NEW text \in Seq(S), NEW from \in Nat, from <= Len(text)
  PROVE  /\ LeftOver(text, from) \in Seq(S)
         /\ Len(LeftOver(text, from)) = (Len(text) - from) % 64
         /\ \A i \in 1 .. (Len(text) - from) % 64 :
              LeftOver(text, from)[i] = text[(Len(text) - ((Len(text) - from) % 64)) + i]
<1> DEFINE r == (Len(text) - from) % 64
           b == Len(text) - r
<1>1. Len(text) - from \in Nat /\ Len(text) \in Nat
  BY LenProperties
<1>2. r \in Nat /\ r <= Len(text) - from
  BY <1>1, Places
<1> HIDE DEF r
<1>3. b \in Nat /\ b + r = Len(text) /\ b + r <= Len(text) /\ Len(text) + 1 - r = b + 1
  BY <1>1, <1>2
<1> HIDE DEF b
<1>4. LeftOver(text, from) = SubSeq(text, b + 1, b + r)
  <2>1. LeftOver(text, from) = SubSeq(text, Len(text) + 1 - r, Len(text))
    BY DEF LeftOver, r
  <2> QED BY <1>3, <2>1
<1>5. /\ SubSeq(text, b + 1, b + r) \in Seq(S) /\ Len(SubSeq(text, b + 1, b + r)) = r
      /\ SubSeq(text, b + 1, b + r) = [i \in 1 .. r |-> text[b + i]]
  BY <1>2, <1>3, Piece
<1> QED BY <1>4, <1>5 DEF b, r

\* A function on 1 .. n is a sequence.
LEMMA FunctionIsSeq ==
  ASSUME NEW S, NEW n \in Nat, NEW f \in [1 .. n -> S]
  PROVE  f \in Seq(S) /\ Len(f) = n
OBVIOUS

\* A block of a text that lies in one part of it.
LEMMA BlockInFront ==
  ASSUME NEW S, NEW m \in Seq(S), NEW input \in Seq(S), NEW from \in Nat, from + 64 <= Len(m)
  PROVE  Bytes64(m \o input, from) = Bytes64(m, from) /\ Bytes64(m, from) \in [1 .. 64 -> S]
<1>1. ASSUME NEW i \in 1 .. 64 PROVE (m \o input)[from + i] = m[from + i] /\ m[from + i] \in S
  <2>1. from + i \in 1 .. Len(m)
    BY LenProperties
  <2> QED BY <2>1, ConcatBytes, LenProperties
<1> QED BY <1>1 DEF Bytes64

LEMMA BlockBehind ==
  ASSUME NEW S, NEW m \in Seq(S), NEW input \in Seq(S), NEW from \in Nat, from + 64 <= Len(input)
  PROVE  Bytes64(m \o input, Len(m) + from) = Bytes64(input, from) /\ Bytes64(input, from) \in [1 .. 64 -> S]
<1>1. ASSUME NEW i \in 1 .. 64 PROVE (m \o input)[(Len(m) + from) + i] = input[from + i] /\ input[from + i] \in S
  <2>1. from + i \in 1 .. Len(input) /\ (Len(m) + from) + i = Len(m) + (from + i)
    BY ConcatBytes
  <2> QED BY <2>1, ConcatBytes, LenProperties
<1> QED BY <1>1 DEF Bytes64

\* The context has taken the text m: its blocks are those of m, and the buffer
\* begins with what is left over.
Context(m, buffer) == [total |-> Len(m), buffer |-> buffer, blocks |-> Chopped(m)]
LeftIn(buffer, m, q, r) == \A i \in 1 .. r : buffer[i] = m[64 * q + i]
BufferBegins(buffer, m) ==
  /\ DOMAIN buffer = 1 .. 64
  /\ \E q \in Nat, r \in 0 .. 63 : Len(m) = 64 * q + r /\ LeftIn(buffer, m, q, r)
Holds(ctx, m) == \E buffer : BufferBegins(buffer, m) /\ ctx = Context(m, buffer)

\* Two rows of blocks in a row.
Follow(f, g, h, q, a) ==
  /\ h = [k \in 1 .. q + a |-> h[k]]
  /\ \A k \in 1 .. q : h[k] = f[k]
  /\ \A k \in 1 .. a : h[q + k] = g[k]

LEMMA RowsJoined ==
  ASSUME NEW T, NEW q \in Nat, NEW a \in Nat, NEW f \in [1 .. q -> T], NEW g \in [1 .. a -> T],
         NEW h, Follow(f, g, h, q, a)
  PROVE  f \o g = h
<1> DEFINE c == f \o g
<1>1. f \in Seq(T) /\ g \in Seq(T) /\ Len(f) = q /\ Len(g) = a
  BY FunctionIsSeq
<1>2. /\ c \in Seq(T) /\ Len(c) = Len(f) + Len(g)
      /\ \A k \in 1 .. Len(f) + Len(g) : c[k] = IF k <= Len(f) THEN f[k] ELSE g[k - Len(f)]
  BY ONLY <1>1, ConcatProperties
<1> HIDE DEF c
<1>3. c = [k \in 1 .. q + a |-> c[k]]
  BY ONLY <1>1, <1>2, LenProperties
<1>4. ASSUME NEW k \in 1 .. q + a PROVE h[k] = c[k]
  <2>1. c[k] = IF k <= q THEN f[k] ELSE g[k - q]
    BY ONLY k \in 1 .. q + a, <1>1, <1>2
  <2>2. CASE k <= q
    <3>1. k \in 1 .. q
      BY ONLY k \in 1 .. q + a, q \in Nat, a \in Nat, <2>2
    <3> QED BY ONLY <2>1, <2>2, <3>1, Follow(f, g, h, q, a) DEF Follow
  <2>3. CASE ~ (k <= q)
    <3>1. k - q \in 1 .. a /\ q + (k - q) = k
      BY ONLY k \in 1 .. q + a, q \in Nat, a \in Nat, <2>3
    <3>2. h[q + (k - q)] = g[k - q]
      BY ONLY <3>1, Follow(f, g, h, q, a) DEF Follow
    <3> QED BY ONLY <2>1, <2>3, <3>1, <3>2
  <2> QED BY ONLY <2>2, <2>3
<1>5. h = [k \in 1 .. q + a |-> h[k]]
  BY DEF Follow
<1>6. h = c
  BY ONLY <1>3, <1>4, <1>5
<1> QED BY <1>6 DEF c

\* An update that completes no block in the buffer.
LEMMA UpdateBehind ==
  ASSUME NEW S, NEW m \in Seq(S), NEW input \in Seq(S), NEW buffer, DOMAIN buffer = 1 .. 64,
         NEW q \in Nat, NEW r \in 0 .. 63, Len(m) = 64 * q + r,
         LeftIn(buffer, m, q, r),
         r = 0 \/ Len(input) < 64 - r
  PROVE  /\ BufferBegins(Copied(buffer, r, LeftOver(input, 0)), m \o input)
         /\ Chopped(m) \o WholeBlocks(input, 0) = Chopped(m \o input)
<1> DEFINE n == Len(input)
           a == n \div 64
           b == n % 64
           t == m \o input
           rest == LeftOver(input, 0)
<1>1. n \in Nat /\ a \in Nat /\ b \in 0 .. 63 /\ n = 64 * a + b
  BY ConcatBytes, Places
<1> HIDE DEF a, b
<1>0. /\ t \in Seq(S) /\ Len(t) = Len(m) + n
      /\ \A i \in 1 .. Len(m) : t[i] = m[i]
      /\ \A i \in 1 .. n : t[Len(m) + i] = input[i]
  BY ONLY m \in Seq(S), input \in Seq(S), ConcatBytes DEF n, t
<1>2. t \in Seq(S) /\ Len(t) = 64 * q + r + n /\ (r = 0 \/ (a = 0 /\ b = n)) /\ r + b \in 0 .. 63
  <2>1. r = 0 \/ n < 64 - r
    BY DEF n
  <2> HIDE DEF n, t
  <2> QED BY <1>0, <1>1, <2>1
<1>3. Len(t) = 64 * (q + a) + (r + b) /\ q + a \in Nat
  BY <1>1, <1>2
<1>4. /\ WholeBlocks(input, 0) = [k \in 1 .. a |-> Bytes64(input, 64 * (k - 1))]
      /\ Len(rest) = b /\ \A i \in 1 .. b : rest[i] = input[64 * a + i]
  <2>1. 0 <= Len(input) /\ Len(input) - 0 = n
    BY <1>1 DEF n
  <2>2. WholeBlocks(input, 0) = [k \in 1 .. (Len(input) - 0) \div 64 |-> Bytes64(input, 0 + 64 * (k - 1))]
    BY <2>1, WholeBlocksOf
  <2>3. Len(LeftOver(input, 0)) = (Len(input) - 0) % 64
    BY <2>1, LeftOverOf
  <2>4. ASSUME NEW i \in 1 .. (Len(input) - 0) % 64
        PROVE  LeftOver(input, 0)[i] = input[(Len(input) - ((Len(input) - 0) % 64)) + i]
    BY <2>1, LeftOverOf
  <2>5. \A i \in 1 .. b : rest[i] = input[(n - b) + i]
    BY <2>1, <2>4 DEF n, b, rest
  <2>6. n - b = 64 * a
    BY <1>1
  <2>7. ASSUME NEW k \in 1 .. a PROVE 0 + 64 * (k - 1) = 64 * (k - 1)
    BY <1>1
  <2>8. WholeBlocks(input, 0) = [k \in 1 .. a |-> Bytes64(input, 64 * (k - 1))]
    BY <2>1, <2>2, <2>7 DEF a
  <2> QED BY <2>1, <2>3, <2>5, <2>6, <2>8 DEF b, rest
<1> HIDE DEF n, t, rest
<1>5. ASSUME NEW i \in 1 .. r + b
      PROVE  Copied(buffer, r, rest)[i] = t[64 * (q + a) + i]
  <2>0. i \in 1 .. 64
    BY <1>1, <1>2
  <2>1. CASE i <= r
    <3>1. a = 0 /\ 64 * (q + a) + i = 64 * q + i /\ 64 * q + i \in 1 .. Len(m)
      BY <1>1, <1>2, <2>1
    <3>2. Copied(buffer, r, rest)[i] = buffer[i]
      <4>1. ~ (i > r)
        BY <2>0, <2>1
      <4> QED BY <2>0, <4>1 DEF Copied
    <3>3. t[64 * q + i] = m[64 * q + i]
      BY ONLY <3>1, <1>0
    <3>4. buffer[i] = m[64 * q + i]
      <4>1. i \in 1 .. r
        BY <2>1, <1>1
      <4> QED BY <4>1 DEF LeftIn
    <3> QED BY <3>1, <3>2, <3>3, <3>4
  <2>2. CASE i > r
    <3>1. i - r \in 1 .. b /\ 64 * a + (i - r) \in 1 .. n /\ 64 * (q + a) + i = Len(m) + (64 * a + (i - r))
      BY <1>1, <1>2, <2>2
    <3>2. Copied(buffer, r, rest)[i] = rest[i - r]
      <4>1. i <= r + Len(rest)
        BY <1>4, <1>1
      <4> QED BY <2>0, <2>2, <4>1 DEF Copied
    <3>3. t[Len(m) + (64 * a + (i - r))] = input[64 * a + (i - r)]
      BY ONLY <3>1, <1>0
    <3>4. rest[i - r] = input[64 * a + (i - r)]
      BY <3>1, <1>4
    <3> QED BY <3>1, <3>2, <3>3, <3>4
  <2> QED BY <2>1, <2>2, <1>1
<1>6. DOMAIN Copied(buffer, r, rest) = 1 .. 64
  BY DEF Copied
<1>7. BufferBegins(Copied(buffer, r, rest), t)
  <2>1. LeftIn(Copied(buffer, r, rest), t, q + a, r + b)
    BY <1>5 DEF LeftIn
  <2> QED BY <1>2, <1>3, <1>6, <2>1 DEF BufferBegins
<1>8. Chopped(m) \o WholeBlocks(input, 0) = Chopped(t)
  <2> DEFINE f == [k \in 1 .. q |-> Bytes64(m, 64 * (k - 1))]
             g == [k \in 1 .. a |-> Bytes64(input, 64 * (k - 1))]
             h == [k \in 1 .. q + a |-> Bytes64(t, 64 * (k - 1))]
  <2>1. Chopped(m) = f /\ Chopped(t) = h
    <3>1. Chopped(m) = f
      BY ONLY m \in Seq(S), q \in Nat, r \in 0 .. 63, Len(m) = 64 * q + r, ChoppedBlocks
    <3>2. Chopped(t) = h
      BY ONLY <1>2, <1>3, ChoppedBlocks
    <3> QED BY <3>1, <3>2
  <2>2. ASSUME NEW k \in 1 .. q
        PROVE  h[k] = f[k] /\ f[k] \in [1 .. 64 -> S]
    <3>1. 64 * (k - 1) \in Nat /\ 64 * (k - 1) + 64 <= 64 * q /\ k \in 1 .. q + a
      BY <1>1, InBlocks
    <3>2. 64 * (k - 1) + 64 <= Len(m)
      BY <3>1
    <3>3. Bytes64(t, 64 * (k - 1)) = Bytes64(m, 64 * (k - 1)) /\ Bytes64(m, 64 * (k - 1)) \in [1 .. 64 -> S]
      BY <3>1, <3>2, BlockInFront DEF t
    <3> QED BY <3>1, <3>3
  <2>3. ASSUME NEW j \in 1 .. a
        PROVE  h[q + j] = g[j] /\ g[j] \in [1 .. 64 -> S]
    <3> DEFINE c == 64 * (j - 1)
    <3>1. c \in Nat /\ c + 64 <= Len(input) /\ q + j \in 1 .. q + a /\ 64 * ((q + j) - 1) = Len(m) + c
      BY <1>1, <1>2 DEF n
    <3> HIDE DEF c
    <3>2. Bytes64(t, Len(m) + c) = Bytes64(input, c) /\ Bytes64(input, c) \in [1 .. 64 -> S]
      BY ONLY m \in Seq(S), input \in Seq(S), <3>1, BlockBehind DEF t
    <3> QED BY <3>1, <3>2 DEF c
  <2>4. f \in [1 .. q -> [1 .. 64 -> S]] /\ g \in [1 .. a -> [1 .. 64 -> S]]
    <3>1. f \in [1 .. q -> [1 .. 64 -> S]]
      BY <2>2
    <3>2. g \in [1 .. a -> [1 .. 64 -> S]]
      BY <2>3
    <3> QED BY <3>1, <3>2
  <2>5. h = [k \in 1 .. q + a |-> h[k]]
    OBVIOUS
  <2> DEFINE T == [1 .. 64 -> S]
  <2>6. q \in Nat /\ a \in Nat
    BY <1>1
  <2> HIDE DEF f, g, h, T
  <2>7. f \in [1 .. q -> T] /\ g \in [1 .. a -> T]
    BY <2>4 DEF T
  <2>8. f \o g = h
    <3>1. Follow(f, g, h, q, a)
      BY ONLY <2>2, <2>3, <2>5 DEF Follow
    <3> QED BY ONLY <2>6, <2>7, <3>1, RowsJoined, Zenon
  <2> QED BY <1>4, <2>1, <2>8 DEF g
<1> QED BY <1>7, <1>8 DEF t, rest

\* The block that an update completes in the buffer.
Joins(buffer, r, input, fill, block) == Copied(buffer, r, SubSeq(input, 1, fill)) = block

LEMMA FilledBlock ==
  ASSUME NEW S, NEW m \in Seq(S), NEW input \in Seq(S), NEW buffer, DOMAIN buffer = 1 .. 64,
         NEW q \in Nat, NEW r \in 1 .. 63, NEW fill \in 1 .. 63, r + fill = 64, Len(m) = 64 * q + r,
         LeftIn(buffer, m, q, r),
         Len(input) >= fill
  PROVE  Joins(buffer, r, input, fill, Bytes64(m \o input, 64 * q))
<1> DEFINE part == SubSeq(input, 1, fill)
           t == m \o input
<1>1. fill \in 1 .. 63 /\ r + fill = 64 /\ Len(input) >= fill /\ Len(input) \in Nat
  BY LenProperties
<1>2. Len(part) = fill /\ part = [i \in 1 .. fill |-> input[i]]
  <2>1. \A i \in 1 .. fill : input[i] \in S
    BY <1>1, LenProperties
  <2>2. part \in Seq(S) /\ Len(part) = fill /\ \A i \in 1 .. fill : part[i] = input[i]
    BY <1>1, <2>1, SubSeqProperties
  <2> QED BY <2>2, LenProperties
<1>0. /\ \A i \in 1 .. Len(m) : t[i] = m[i]
      /\ \A i \in 1 .. Len(input) : t[Len(m) + i] = input[i]
  BY ONLY m \in Seq(S), input \in Seq(S), ConcatBytes DEF t
<1> HIDE DEF part, t
<1>3. ASSUME NEW i \in 1 .. 64
      PROVE  Copied(buffer, r, part)[i] = t[64 * q + i]
  <2>1. CASE i <= r
    <3>1. 64 * q + i \in 1 .. Len(m) /\ i \in 1 .. r /\ ~ (i > r)
      BY <2>1
    <3>2. Copied(buffer, r, part)[i] = buffer[i]
      BY <3>1 DEF Copied
    <3>3. t[64 * q + i] = m[64 * q + i]
      BY ONLY <3>1, <1>0
    <3> QED BY <3>1, <3>2, <3>3 DEF LeftIn
  <2>2. CASE i > r
    <3>1. i - r \in 1 .. fill /\ i <= r + fill
      BY <1>1, <2>2
    <3>4. i - r \in 1 .. Len(input) /\ 64 * q + i = Len(m) + (i - r)
      BY <1>1, <3>1
    <3>2. Copied(buffer, r, part)[i] = part[i - r]
      BY <1>2, <2>2, <3>1 DEF Copied
    <3>3. t[Len(m) + (i - r)] = input[i - r]
      BY ONLY <3>4, <1>0
    <3> QED BY <3>1, <3>2, <3>3, <3>4, <1>2
  <2> QED BY <2>1, <2>2
<1>4. Copied(buffer, r, part) = [i \in 1 .. 64 |-> Copied(buffer, r, part)[i]]
  BY DEF Copied
<1> QED BY <1>3, <1>4 DEF Bytes64, part, t, Joins

\* An update that completes one.
LEMMA UpdateFills ==
  ASSUME NEW S, NEW m \in Seq(S), NEW input \in Seq(S), NEW fill \in 1 .. 63,
         NEW q \in Nat, Len(m) = 64 * q + (64 - fill), Len(input) >= fill
  PROVE  /\ BufferBegins(Copied(Bytes64(m \o input, 64 * q), 0, LeftOver(input, fill)), m \o input)
         /\ Append(Chopped(m), Bytes64(m \o input, 64 * q)) \o WholeBlocks(input, fill) = Chopped(m \o input)
<1> DEFINE n == Len(input)
           a == (n - fill) \div 64
           b == (n - fill) % 64
           t == m \o input
           block == Bytes64(t, 64 * q)
           rest == LeftOver(input, fill)
<1>1. n \in Nat /\ a \in Nat /\ b \in 0 .. 63 /\ n = fill + 64 * a + b
  <2>1. n \in Nat /\ n - fill \in Nat
    BY LenProperties
  <2> HIDE DEF n
  <2>2. (n - fill) \div 64 \in Nat /\ (n - fill) % 64 \in 0 .. 63
        /\ n - fill = 64 * ((n - fill) \div 64) + ((n - fill) % 64)
    BY <2>1, Places
  <2> QED BY <2>1, <2>2
<1> HIDE DEF a, b
<1>2. t \in Seq(S) /\ Len(t) = Len(m) + n /\ \A i \in 1 .. n : t[Len(m) + i] = input[i]
  BY ONLY m \in Seq(S), input \in Seq(S), ConcatBytes DEF n, t
<1> HIDE DEF t
<1>3. Len(t) = 64 * (q + 1 + a) + b /\ q + 1 + a \in Nat
  BY <1>1, <1>2
<1>4. /\ WholeBlocks(input, fill) = [k \in 1 .. a |-> Bytes64(input, fill + 64 * (k - 1))]
      /\ Len(rest) = b /\ \A i \in 1 .. b : rest[i] = input[fill + 64 * a + i]
  <2>1. fill \in Nat /\ fill <= Len(input)
    OBVIOUS
  <2>2. WholeBlocks(input, fill) = [k \in 1 .. (Len(input) - fill) \div 64 |-> Bytes64(input, fill + 64 * (k - 1))]
    BY <2>1, WholeBlocksOf
  <2>3. Len(LeftOver(input, fill)) = (Len(input) - fill) % 64
    BY <2>1, LeftOverOf
  <2>4. ASSUME NEW i \in 1 .. (Len(input) - fill) % 64
        PROVE  LeftOver(input, fill)[i] = input[(Len(input) - ((Len(input) - fill) % 64)) + i]
    BY <2>1, LeftOverOf
  <2>5. \A i \in 1 .. b : rest[i] = input[(n - b) + i]
    BY <2>4 DEF n, b, rest
  <2>6. n - b = fill + 64 * a
    BY <1>1
  <2> QED BY <2>2, <2>3, <2>5, <2>6 DEF a, b, rest, n
<1> HIDE DEF n, rest
<1>5. DOMAIN block = 1 .. 64
  BY DEF Bytes64
<1> HIDE DEF block
<1>6. ASSUME NEW i \in 1 .. b
      PROVE  Copied(block, 0, rest)[i] = t[64 * (q + 1 + a) + i]
  <2>1. i \in 1 .. 64 /\ i > 0 /\ i <= 0 + Len(rest) /\ i - 0 = i
    BY <1>1, <1>4
  <2>2. Copied(block, 0, rest)[i] = rest[i]
    BY <2>1, <1>5 DEF Copied
  <2>3. fill + 64 * a + i \in 1 .. Len(input) /\ 64 * (q + 1 + a) + i = Len(m) + (fill + 64 * a + i)
    BY <1>1, <1>3 DEF n
  <2>4. t[Len(m) + (fill + 64 * a + i)] = input[fill + 64 * a + i]
    BY ONLY <2>3, <1>2 DEF n
  <2> QED BY <1>4, <2>2, <2>3, <2>4
<1>7. BufferBegins(Copied(block, 0, rest), t)
  <2>1. DOMAIN Copied(block, 0, rest) = 1 .. 64
    BY <1>5 DEF Copied
  <2>2. LeftIn(Copied(block, 0, rest), t, q + 1 + a, b)
    BY <1>6 DEF LeftIn
  <2> QED BY <1>1, <1>3, <2>1, <2>2 DEF BufferBegins
<1>8. Append(Chopped(m), block) \o WholeBlocks(input, fill) = Chopped(t)
  <2> DEFINE T == [1 .. 64 -> S]
             f == [k \in 1 .. q |-> Bytes64(m, 64 * (k - 1))]
             g == [k \in 1 .. a |-> Bytes64(input, fill + 64 * (k - 1))]
             h == [k \in 1 .. q + 1 + a |-> Bytes64(t, 64 * (k - 1))]
             e == Append(f, block)
  <2>1. Chopped(m) = f /\ Chopped(t) = h
    <3>1. 64 - fill \in 0 .. 63
      OBVIOUS
    <3>2. Chopped(m) = f
      BY ONLY m \in Seq(S), q \in Nat, Len(m) = 64 * q + (64 - fill), <3>1, ChoppedBlocks
    <3>3. Chopped(t) = h
      BY ONLY <1>1, <1>2, <1>3, ChoppedBlocks
    <3> QED BY <3>2, <3>3
  <2>2. ASSUME NEW k \in 1 .. q
        PROVE  h[k] = f[k] /\ f[k] \in T
    <3>1. 64 * (k - 1) \in Nat /\ 64 * (k - 1) + 64 <= 64 * q /\ k \in 1 .. q + 1 + a
      BY <1>1, InBlocks
    <3>2. 64 * (k - 1) + 64 <= Len(m)
      BY <3>1
    <3>3. Bytes64(t, 64 * (k - 1)) = Bytes64(m, 64 * (k - 1)) /\ Bytes64(m, 64 * (k - 1)) \in [1 .. 64 -> S]
      BY <3>1, <3>2, BlockInFront DEF t
    <3> QED BY <3>1, <3>3
  <2>3. ASSUME NEW j \in 1 .. a
        PROVE  h[q + 1 + j] = g[j] /\ g[j] \in T
    <3> DEFINE c == fill + 64 * (j - 1)
    <3>1. c \in Nat /\ c + 64 <= Len(input) /\ q + 1 + j \in 1 .. q + 1 + a /\ 64 * ((q + 1 + j) - 1) = Len(m) + c
      BY <1>1 DEF n
    <3> HIDE DEF c
    <3>2. Bytes64(t, Len(m) + c) = Bytes64(input, c) /\ Bytes64(input, c) \in [1 .. 64 -> S]
      BY ONLY m \in Seq(S), input \in Seq(S), <3>1, BlockBehind DEF t
    <3> QED BY <3>1, <3>2 DEF c
  <2>4. h[q + 1] = block /\ block \in T
    <3>1. q + 1 \in 1 .. q + 1 + a /\ 64 * ((q + 1) - 1) = 64 * q
      BY <1>1
    <3>2. ASSUME NEW i \in 1 .. 64 PROVE t[64 * q + i] \in S
      BY <1>1, <1>2, <1>3, LenProperties
    <3> QED BY <3>1, <3>2 DEF block, Bytes64
  <2>5. h = [k \in 1 .. q + 1 + a |-> h[k]]
    OBVIOUS
  <2>6. f \in [1 .. q -> T] /\ g \in [1 .. a -> T]
    <3>1. f \in [1 .. q -> T]
      BY <2>2
    <3>2. g \in [1 .. a -> T]
      BY <2>3
    <3> QED BY <3>1, <3>2
  <2> HIDE DEF T, f, g, h
  <2>7. f \in Seq(T) /\ g \in Seq(T) /\ Len(f) = q /\ Len(g) = a
    BY <1>1, <2>6, FunctionIsSeq
  <2>8. e \in Seq(T) /\ Len(e) = q + 1 /\ (\A k \in 1 .. q : e[k] = f[k]) /\ e[q + 1] = block
    BY ONLY q \in Nat, <2>4, <2>7
  <2> HIDE DEF e
  <2>9. e \in [1 .. q + 1 -> T] /\ g \in [1 .. a -> T] /\ q + 1 \in Nat /\ a \in Nat
    <3>1. e \in [1 .. Len(e) -> T]
      BY ONLY <2>8, LenProperties
    <3>2. q + 1 \in Nat
      BY ONLY q \in Nat
    <3> QED BY ONLY <1>1, <2>6, <2>8, <3>1, <3>2
  <2>10. ASSUME NEW k \in 1 .. q + 1 PROVE h[k] = e[k]
    <3>1. k \in 1 .. q \/ k = q + 1
      OBVIOUS
    <3> QED BY <2>2, <2>4, <2>8, <3>1
  <2>11. h = [k \in 1 .. (q + 1) + a |-> h[k]] /\ \A k \in 1 .. a : h[(q + 1) + k] = g[k]
    BY <2>3, <2>5
  <2>12. e \o g = h
    <3>1. Follow(e, g, h, q + 1, a)
      BY ONLY <2>10, <2>11 DEF Follow
    <3> QED BY ONLY <2>9, <3>1, RowsJoined, Zenon
  <2> QED BY <1>4, <2>1, <2>12 DEF g, e
<1> QED BY <1>7, <1>8 DEF t, rest, block

LEMMA ProcessBuffer ==
  ASSUME NEW total, NEW buffer, NEW blocks, NEW block
  PROVE  [utils_sha256_process([total |-> total, buffer |-> buffer, blocks |-> blocks], block) EXCEPT !.buffer = block]
           = [total |-> total, buffer |-> block, blocks |-> Append(blocks, block)]
<1>1. utils_sha256_process([total |-> total, buffer |-> buffer, blocks |-> blocks], block)
        = [total |-> total, buffer |-> buffer, blocks |-> Append(blocks, block)]
  BY DEF utils_sha256_process
<1>2. [[total |-> total, buffer |-> buffer, blocks |-> Append(blocks, block)] EXCEPT !.buffer = block]
        = [total |-> total, buffer |-> block, blocks |-> Append(blocks, block)]
  OBVIOUS
<1> QED BY <1>1, <1>2, Zenon

\* An update takes its input behind what the context has taken.
LEMMA UpdateHolds ==
  ASSUME NEW S, NEW m \in Seq(S), NEW input \in Seq(S), NEW ctx, Holds(ctx, m)
  PROVE  Holds(utils_sha256_update(ctx, input), m \o input)
<1>1. PICK buffer : BufferBegins(buffer, m) /\ ctx = Context(m, buffer)
  BY DEF Holds
<1>2. PICK q \in Nat, r \in 0 .. 63 : Len(m) = 64 * q + r /\ LeftIn(buffer, m, q, r)
  BY <1>1 DEF BufferBegins
<1>3. DOMAIN buffer = 1 .. 64
  BY <1>1 DEF BufferBegins
<1>4. Len(m) % 64 = r
  BY <1>2, PlacesUnique
<1>5. Len(m \o input) = Len(m) + Len(input) /\ Len(input) \in Nat
  BY ConcatProperties, LenProperties
<1> DEFINE fill == 64 - r
           block == Copied(buffer, r, SubSeq(input, 1, fill))
           total == Len(m) + Len(input)
           counted == [total |-> total, buffer |-> buffer, blocks |-> Chopped(m)]
<1>8. ctx.total = Len(m) /\ ctx.buffer = buffer /\ [ctx EXCEPT !.total = @ + Len(input)] = counted
  BY <1>1 DEF Context
<1>6. CASE r > 0 /\ Len(input) >= fill
  <2>1. utils_sha256_update(ctx, input) =
          [total |-> Len(m) + Len(input),
           buffer |-> Copied(block, 0, LeftOver(input, fill)),
           blocks |-> Append(Chopped(m), block) \o WholeBlocks(input, fill)]
    <3> DEFINE filled == [total |-> total, buffer |-> block, blocks |-> Append(Chopped(m), block)]
    <3>1. [utils_sha256_process(counted, block) EXCEPT !.buffer = block] = filled
      <4> HIDE DEF block, total
      <4> QED BY ProcessBuffer
    <3>2. utils_sha256_update(ctx, input) =
            [filled EXCEPT !.blocks = @ \o WholeBlocks(input, fill), !.buffer = Copied(@, 0, LeftOver(input, fill))]
      <4> HIDE DEF filled, counted, block
      <4> QED BY <1>4, <1>6, <1>8, <3>1 DEF utils_sha256_update, block
    <3> QED BY <3>2
  <2>2. block = Bytes64(m \o input, 64 * q)
    <3>1. r \in 1 .. 63 /\ fill \in 1 .. 63 /\ r + fill = 64 /\ Len(input) >= fill
      BY <1>6
    <3> HIDE DEF fill
    <3>2. Joins(buffer, r, input, fill, Bytes64(m \o input, 64 * q))
      BY <1>2, <1>3, <3>1, FilledBlock
    <3> QED BY <3>2 DEF Joins
  <2>3. fill \in 1 .. 63 /\ Len(m) = 64 * q + (64 - fill) /\ Len(input) >= fill
    BY <1>2, <1>6
  <2> HIDE DEF fill, block
  <2>4. /\ BufferBegins(Copied(Bytes64(m \o input, 64 * q), 0, LeftOver(input, fill)), m \o input)
        /\ Append(Chopped(m), Bytes64(m \o input, 64 * q)) \o WholeBlocks(input, fill) = Chopped(m \o input)
    BY <2>3, UpdateFills
  <2> QED BY <1>5, <2>1, <2>2, <2>4 DEF Holds, Context
<1>7. CASE ~ (r > 0 /\ Len(input) >= fill)
  <2>1. utils_sha256_update(ctx, input) =
          [total |-> Len(m) + Len(input),
           buffer |-> Copied(buffer, r, LeftOver(input, 0)),
           blocks |-> Chopped(m) \o WholeBlocks(input, 0)]
    <3>1. utils_sha256_update(ctx, input) =
            [counted EXCEPT !.blocks = @ \o WholeBlocks(input, 0), !.buffer = Copied(@, r, LeftOver(input, 0))]
      <4> HIDE DEF counted
      <4> QED BY <1>4, <1>7, <1>8 DEF utils_sha256_update
    <3> QED BY <3>1
  <2>2. r = 0 \/ Len(input) < 64 - r
    BY <1>5, <1>7
  <2>3. /\ BufferBegins(Copied(buffer, r, LeftOver(input, 0)), m \o input)
        /\ Chopped(m) \o WholeBlocks(input, 0) = Chopped(m \o input)
    BY <1>2, <1>3, <2>2, UpdateBehind
  <2> QED BY <1>5, <2>1, <2>3 DEF Holds, Context
<1> QED BY <1>6, <1>7

\* The zeros behind the byte 0x80 in the padding.
LEMMA ZerosOfPadding ==
  ASSUME NEW n \in Nat
  PROVE  (CHOOSE k \in 0 .. 63 : (n + 1 + k + 8) % 64 = 0) = PadLength(n % 64) - 1
         /\ PadLength(n % 64) - 1 \in 0 .. 63
<1> DEFINE q == n \div 64
           r == n % 64
           z == IF r < 56 THEN 55 - r ELSE 119 - r
<1>1. q \in Nat /\ r \in 0 .. 63 /\ n = 64 * q + r
  BY Places
<1> HIDE DEF q, r
<1>2. z \in 0 .. 63 /\ PadLength(r) - 1 = z
  BY <1>1 DEF PadLength
<1>3. (n + 1 + z + 8) % 64 = 0
  <2>1. CASE r < 56
    <3>1. n + 1 + z + 8 = 64 * (q + 1) + 0
      BY <1>1, <2>1
    <3>2. q + 1 \in Nat /\ 0 \in 0 .. 63
      BY ONLY <1>1
    <3> QED BY ONLY <3>1, <3>2, PlacesUnique
  <2>2. CASE ~ (r < 56)
    <3>1. n + 1 + z + 8 = 64 * (q + 2) + 0
      BY <1>1, <2>2
    <3>2. q + 2 \in Nat /\ 0 \in 0 .. 63
      BY ONLY <1>1
    <3> QED BY ONLY <3>1, <3>2, PlacesUnique
  <2> QED BY <2>1, <2>2
<1>4. ASSUME NEW k \in 0 .. 63, (n + 1 + k + 8) % 64 = 0
      PROVE  k = z
  <2> DEFINE p == (n + 1 + k + 8) \div 64
  <2>1. p \in Nat /\ n + 1 + k + 8 = 64 * p
    BY <1>4, Places
  <2> HIDE DEF p
  <2>2. 64 * (p - q) = r + 9 + k
    BY <1>1, <2>1
  <2>3. p - q = 1 \/ p - q = 2
    BY <1>1, <2>1, <2>2
  <2> QED BY <1>1, <2>2, <2>3
<1> HIDE DEF z
<1>5. (CHOOSE k \in 0 .. 63 : (n + 1 + k + 8) % 64 = 0) = z
  BY <1>2, <1>3, <1>4
<1> QED BY <1>2, <1>5 DEF r

\* A set that has every byte of a constant.
Bytewise(S) == \A v \in 0 .. 255 : Literal(v) \in S

\* The bytes of a 32-bit word.
LEMMA WordOfZero == PUT_UINT32_BE(0) = Zeros(4)
<1>1. PUT_UINT32_BE(0) = <<Literal(0), Literal(0), Literal(0), Literal(0)>>
  BY SMT DEF PUT_UINT32_BE
<1> QED BY <1>1 DEF Zeros

LEMMA WordBytesOf ==
  ASSUME NEW S, Bytewise(S), NEW n \in Nat
  PROVE  PUT_UINT32_BE(n) \in Seq(S)
<1>1. /\ n % 256 \in 0 .. 255 /\ (n \div 256) % 256 \in 0 .. 255
      /\ (n \div 65536) % 256 \in 0 .. 255 /\ (n \div 16777216) % 256 \in 0 .. 255
  BY SMT
<1>2. /\ Literal(n % 256) \in S /\ Literal((n \div 256) % 256) \in S
      /\ Literal((n \div 65536) % 256) \in S /\ Literal((n \div 16777216) % 256) \in S
  BY <1>1, SMT DEF Bytewise
<1> QED BY <1>2, SMT DEF PUT_UINT32_BE

\* A length whose bits a 32-bit word can count.
FitsWord(n) == n < WordBytes

\* Two texts in a row; the provers would take \o apart.
Together(s, t) == s \o t

LEMMA TogetherProperties ==
  ASSUME NEW S, NEW s \in Seq(S), NEW t \in Seq(S)
  PROVE  /\ Together(s, t) \in Seq(S) /\ Len(Together(s, t)) = Len(s) + Len(t)
         /\ \A i \in 1 .. Len(s) + Len(t) : Together(s, t)[i] = IF i <= Len(s) THEN s[i] ELSE t[i - Len(s)]
BY ConcatProperties DEF Together

\* Runs of zeros.
LEMMA ZerosBytes ==
  ASSUME NEW S, Bytewise(S), NEW k \in Nat
  PROVE  Zeros(k) \in Seq(S) /\ Len(Zeros(k)) = k
<1>1. Literal(0) \in S
  BY DEF Bytewise
<1>2. Zeros(k) \in [1 .. k -> S]
  BY <1>1 DEF Zeros
<1> QED BY <1>2, FunctionIsSeq

LEMMA ZerosJoined ==
  ASSUME NEW S, Bytewise(S), NEW z \in Nat
  PROVE  Together(Zeros(z), Zeros(4)) = Zeros(z + 4)
<1> DEFINE a == Zeros(z)
           b == Zeros(4)
           c == Zeros(z + 4)
<1>0. z + 4 \in Nat /\ 4 \in Nat
  OBVIOUS
<1>1. a \in Seq(S) /\ Len(a) = z /\ b \in Seq(S) /\ Len(b) = 4 /\ c \in Seq(S) /\ Len(c) = z + 4
  BY <1>0, ZerosBytes, Zenon
<1>2. /\ \A i \in 1 .. z : a[i] = Literal(0)
      /\ \A i \in 1 .. 4 : b[i] = Literal(0)
      /\ \A i \in 1 .. z + 4 : c[i] = Literal(0)
  BY DEF Zeros
<1> HIDE DEF a, b, c
<1> DEFINE d == Together(a, b)
<1>3. /\ d \in Seq(S) /\ Len(d) = z + 4
      /\ \A i \in 1 .. z + 4 : d[i] = IF i <= z THEN a[i] ELSE b[i - z]
  <2>1. /\ d \in Seq(S) /\ Len(d) = Len(a) + Len(b)
        /\ \A i \in 1 .. Len(a) + Len(b) : d[i] = IF i <= Len(a) THEN a[i] ELSE b[i - Len(a)]
    BY ONLY <1>1, TogetherProperties
  <2> QED BY ONLY <1>1, <2>1
<1> HIDE DEF d
<1>4. ASSUME NEW i \in 1 .. z + 4 PROVE d[i] = c[i]
  <2>1. CASE i <= z
    BY ONLY z \in Nat, i \in 1 .. z + 4, <1>2, <1>3, <2>1
  <2>2. CASE ~ (i <= z)
    <3>1. i - z \in 1 .. 4
      BY ONLY z \in Nat, i \in 1 .. z + 4, <2>2
    <3> QED BY ONLY i \in 1 .. z + 4, <1>2, <1>3, <2>2, <3>1
  <2> QED BY ONLY <2>1, <2>2
<1>5. d = c
  BY ONLY <1>1, <1>3, <1>4, SeqEqual
<1> QED BY <1>5 DEF a, b, c, d

\* The byte 0x80 and zeros, k bytes in all.
OneAndZeros(k) == [i \in 1 .. k |-> IF i = 1 THEN Literal(128) ELSE Literal(0)]

LEMMA OneAndZerosJoined ==
  ASSUME NEW S, Bytewise(S), NEW z \in Nat
  PROVE  /\ OneAndZeros(z + 1) \in Seq(S) /\ <<Literal(128)>> \in Seq(S)
         /\ OneAndZeros(z + 1) = Together(<<Literal(128)>>, Zeros(z))
<1> DEFINE one == <<Literal(128)>>
           a == Zeros(z)
           c == OneAndZeros(z + 1)
<1>1. Literal(0) \in S /\ Literal(128) \in S
  BY DEF Bytewise
<1>2. c \in [1 .. z + 1 -> S]
  BY <1>1 DEF OneAndZeros
<1>3. c \in Seq(S) /\ Len(c) = z + 1
  BY <1>2, FunctionIsSeq
<1>4. one \in Seq(S) /\ Len(one) = 1 /\ one[1] = Literal(128)
  BY <1>1
<1>5. a \in Seq(S) /\ Len(a) = z
  BY ZerosBytes
<1>6. \A i \in 1 .. z : a[i] = Literal(0)
  BY DEF Zeros
<1>7. c[1] = Literal(128) /\ \A i \in 2 .. z + 1 : c[i] = Literal(0)
  BY DEF OneAndZeros
<1> HIDE DEF one, a, c
<1> DEFINE d == Together(one, a)
<1>8. /\ d \in Seq(S) /\ Len(d) = 1 + z
      /\ \A i \in 1 .. 1 + z : d[i] = IF i <= 1 THEN one[i] ELSE a[i - 1]
  <2>1. /\ d \in Seq(S) /\ Len(d) = Len(one) + Len(a)
        /\ \A i \in 1 .. Len(one) + Len(a) : d[i] = IF i <= Len(one) THEN one[i] ELSE a[i - Len(one)]
    BY ONLY <1>4, <1>5, TogetherProperties
  <2> QED BY ONLY <1>4, <1>5, <2>1
<1> HIDE DEF d
<1>9. ASSUME NEW i \in 1 .. z + 1 PROVE c[i] = d[i]
  <2>1. CASE i = 1
    BY ONLY z \in Nat, i \in 1 .. z + 1, <1>4, <1>7, <1>8, <2>1
  <2>2. CASE i # 1
    <3>1. i \in 2 .. z + 1 /\ i - 1 \in 1 .. z /\ i \in 1 .. 1 + z /\ ~ (i <= 1)
      BY ONLY z \in Nat, i \in 1 .. z + 1, <2>2
    <3> QED BY ONLY <1>6, <1>7, <1>8, <3>1
  <2> QED BY ONLY <2>1, <2>2
<1>10. Len(c) = Len(d) /\ Len(c) = z + 1
  BY ONLY z \in Nat, <1>3, <1>8
<1>11. c = d
  BY ONLY <1>3, <1>8, <1>9, <1>10, SeqEqual
<1> QED BY <1>3, <1>4, <1>11 DEF one, a, c, d

\* Five texts in a row.
LEMMA TogetherTexts ==
  \A S : \A a, b, c \in Seq(S) : Together(Together(a, b), c) = Together(a, Together(b, c))
BY ConcatAssociative, Zenon DEF Together

LEMMA Regrouped ==
  ASSUME NEW S, NEW m \in Seq(S), NEW one \in Seq(S), NEW a \in Seq(S), NEW b \in Seq(S), NEW bits \in Seq(S)
  PROVE  Together(Together(m, Together(one, a)), Together(b, bits)) = Together(Together(Together(m, one), Together(a, b)), bits)
<1> DEFINE front == Together(m, one)
           most == Together(front, a)
<1>1. front \in Seq(S)
  BY TogetherProperties
<1>2. Together(m, Together(one, a)) = most
  BY TogetherTexts
<1> HIDE DEF front
<1>3. most \in Seq(S)
  BY <1>1, TogetherProperties
<1>4. Together(most, b) = Together(front, Together(a, b))
  BY ONLY a \in Seq(S), b \in Seq(S), <1>1, TogetherTexts
<1> HIDE DEF most
<1>5. Together(most, Together(b, bits)) = Together(Together(most, b), bits)
  BY ONLY b \in Seq(S), bits \in Seq(S), <1>3, TogetherTexts
<1> QED BY ONLY <1>2, <1>4, <1>5 DEF front

\* What utils_sha256_finish takes behind a text is its padding.
Padding(m) == OneAndZeros(PadLength(Len(m) % 64))
MsgLen(m) == PUT_UINT32_BE(0) \o PUT_UINT32_BE(8 * Len(m))

LEMMA PaddingAsStandard ==
  ASSUME NEW S, Bytewise(S), NEW m \in Seq(S)
  PROVE  /\ Padding(m) \in Seq(S) /\ MsgLen(m) \in Seq(S)
         /\ (m \o Padding(m)) \o MsgLen(m) = Padded(m)
<1> DEFINE n == Len(m)
           z == PadLength(n % 64) - 1
           one == <<Literal(128)>>
           bits == PUT_UINT32_BE(8 * n)
           a == Zeros(z)
           b == Zeros(4)
           c == Zeros(z + 4)
<1>1. n \in Nat /\ 8 * n \in Nat
  BY LenProperties
<1>2. z \in 0 .. 63 /\ (CHOOSE k \in 0 .. 63 : (n + 1 + k + 8) % 64 = 0) = z
  BY <1>1, ZerosOfPadding
<1>3. PadLength(n % 64) = z + 1
  <2> DEFINE p == PadLength(n % 64)
  <2>1. p \in Int
    <3>1. n % 64 \in 0 .. 63
      BY <1>1, Places
    <3> QED BY <3>1 DEF PadLength
  <2> HIDE DEF p
  <2>2. p = (p - 1) + 1
    BY <2>1
  <2> QED BY <2>2 DEF p
<1>4. Padded(m) = Together(Together(Together(m, one), c), bits)
  BY <1>2 DEF Padded, Together
<1>5. MsgLen(m) = Together(b, bits)
  BY WordOfZero DEF MsgLen, Together
<1>6. Padding(m) = OneAndZeros(z + 1)
  BY <1>3 DEF Padding
<1> HIDE DEF z
<1>7. z \in Nat
  BY <1>2
<1>8. Padding(m) = Together(one, a) /\ one \in Seq(S) /\ Padding(m) \in Seq(S)
  BY <1>6, <1>7, OneAndZerosJoined
<1>9. a \in Seq(S) /\ b \in Seq(S)
  BY <1>7, ZerosBytes
<1>10. Together(a, b) = c
  BY <1>7, ZerosJoined
<1> HIDE DEF n
<1>11. bits \in Seq(S)
  BY <1>1, WordBytesOf
<1> HIDE DEF one, a, b, c, bits
<1>12. MsgLen(m) \in Seq(S)
  BY ONLY <1>5, <1>9, <1>11, TogetherProperties
<1>13. Together(Together(m, Together(one, a)), Together(b, bits)) = Together(Together(Together(m, one), Together(a, b)), bits)
  BY ONLY m \in Seq(S), <1>8, <1>9, <1>11, Regrouped
<1>14. Together(Together(m, Padding(m)), MsgLen(m)) = Padded(m)
  BY ONLY <1>4, <1>5, <1>8, <1>10, <1>13
<1>15. (m \o Padding(m)) \o MsgLen(m) = Padded(m)
  BY ONLY <1>14, Zenon DEF Together
<1> QED BY ONLY <1>8, <1>12, <1>15, Zenon

\* utils_sha256_finish cuts what the context has taken into the blocks of the standard.
LEMMA FinishAsStandard ==
  ASSUME NEW S, Bytewise(S), NEW m \in Seq(S), FitsWord(Len(m)),
         NEW ctx, Holds(ctx, m)
  PROVE  utils_sha256_finish(ctx) = Chopped(Padded(m))
<1> DEFINE first == utils_sha256_update(ctx, Padding(m))
           last == utils_sha256_update(first, MsgLen(m))
<1>1. ctx.total = Len(m) /\ Len(m) \in Nat
  BY LenProperties DEF Holds, Context
<1>2. Len(m) \div WordBytes = 0 /\ Len(m) % WordBytes = Len(m)
  BY <1>1, SMT DEF FitsWord, WordBytes
<1>3. utils_sha256_finish(ctx) = last.blocks
  BY <1>1, <1>2 DEF utils_sha256_finish, Padding, MsgLen, OneAndZeros
<1>4. Padding(m) \in Seq(S) /\ MsgLen(m) \in Seq(S) /\ (m \o Padding(m)) \o MsgLen(m) = Padded(m)
  BY PaddingAsStandard
<1>5. Holds(first, m \o Padding(m))
  BY <1>4, UpdateHolds
<1>6. m \o Padding(m) \in Seq(S)
  BY <1>4, ConcatProperties
<1>7. Holds(last, (m \o Padding(m)) \o MsgLen(m))
  BY <1>4, <1>5, <1>6, UpdateHolds
<1>8. last.blocks = Chopped((m \o Padding(m)) \o MsgLen(m))
  BY <1>7 DEF Holds, Context
<1> QED BY <1>3, <1>4, <1>8

\* A context that has been started has taken nothing.
LEMMA StartedHolds == Holds(Started, <<>>)
<1>1. Chopped(<<>>) = <<>>
  <2>1. Len(<<>>) \div 64 = 0
    OBVIOUS
  <2>2. Chopped(<<>>) = [k \in 1 .. 0 |-> SubSeq(<<>>, 64 * (k - 1) + 1, 64 * k)]
    BY <2>1 DEF Chopped
  <2> QED BY <2>2
<1>2. BufferBegins(Zeros(64), <<>>)
  <2>1. DOMAIN Zeros(64) = 1 .. 64 /\ Len(<<>>) = 64 * 0 + 0 /\ 1 .. 0 = {}
    BY DEF Zeros
  <2>2. LeftIn(Zeros(64), <<>>, 0, 0)
    BY <2>1 DEF LeftIn
  <2> QED BY <2>1, <2>2 DEF BufferBegins
<1>3. Started = Context(<<>>, Zeros(64))
  BY <1>1 DEF Started, Context
<1> QED BY <1>2, <1>3 DEF Holds

\* The bytes of the texts of a source, plain or combined with a pad.
SourceByte(Source) == {"plain", "ipad", "opad"} \X Source \X Nat

\* What a context has taken after a key and a text.
Passed(first, text) == utils_sha256_finish(utils_sha256_update(utils_sha256_update(Started, first), text))

LEMMA PassAsStandard ==
  ASSUME NEW S, Bytewise(S),
         NEW first \in Seq(S), NEW text \in Seq(S), FitsWord(Len(first) + Len(text))
  PROVE  Passed(first, text) = Chopped(Padded(first \o text))
<1>1. Holds(utils_sha256_update(Started, first), <<>> \o first)
  <2>1. <<>> \in Seq(S)
    BY EmptySeq
  <2> QED BY <2>1, StartedHolds, UpdateHolds
<1>2. <<>> \o first = first
  BY ConcatEmptySeq
<1>3. Holds(utils_sha256_update(utils_sha256_update(Started, first), text), first \o text)
  BY <1>1, <1>2, UpdateHolds
<1>4. first \o text \in Seq(S) /\ Len(first \o text) = Len(first) + Len(text)
  BY ConcatProperties
<1> QED BY <1>3, <1>4, FinishAsStandard DEF Passed

\* The bytes of constants and of the first digest.
LEMMA LiteralBytes ==
  ASSUME NEW Source, "literal" \in Source
  PROVE  Bytewise(SourceByte(Source))
BY DEF Bytewise, Literal, SourceByte

LEMMA DigestBytes ==
  ASSUME NEW Source, "inner" \in Source
  PROVE  Text("inner", 32) \in Seq(SourceByte(Source)) /\ Len(Text("inner", 32)) = 32
<1> DEFINE digest == Text("inner", 32)
           n == 32
<1>1. digest \in [1 .. n -> SourceByte(Source)] /\ n \in Nat
  BY DEF Text, SourceByte
<1> HIDE DEF digest, n
<1>2. digest \in Seq(SourceByte(Source)) /\ Len(digest) = n
  BY <1>1, FunctionIsSeq
<1> QED BY <1>2 DEF digest, n

\* A key filled up to a block.
LEMMA KeyedBytes ==
  ASSUME NEW Source, "literal" \in Source, NEW key \in Seq(SourceByte(Source)), NEW pad \in {"ipad", "opad"}
  PROVE  Keyed(pad, key) \in Seq(SourceByte(Source)) /\ Len(Keyed(pad, key)) = 64
<1>1. Literal(0) \in SourceByte(Source)
  BY DEF Literal, SourceByte
<1>2. ASSUME NEW byte \in SourceByte(Source) PROVE Combined(pad, byte) \in SourceByte(Source)
  BY DEF Combined, SourceByte
<1>3. ASSUME NEW i \in 1 .. 64 PROVE (IF i <= Len(key) THEN key[i] ELSE Literal(0)) \in SourceByte(Source)
  <2>1. CASE i <= Len(key)
    <3>1. i \in 1 .. Len(key)
      BY <2>1, LenProperties
    <3> QED BY <2>1, <3>1, ElementOfSeq
  <2> QED BY <1>1, <2>1
<1>4. Keyed(pad, key) \in [1 .. 64 -> SourceByte(Source)]
  BY <1>2, <1>3 DEF Keyed
<1> DEFINE keyed == Keyed(pad, key)
           n == 64
<1>5. keyed \in [1 .. n -> SourceByte(Source)] /\ n \in Nat
  BY <1>4
<1> HIDE DEF keyed, n
<1>6. keyed \in Seq(SourceByte(Source)) /\ Len(keyed) = n
  BY <1>5, FunctionIsSeq
<1> QED BY <1>6 DEF keyed, n

\* utils_hmac_sha256 is HMAC, for every message of bytes and every key of at most a
\* block (it refuses a longer one).  Both passes take a whole block first; a message so
\* long that the length in bits would leave its 32 bits is not signed by this program.
THEOREM HmacAsStandard ==
  ASSUME NEW Source, "literal" \in Source, "inner" \in Source,
         NEW msg \in Seq(SourceByte(Source)), NEW key \in Seq(SourceByte(Source)), Len(key) <= 64,
         FitsWord(64 + Len(msg))
  PROVE  utils_hmac_sha256(msg, key) = Hmac(msg, key)
<1> DEFINE S == SourceByte(Source)
           digest == Text("inner", 32)
<1>1. Bytewise(S)
  BY LiteralBytes
<1>2. digest \in Seq(S) /\ Len(digest) = 32
  BY DigestBytes
<1>3. /\ Keyed("ipad", key) \in Seq(S) /\ Len(Keyed("ipad", key)) = 64
      /\ Keyed("opad", key) \in Seq(S) /\ Len(Keyed("opad", key)) = 64
  BY KeyedBytes
<1> HIDE DEF digest, S
<1>4. Len(msg) \in Nat
  BY LenProperties
<1>5. Passed(Keyed("ipad", key), msg) = Chopped(Padded(Keyed("ipad", key) \o msg))
  <2>1. msg \in Seq(S) /\ FitsWord(Len(Keyed("ipad", key)) + Len(msg))
    BY <1>3, <1>4 DEF S
  <2> QED BY <1>1, <1>3, <2>1, PassAsStandard
<1>6. Passed(Keyed("opad", key), digest) = Chopped(Padded(Keyed("opad", key) \o digest))
  <2>1. FitsWord(Len(Keyed("opad", key)) + Len(digest))
    <3> DEFINE k == Len(Keyed("opad", key))
               d == Len(digest)
    <3>1. k = 64 /\ d = 32
      BY <1>2, <1>3, Zenon
    <3> HIDE DEF k, d
    <3>2. FitsWord(k + d)
      BY ONLY <3>1, SMT DEF FitsWord, WordBytes
    <3> QED BY <3>2 DEF k, d
  <2> QED BY <1>1, <1>2, <1>3, <2>1, PassAsStandard
<1> QED BY <1>5, <1>6 DEF utils_hmac_sha256, Hmac, Passed, digest

-----------------------------------------------------------------------------
(* Places.                                                                 *)

\* The greatest of a set of places.
LEMMA MaxProperties ==
  ASSUME NEW n \in Nat, NEW S, S \subseteq 0 .. n, S # {}
  PROVE  Max(S) \in S /\ \A y \in S : y <= Max(S)
<1> DEFINE T == {n - x : x \in S}
<1>1. T \subseteq 0 .. n /\ T # {}
  <2>1. \A x \in S : n - x \in 0 .. n
    OBVIOUS
  <2> QED BY <2>1
<1>2. Min(T) \in T /\ \A y \in T : Min(T) <= y
  BY <1>1, MinProperties
<1>3. PICK x \in S : Min(T) = n - x
  BY <1>2
<1>4. \A y \in S : x >= y
  <2> SUFFICES ASSUME NEW y \in S PROVE x >= y
    OBVIOUS
  <2>1. n - x <= n - y
    BY <1>2, <1>3
  <2> QED BY <2>1
<1>5. Max(S) \in S /\ \A y \in S : Max(S) >= y
  BY <1>4 DEF Max
<1> QED BY <1>5

-----------------------------------------------------------------------------
(* Sizes.                                                                  *)

\* The sizes of the fronts of a text.
Sizes(text) ==
  CHOOSE upto : upto = [k \in 0 .. Len(text) |-> IF k = 0 THEN 0 ELSE upto[k - 1] + Length[text[k]]]

LEMMA SizesStep ==
  ASSUME NEW text \in Seq(Token)
  PROVE  /\ Sizes(text) \in [0 .. Len(text) -> Nat]
         /\ Sizes(text)[0] = 0
         /\ \A k \in 1 .. Len(text) : Sizes(text)[k] = Sizes(text)[k - 1] + Length[text[k]]
         /\ Size(text) = Sizes(text)[Len(text)]
<1> DEFINE n == Len(text)
           Following(upto) == [k \in 0 .. n |-> IF k = 0 THEN 0 ELSE upto[k - 1] + Length[text[k]]]
           step == [k \in 1 .. n |-> [size \in Nat |-> size + Length[text[k]]]]
<1>1. n \in Nat /\ \A k \in 1 .. n : Length[text[k]] \in Nat
  BY TokenAssumption, LenProperties DEF Token
<1>2. step \in [1 .. n -> [Nat -> Nat]]
  BY <1>1
<1>3. PICK f \in [0 .. n -> Nat] : f[0] = 0 /\ \A k \in 1 .. n : f[k] = step[k][f[k - 1]]
  <2> DEFINE D == Nat
             base == 0
  <2>1. base \in D /\ step \in [1 .. n -> [D -> D]]
    BY <1>2
  <2> HIDE DEF n, step, D, base
  <2>2. Iterates(n, D, base, step)
    BY <1>1, <2>1, Iteration
  <2> QED BY <2>2 DEF D, base, Iterates
<1>4. f = Following(f)
  <2>1. ASSUME NEW k \in 1 .. n PROVE f[k] = f[k - 1] + Length[text[k]]
    <3>1. k - 1 \in 0 .. n
      BY <1>1
    <3>2. f[k - 1] \in Nat /\ f[k] = step[k][f[k - 1]]
      BY <1>3, <3>1
    <3> QED BY <3>2
  <2>2. ASSUME NEW k \in 0 .. n PROVE f[k] = IF k = 0 THEN 0 ELSE f[k - 1] + Length[text[k]]
    <3>1. k = 0 \/ k \in 1 .. n
      BY <1>1
    <3> QED BY <3>1, <2>1, <1>3
  <2> QED BY <2>2
<1>5. Sizes(text) = Following(Sizes(text))
  <2> HIDE DEF Following
  <2>1. Sizes(text) = CHOOSE upto : upto = Following(upto)
    BY DEF Sizes, Following
  <2> QED BY <1>4, <2>1
<1>6. Sizes(text)[0] = 0 /\ \A k \in 1 .. n : Sizes(text)[k] = Sizes(text)[k - 1] + Length[text[k]]
  <2> DEFINE g == Sizes(text)
  <2>1. g = Following(g)
    BY <1>5
  <2> HIDE DEF g
  <2>2. 0 \in 0 .. n /\ \A k \in 1 .. n : k \in 0 .. n /\ k # 0
    BY <1>1
  <2>3. g[0] = 0 /\ \A k \in 1 .. n : g[k] = g[k - 1] + Length[text[k]]
    BY <2>1, <2>2
  <2> QED BY <2>3 DEF g
<1>7. DOMAIN Sizes(text) = 0 .. n
  BY <1>5
<1>8. \A k \in 0 .. n : Sizes(text)[k] \in Nat
  <2> DEFINE P == {k \in 0 .. n : Sizes(text)[k] \in Nat}
  <2>1. 0 \in P
    BY <1>1, <1>6
  <2>2. \A k \in 1 .. n : k - 1 \in P => k \in P
    <3> DEFINE g == Sizes(text)
    <3>1. \A k \in 1 .. n : k - 1 \in 0 .. n /\ k \in 0 .. n /\ Length[text[k]] \in Nat /\ g[k] = g[k - 1] + Length[text[k]]
      BY <1>1, <1>6
    <3> HIDE DEF g, n
    <3> SUFFICES ASSUME NEW k \in 1 .. n, g[k - 1] \in Nat PROVE k \in 0 .. n /\ g[k] \in Nat
      BY DEF g
    <3> QED BY ONLY <3>1, g[k - 1] \in Nat, k \in 1 .. n
  <2> HIDE DEF P
  <2>3. \A k \in 0 .. n : k \in P
    BY <1>1, <2>1, <2>2, Ladder
  <2> QED BY <2>3 DEF P
<1>9. Size(text) = Sizes(text)[n]
  BY DEF Size, Sizes
<1>10. Sizes(text) = [k \in 0 .. n |-> Sizes(text)[k]]
  BY <1>5
<1>11. Sizes(text) \in [0 .. n -> Nat]
  BY <1>8, <1>10
<1> QED BY <1>6, <1>9, <1>11

\* The larger front is the longer one.
LEMMA SizesGrow ==
  ASSUME NEW text \in Seq(Token), NEW from \in 0 .. Len(text), NEW to \in from .. Len(text)
  PROVE  /\ Sizes(text)[from] <= Sizes(text)[to]
         /\ from # to => Sizes(text)[from] < Sizes(text)[to]
<1> DEFINE u == Sizes(text)
           n == Len(text)
           P == {j \in 0 .. n - from : u[from] <= u[from + j] /\ (j # 0 => u[from] < u[from + j])}
<1>1. n \in Nat /\ from \in 0 .. n /\ to \in from .. n
  BY LenProperties
<1>2. u \in [0 .. n -> Nat] /\ \A k \in 1 .. n : u[k] = u[k - 1] + Length[text[k]]
  BY SizesStep
<1>3. \A k \in 1 .. n : Length[text[k]] \in Nat \ {0}
  BY TokenAssumption, LenProperties DEF Token
<1> HIDE DEF u, n
<1>4. 0 \in P
  BY <1>1, <1>2
<1>5. ASSUME NEW j \in 1 .. n - from, j - 1 \in P PROVE j \in P
  <2>1. from + j \in 1 .. n /\ (from + j) - 1 = from + (j - 1) /\ from + (j - 1) \in 0 .. n /\ j # 0
    BY <1>1
  <2>2. u[from + j] = u[from + (j - 1)] + Length[text[from + j]]
    BY <1>2, <2>1
  <2>3. u[from] \in Nat /\ u[from + (j - 1)] \in Nat /\ u[from] <= u[from + (j - 1)] /\ Length[text[from + j]] \in Nat \ {0}
    BY <1>1, <1>2, <1>3, <1>5, <2>1
  <2>4. u[from] < u[from + j]
    <3> DEFINE base == u[from]
               x == u[from + (j - 1)]
               y == u[from + j]
               l == Length[text[from + j]]
    <3>1. y = x + l /\ base \in Nat /\ x \in Nat /\ base <= x /\ l \in Nat \ {0}
      BY <2>2, <2>3
    <3> HIDE DEF base, x, y, l
    <3>2. base < y
      BY ONLY <3>1
    <3> QED BY <3>2 DEF base, y
  <2> QED BY <2>1, <2>3, <2>4, <2>2
<1> HIDE DEF P
<1>6. \A j \in 0 .. n - from : j \in P
  <2>1. n - from \in Nat
    BY <1>1
  <2> QED BY <1>4, <1>5, <2>1, Ladder
<1>7. to - from \in P /\ from + (to - from) = to /\ (from # to => to - from # 0)
  BY <1>1, <1>6
<1> QED BY <1>7 DEF P, u

\* The size of a piece of a text.
LEMMA SizeOfPiece ==
  ASSUME NEW text \in Seq(Token), NEW from \in 0 .. Len(text), NEW to \in from .. Len(text)
  PROVE  /\ SubSeq(text, from + 1, to) \in Seq(Token)
         /\ Len(SubSeq(text, from + 1, to)) = to - from
         /\ \A i \in 1 .. to - from : SubSeq(text, from + 1, to)[i] = text[from + i]
         /\ Size(SubSeq(text, from + 1, to)) = Sizes(text)[to] - Sizes(text)[from]
<1> DEFINE piece == SubSeq(text, from + 1, to)
           u == Sizes(text)
           v == Sizes(piece)
           n == to - from
           P == {j \in 0 .. n : v[j] = u[from + j] - u[from]}
<1>1. n \in Nat /\ Len(text) \in Nat /\ from \in Nat /\ to \in Nat /\ from + n = to
  BY LenProperties
<1>2. piece \in Seq(Token) /\ Len(piece) = n /\ \A i \in 1 .. n : piece[i] = text[from + i]
  <2>1. \A i \in from + 1 .. to : text[i] \in Token
    BY <1>1, LenProperties
  <2>2. piece \in Seq(Token) /\ Len(piece) = (IF from + 1 <= to THEN to - (from + 1) + 1 ELSE 0)
        /\ \A i \in 1 .. to - (from + 1) + 1 : piece[i] = text[from + 1 + i - 1]
    BY <1>1, <2>1, SubSeqProperties
  <2> QED BY <1>1, <2>2, SMTT(30)
<1>3. u \in [0 .. Len(text) -> Nat] /\ \A k \in 1 .. Len(text) : u[k] = u[k - 1] + Length[text[k]]
  BY SizesStep
<1>4. v \in [0 .. n -> Nat] /\ v[0] = 0 /\ (\A k \in 1 .. n : v[k] = v[k - 1] + Length[piece[k]]) /\ Size(piece) = v[n]
  BY <1>2, SizesStep
<1>5. \A k \in 1 .. Len(text) : Length[text[k]] \in Nat
  BY TokenAssumption, LenProperties DEF Token
<1> HIDE DEF piece, u, v, n
<1>6. 0 \in P
  <2>1. from + 0 = from /\ u[from] \in Nat /\ 0 \in 0 .. n
    BY <1>1, <1>3
  <2> QED BY <1>4, <2>1
<1>7. ASSUME NEW j \in 1 .. n, j - 1 \in P PROVE j \in P
  <2>1. from + j \in 1 .. Len(text) /\ (from + j) - 1 = from + (j - 1) /\ from + (j - 1) \in 0 .. Len(text) /\ from \in 0 .. Len(text)
    BY <1>1
  <2>2. u[from + j] = u[from + (j - 1)] + Length[text[from + j]]
    BY <1>3, <2>1
  <2>3. v[j] = v[j - 1] + Length[text[from + j]] /\ v[j - 1] = u[from + (j - 1)] - u[from]
    BY <1>2, <1>4, <1>7
  <2>4. u[from] \in Nat /\ u[from + (j - 1)] \in Nat /\ Length[text[from + j]] \in Nat
    BY <1>3, <1>5, <2>1
  <2>5. v[j] = u[from + j] - u[from]
    <3> DEFINE base == u[from]
               x == u[from + (j - 1)]
               y == u[from + j]
               before == v[j - 1]
               l == Length[text[from + j]]
    <3>1. y = x + l /\ v[j] = before + l /\ before = x - base /\ base \in Nat /\ x \in Nat /\ l \in Nat
      BY <2>2, <2>3, <2>4
    <3> HIDE DEF base, x, y, before, l
    <3>2. v[j] = y - base
      BY ONLY <3>1
    <3> QED BY <3>2 DEF base, y
  <2> QED BY <1>1, <2>5
<1> HIDE DEF P
<1>8. \A j \in 0 .. n : j \in P
  BY <1>1, <1>6, <1>7, Ladder
<1>9. v[n] = u[to] - u[from]
  BY <1>1, <1>8 DEF P
<1> QED BY <1>2, <1>4, <1>9 DEF piece, u, n

\* A piece of a text is no larger than the text, and smaller if it is not all of it.
LEMMA PieceSmaller ==
  ASSUME NEW text \in Seq(Token), NEW from \in 0 .. Len(text), NEW to \in from .. Len(text)
  PROVE  /\ Size(text) \in Nat /\ Size(SubSeq(text, from + 1, to)) \in Nat
         /\ Size(SubSeq(text, from + 1, to)) <= Size(text)
         /\ to - from # Len(text) => Size(SubSeq(text, from + 1, to)) < Size(text)
<1> DEFINE u == Sizes(text)
           n == Len(text)
<1>1. n \in Nat /\ from \in 0 .. n /\ to \in from .. n /\ 0 \in 0 .. n /\ n \in to .. n /\ from \in 0 .. from
      /\ 0 \in 0 .. n /\ from \in 0 .. n /\ to \in 0 .. n
  BY LenProperties
<1>2. u \in [0 .. n -> Nat] /\ u[0] = 0 /\ Size(text) = u[n]
  BY SizesStep
<1>3. Size(SubSeq(text, from + 1, to)) = u[to] - u[from]
  BY SizeOfPiece
<1>4. u[from] <= u[to]
  BY SizesGrow
<1>5. u[to] <= u[n] /\ (to # n => u[to] < u[n])
  BY <1>1, SizesGrow
<1>6. u[0] <= u[from] /\ (0 # from => u[0] < u[from])
  <2>1. 0 \in 0 .. Len(text) /\ from \in 0 .. Len(text)
    BY <1>1
  <2> QED BY <2>1, SizesGrow
<1> HIDE DEF u, n
<1>7. u[0] \in Nat /\ u[n] \in Nat /\ u[from] \in Nat /\ u[to] \in Nat
  BY <1>1, <1>2
<1>8. to - from # n => from # 0 \/ to # n
  BY <1>1
<1> QED BY <1>2, <1>3, <1>4, <1>5, <1>6, <1>7, <1>8 DEF n

-----------------------------------------------------------------------------
(* sscanf.                                                                 *)

\* p is the first place from "at" on where a text is in S, or the place behind it.
Stops(text, pos, S, p) ==
  /\ p \in pos .. Len(text) + 1
  /\ \A k \in pos .. p - 1 : text[k] \notin S
  /\ p <= Len(text) => text[p] \in S

LEMMA MinIs ==
  ASSUME NEW S, \A x \in S : x \in Int, NEW p \in S, \A y \in S : p <= y
  PROVE  Min(S) = p
<1>1. \A x \in S : (\A y \in S : x <= y) => x = p
  OBVIOUS
<1> QED BY <1>1 DEF Min

LEMMA StopExists ==
  ASSUME NEW T, NEW text \in Seq(T), NEW pos \in 1 .. Len(text) + 1, NEW S
  PROVE  \E p \in 1 .. Len(text) + 1 : Stops(text, pos, S, p)
<1> DEFINE n == Len(text)
           W == {k \in pos .. n : text[k] \in S} \cup {n + 1}
<1>1. n \in Nat /\ n + 1 \in Nat /\ pos \in 1 .. n + 1
  BY LenProperties
<1>2. W \subseteq 0 .. n + 1 /\ W # {}
  BY <1>1
<1> HIDE DEF W
<1>3. Min(W) \in W /\ \A y \in W : Min(W) <= y
  BY <1>1, <1>2, MinProperties
<1>4. Min(W) \in pos .. n + 1 /\ (Min(W) <= n => text[Min(W)] \in S)
  BY <1>1, <1>3 DEF W
<1>5. \A k \in pos .. Min(W) - 1 : text[k] \notin S
  BY <1>1, <1>3, <1>4 DEF W
<1> QED BY <1>1, <1>4, <1>5 DEF Stops

LEMMA StopUnique ==
  ASSUME NEW T, NEW text \in Seq(T), NEW pos \in 1 .. Len(text) + 1, NEW S,
         NEW p, Stops(text, pos, S, p), NEW q, Stops(text, pos, S, q)
  PROVE  p = q
<1>1. Len(text) \in Nat
  BY LenProperties
<1> QED BY <1>1 DEF Stops

LEMMA FirstInStops ==
  ASSUME NEW T, NEW text \in Seq(T), NEW S
  PROVE  Stops(text, 1, S, FirstIn(text, S)) /\ FirstIn(text, S) \in 1 .. Len(text) + 1
<1> DEFINE n == Len(text)
           W == {k \in DOMAIN text : text[k] \in S} \cup {n + 1}
<1>1. n \in Nat /\ n + 1 \in Nat /\ DOMAIN text = 1 .. n
  BY LenProperties
<1>2. W \subseteq 0 .. n + 1 /\ W # {} /\ FirstIn(text, S) = Min(W)
  BY <1>1 DEF FirstIn
<1> HIDE DEF W
<1>3. Min(W) \in W /\ \A y \in W : Min(W) <= y
  BY <1>1, <1>2, MinProperties
<1>4. Min(W) \in 1 .. n + 1 /\ (Min(W) <= n => text[Min(W)] \in S)
  BY <1>1, <1>3 DEF W
<1>5. ASSUME NEW k \in 1 .. Min(W) - 1 PROVE text[k] \notin S
  <2>1. k \in DOMAIN text /\ ~ (Min(W) <= k)
    BY <1>1, <1>4
  <2> QED BY <1>3, <2>1 DEF W
<1> QED BY <1>1, <1>2, <1>4, <1>5 DEF Stops

\* What a directive takes, if it takes what it can ("but" says that its characters end it).
LEMMA PastSet ==
  ASSUME NEW T, NEW text \in Seq(T), NEW pos \in 1 .. Len(text) + 1, NEW p \in pos .. Len(text) + 1, NEW d,
         d.kind # "char",
         \A k \in pos .. p - 1 : (text[k] \in d.chars) # d.but,
         p <= Len(text) => ~ ((text[p] \in d.chars) # d.but)
  PROVE  Past(text, pos, d) = p
<1> DEFINE n == Len(text)
           Fits(k) == (text[k] \in d.chars) # d.but
           W == {n + 1} \cup {k \in pos .. (n + 1) - 1 : ~ Fits(k)}
<1>1. n \in Nat /\ (n + 1) - 1 = n
  BY LenProperties
<1>2. Past(text, pos, d) = Min(W)
  BY DEF Past
<1>3. p \in W
  BY <1>1
<1>4. \A y \in W : y \in Int /\ p <= y
  BY <1>1
<1> HIDE DEF W
<1> QED BY <1>2, <1>3, <1>4, MinIs

LEMMA PastUpto ==
  ASSUME NEW T, NEW text \in Seq(T), NEW pos \in 1 .. Len(text) + 1, NEW S, NEW p, Stops(text, pos, S, p)
  PROVE  Past(text, pos, Upto(S)) = p
<1> DEFINE d == Upto(S)
<1>1. d.kind # "char" /\ d.chars = S /\ d.but = TRUE
  BY DEF Upto
<1> HIDE DEF d
<1>2. p \in pos .. Len(text) + 1 /\ (\A k \in pos .. p - 1 : text[k] \notin S) /\ (p <= Len(text) => text[p] \in S)
  BY DEF Stops
<1>3. Past(text, pos, d) = p
  BY <1>1, <1>2, PastSet
<1> QED BY <1>3 DEF d

\* White space and %[...] go on to the first other token.
Leaves(text, pos, S, p) ==
  /\ p \in pos .. Len(text) + 1
  /\ \A k \in pos .. p - 1 : text[k] \in S
  /\ p <= Len(text) => text[p] \notin S

LEMMA LeaveExists ==
  ASSUME NEW T, NEW text \in Seq(T), NEW pos \in 1 .. Len(text) + 1, NEW S
  PROVE  \E p \in 1 .. Len(text) + 1 : Leaves(text, pos, S, p)
<1>1. PICK p \in 1 .. Len(text) + 1 : Stops(text, pos, T \ S, p)
  BY StopExists
<1>2. Len(text) \in Nat /\ \A k \in 1 .. Len(text) : text[k] \in T
  BY LenProperties
<1>3. \A k \in pos .. p - 1 : k \in 1 .. Len(text)
  BY <1>1, <1>2 DEF Stops
<1>4. Leaves(text, pos, S, p)
  BY <1>1, <1>2, <1>3 DEF Stops, Leaves
<1> QED BY <1>4

LEMMA PastOthers ==
  ASSUME NEW T, NEW text \in Seq(T), NEW pos \in 1 .. Len(text) + 1, NEW d, NEW S,
         d.kind # "char", d.chars = S, d.but = FALSE, NEW p, Leaves(text, pos, S, p)
  PROVE  Past(text, pos, d) = p
<1>1. DOMAIN text = 1 .. Len(text) /\ Len(text) \in Nat
  BY LenProperties
<1>2. p \in pos .. Len(text) + 1 /\ (\A k \in pos .. p - 1 : text[k] \in S) /\ (p <= Len(text) => text[p] \notin S)
  BY <1>1 DEF Leaves
<1>3. \A k : ((text[k] \in d.chars) # d.but) <=> text[k] \in S
  <2> SUFFICES ASSUME NEW k PROVE ((text[k] \in d.chars) # d.but) <=> text[k] \in S
    OBVIOUS
  <2>1. CASE text[k] \in S
    <3>1. (text[k] \in d.chars) = TRUE
      BY <2>1
    <3> QED BY <2>1, <3>1
  <2>2. CASE text[k] \notin S
    <3>1. (text[k] \in d.chars) = FALSE
      BY <2>2
    <3> QED BY <2>2, <3>1
  <2> QED BY <2>1, <2>2
<1> QED BY <1>2, <1>3, PastSet

LEMMA PastJust ==
  ASSUME NEW T, NEW text \in Seq(T), NEW pos \in 1 .. Len(text) + 1, NEW c
  PROVE  Past(text, pos, Just(c)) = IF pos <= Len(text) /\ text[pos] = c THEN pos + 1 ELSE pos
<1> DEFINE n == Len(text)
           d == Just(c)
           most == Min({pos + 1, n + 1})
           W == {most} \cup {k \in pos .. most - 1 : ~ ((text[k] \in d.chars) # d.but)}
           V == {most} \cup {k \in pos .. most - 1 : text[k] # c}
<1>1. n \in Nat /\ pos \in 1 .. n + 1
  BY LenProperties
<1>2. Past(text, pos, d) = Min(W)
  BY DEF Past, Just
<1>3. \A k : ((text[k] \in d.chars) # d.but) <=> text[k] = c
  <2>1. d.chars = {c} /\ d.but = FALSE
    BY DEF Just
  <2> HIDE DEF d
  <2> SUFFICES ASSUME NEW k PROVE ((text[k] \in d.chars) # d.but) <=> text[k] = c
    OBVIOUS
  <2>2. CASE text[k] = c
    <3>1. (text[k] \in d.chars) = TRUE
      BY <2>1, <2>2
    <3> QED BY <2>1, <2>2, <3>1
  <2>3. CASE text[k] # c
    <3>1. (text[k] \in d.chars) = FALSE
      BY <2>1, <2>3
    <3> QED BY <2>1, <2>3, <3>1
  <2> QED BY <2>2, <2>3
<1> HIDE DEF d
<1>7. W = V
  BY <1>3
<1> HIDE DEF W
<1>4. most = IF pos <= n THEN pos + 1 ELSE pos
  <2> DEFINE U == {pos + 1, n + 1}
  <2>1. CASE pos <= n
    <3>1. pos + 1 \in U /\ \A y \in U : y \in Int /\ pos + 1 <= y
      BY <1>1, <2>1
    <3> HIDE DEF U
    <3>2. Min(U) = pos + 1
      BY <3>1, MinIs
    <3> QED BY <2>1, <3>2 DEF U
  <2>2. CASE ~ (pos <= n)
    <3>1. pos \in U /\ \A y \in U : y \in Int /\ pos <= y
      BY <1>1, <2>2
    <3> HIDE DEF U
    <3>2. Min(U) = pos
      BY <3>1, MinIs
    <3> QED BY <2>2, <3>2 DEF U
  <2> QED BY <2>1, <2>2
<1> HIDE DEF most
<1>5. CASE pos <= n /\ text[pos] = c
  <2>1. V = {pos + 1}
    BY <1>1, <1>4, <1>5
  <2>2. pos + 1 \in V /\ \A y \in V : y \in Int /\ pos + 1 <= y
    BY <1>1, <2>1
  <2> HIDE DEF V
  <2>3. Min(V) = pos + 1
    BY <2>2, MinIs
  <2> QED BY <1>2, <1>5, <1>7, <2>3 DEF d
<1>6. CASE ~ (pos <= n /\ text[pos] = c)
  <2>1. pos \in V /\ \A y \in V : y \in Int /\ pos <= y
    <3>1. CASE pos <= n
      <4>1. most = pos + 1 /\ pos \in pos .. most - 1 /\ text[pos] # c
        BY <1>1, <1>4, <1>6, <3>1
      <4> QED BY <1>1, <4>1
    <3>2. CASE ~ (pos <= n)
      <4>1. most = pos
        BY <1>4, <3>2
      <4> QED BY <1>1, <4>1
    <3> QED BY <3>1, <3>2
  <2> HIDE DEF V
  <2>2. Min(V) = pos
    BY <2>1, MinIs
  <2> QED BY <1>2, <1>6, <1>7, <2>2 DEF d
<1> QED BY <1>5, <1>6

LEMMA PastRange ==
  ASSUME NEW T, NEW text \in Seq(T), NEW pos \in 1 .. Len(text) + 1, NEW d
  PROVE  Past(text, pos, d) \in pos .. Len(text) + 1
<1> DEFINE n == Len(text)
           Fits(k) == (text[k] \in d.chars) # d.but
           most == IF d.kind = "char" THEN Min({pos + 1, n + 1}) ELSE n + 1
           W == {most} \cup {k \in pos .. most - 1 : ~ Fits(k)}
<1>1. n \in Nat /\ pos \in 1 .. n + 1
  BY LenProperties
<1>2. Past(text, pos, d) = Min(W)
  BY DEF Past
<1>3. most \in pos .. n + 1
  <2> DEFINE V == {pos + 1, n + 1}
  <2>1. V \subseteq 0 .. n + 2 /\ V # {} /\ n + 2 \in Nat
    BY <1>1
  <2> HIDE DEF V
  <2>2. Min(V) \in V /\ \A y \in V : Min(V) <= y
    BY <2>1, MinProperties
  <2>3. Min(V) \in pos .. n + 1
    BY <1>1, <2>2 DEF V
  <2> QED BY <1>1, <2>3 DEF V
<1> HIDE DEF most, Fits
<1>4. W \subseteq 0 .. n + 1 /\ W # {} /\ n + 1 \in Nat
  BY <1>1, <1>3
<1>5. \A y \in W : y \in pos .. n + 1
  BY <1>1, <1>3
<1> HIDE DEF W
<1>6. Min(W) \in W
  BY <1>4, MinProperties
<1> QED BY <1>2, <1>5, <1>6

FreshScan == [at |-> 1, goesOn |-> TRUE, got |-> <<>>]
ScanSet(T, text) == [at : 1 .. Len(text) + 1, goesOn : BOOLEAN, got : Seq(Seq(T))]

LEMMA DirectiveType ==
  ASSUME NEW T, NEW text \in Seq(T), NEW scan \in ScanSet(T, text), NEW d
  PROVE  Directive(text, scan, d) \in ScanSet(T, text)
<1> DEFINE past == Past(text, scan.at, d)
           takes == past > scan.at
           got == IF takes /\ d.kind = "set" THEN Append(scan.got, SubSeq(text, scan.at, past - 1)) ELSE scan.got
<1>1. scan.at \in 1 .. Len(text) + 1 /\ scan.got \in Seq(Seq(T)) /\ Len(text) \in Nat
  BY LenProperties DEF ScanSet
<1>2. past \in scan.at .. Len(text) + 1
  BY <1>1, PastRange
<1>3. SubSeq(text, scan.at, past - 1) \in Seq(T)
  <2>1. \A k \in scan.at .. past - 1 : text[k] \in T
    BY <1>1, <1>2, LenProperties
  <2>2. scan.at \in Int /\ past - 1 \in Int
    BY <1>1, <1>2
  <2> QED BY <2>1, <2>2, SubSeqProperties
<1>4. got \in Seq(Seq(T))
  <2> DEFINE piece == SubSeq(text, scan.at, past - 1)
             U == Seq(T)
  <2>1. piece \in U /\ scan.got \in Seq(U)
    BY <1>1, <1>3
  <2> HIDE DEF piece, U
  <2>2. Append(scan.got, piece) \in Seq(U)
    BY <2>1
  <2> QED BY <2>1, <2>2 DEF piece, U
<1>5. Directive(text, scan, d) = IF ~ scan.goesOn THEN scan
                                 ELSE [at |-> past, goesOn |-> takes \/ d.kind = "white", got |-> got]
  BY DEF Directive
<1>6. past \in 1 .. Len(text) + 1
  BY <1>1, <1>2
<1>7. (takes \/ d.kind = "white") \in BOOLEAN
  OBVIOUS
<1> HIDE DEF past, takes, got
<1> QED BY <1>4, <1>5, <1>6, <1>7 DEF ScanSet

\* The scan of a text, directive by directive.
Scan(text, format) ==
  CHOOSE scan : scan = [i \in 0 .. Len(format) |-> IF i = 0 THEN FreshScan ELSE Directive(text, scan[i - 1], format[i])]

ScanProperties(T, text, format) ==
  /\ Scan(text, format) \in [0 .. Len(format) -> ScanSet(T, text)]
  /\ Scan(text, format)[0] = FreshScan
  /\ \A i \in 1 .. Len(format) : Scan(text, format)[i] = Directive(text, Scan(text, format)[i - 1], format[i])
  /\ sscanf(text, format) = Scan(text, format)[Len(format)].got

LEMMA ScanStep ==
  ASSUME NEW T, NEW text \in Seq(T), NEW format, Len(format) \in Nat
  PROVE  ScanProperties(T, text, format)
<1> DEFINE n == Len(format)
           D == ScanSet(T, text)
           Following(scan) == [i \in 0 .. n |-> IF i = 0 THEN FreshScan ELSE Directive(text, scan[i - 1], format[i])]
           step == [i \in 1 .. n |-> [scan \in D |-> Directive(text, scan, format[i])]]
<1>1. n \in Nat
  OBVIOUS
<1>2. FreshScan \in D /\ \A scan \in D : \A d : Directive(text, scan, d) \in D
  <2>1. FreshScan \in D
    <3>1. Len(text) \in Nat /\ 1 \in 1 .. Len(text) + 1
      BY LenProperties
    <3>2. <<>> \in Seq(Seq(T))
      OBVIOUS
    <3> QED BY <3>1, <3>2 DEF FreshScan, ScanSet
  <2> QED BY <2>1, DirectiveType
<1>3. step \in [1 .. n -> [D -> D]]
  BY <1>2
<1> HIDE DEF n, D
<1>4. PICK f \in [0 .. n -> D] : f[0] = FreshScan /\ \A i \in 1 .. n : f[i] = step[i][f[i - 1]]
  <2> HIDE DEF step
  <2>1. Iterates(n, D, FreshScan, step)
    BY <1>1, <1>2, <1>3, Iteration
  <2> QED BY <2>1 DEF Iterates
<1>5. f = Following(f)
  <2>1. ASSUME NEW i \in 1 .. n PROVE f[i] = Directive(text, f[i - 1], format[i])
    <3>1. i - 1 \in 0 .. n
      BY <1>1
    <3>2. f[i - 1] \in D /\ f[i] = step[i][f[i - 1]]
      BY <1>4, <3>1
    <3> QED BY <3>2
  <2>2. ASSUME NEW i \in 0 .. n PROVE f[i] = IF i = 0 THEN FreshScan ELSE Directive(text, f[i - 1], format[i])
    <3>1. i = 0 \/ i \in 1 .. n
      BY <1>1
    <3> QED BY <3>1, <2>1, <1>4
  <2> QED BY <2>2
<1> DEFINE g == Scan(text, format)
<1>6. g = Following(g)
  <2> HIDE DEF Following
  <2>1. g = CHOOSE scan : scan = Following(scan)
    BY DEF Scan, Following, n
  <2> HIDE DEF g
  <2> QED BY <1>5, <2>1
<1> HIDE DEF g
<1>7. g[0] = FreshScan /\ \A i \in 1 .. n : g[i] = Directive(text, g[i - 1], format[i])
  <2>1. 0 \in 0 .. n /\ \A k \in 1 .. n : k \in 0 .. n /\ k # 0
    BY <1>1
  <2> QED BY <1>6, <2>1
<1>8. \A k \in 0 .. n : g[k] \in D
  <2> DEFINE P == {k \in 0 .. n : g[k] \in D}
  <2>1. 0 \in P
    BY <1>1, <1>2, <1>7
  <2>2. \A k \in 1 .. n : k - 1 \in P => k \in P
    BY <1>1, <1>2, <1>7
  <2> HIDE DEF P
  <2>3. \A k \in 0 .. n : k \in P
    BY <1>1, <2>1, <2>2, Ladder
  <2> QED BY <2>3 DEF P
<1>9. sscanf(text, format) = g[n].got
  BY DEF sscanf, Scan, FreshScan, g, n
<1>10. g = [k \in 0 .. n |-> g[k]]
  BY <1>6
<1>11. g \in [0 .. n -> D]
  BY <1>8, <1>10
<1> QED BY <1>7, <1>9, <1>11 DEF ScanProperties, g, n, D

\* What a directive does in a scan that goes on, and in one that does not.
Going(pos, got) == [at |-> pos, goesOn |-> TRUE, got |-> got]
HasEnded(pos, got) == [at |-> pos, goesOn |-> FALSE, got |-> got]
Taking(text, pos, got, p) ==
  [at |-> p, goesOn |-> p > pos, got |-> IF p > pos THEN Append(got, SubSeq(text, pos, p - 1)) ELSE got]

LEMMA ScanEnded ==
  ASSUME NEW text, NEW scan, NEW d, ~ scan.goesOn
  PROVE  Directive(text, scan, d) = scan
BY DEF Directive

LEMMA ScanUpto ==
  ASSUME NEW T, NEW text \in Seq(T), NEW pos \in 1 .. Len(text) + 1, NEW got, NEW S, NEW p, Stops(text, pos, S, p)
  PROVE  Directive(text, Going(pos, got), Upto(S)) = Taking(text, pos, got, p)
<1> DEFINE d == Upto(S)
           scan == Going(pos, got)
<1>1. Past(text, pos, d) = p
  BY PastUpto
<1>2. d.kind = "set"
  BY DEF Upto
<1>3. scan.at = pos /\ scan.goesOn = TRUE /\ scan.got = got
  BY DEF Going
<1>4. (p > pos) \in BOOLEAN
  OBVIOUS
<1> HIDE DEF d, scan
<1>5. Directive(text, scan, d) =
        [at |-> p, goesOn |-> p > pos \/ FALSE,
         got |-> IF p > pos THEN Append(got, SubSeq(text, pos, p - 1)) ELSE got]
  BY <1>1, <1>2, <1>3 DEF Directive
<1>6. (p > pos \/ FALSE) = (p > pos)
  BY <1>4
<1> QED BY <1>5, <1>6 DEF d, scan, Taking

LEMMA ScanOf ==
  ASSUME NEW T, NEW text \in Seq(T), NEW pos \in 1 .. Len(text) + 1, NEW got, NEW S, NEW p,
         Leaves(text, pos, S, p)
  PROVE  Directive(text, Going(pos, got), Of(S)) = Taking(text, pos, got, p)
<1> DEFINE d == Of(S)
           scan == Going(pos, got)
<1>2. d.kind = "set" /\ d.chars = S /\ d.but = FALSE
  BY DEF Of
<1>3. scan.at = pos /\ scan.goesOn = TRUE /\ scan.got = got
  BY DEF Going
<1> HIDE DEF d, scan
<1>1. Past(text, pos, d) = p
  BY <1>2, PastOthers
<1>5. Directive(text, scan, d) =
        [at |-> p, goesOn |-> p > pos \/ FALSE,
         got |-> IF p > pos THEN Append(got, SubSeq(text, pos, p - 1)) ELSE got]
  BY <1>1, <1>2, <1>3 DEF Directive
<1>6. (p > pos \/ FALSE) = (p > pos)
  OBVIOUS
<1> QED BY <1>5, <1>6 DEF d, scan, Taking

LEMMA ScanWhite ==
  ASSUME NEW T, NEW text \in Seq(T), NEW pos \in 1 .. Len(text) + 1, NEW got, NEW p,
         Leaves(text, pos, Blanks, p)
  PROVE  Directive(text, Going(pos, got), White) = Going(p, got)
<1> DEFINE scan == Going(pos, got)
<1>2. White.kind = "white" /\ White.chars = Blanks /\ White.but = FALSE
  BY DEF White
<1>3. scan.at = pos /\ scan.goesOn = TRUE /\ scan.got = got
  BY DEF Going
<1> HIDE DEF scan
<1>1. Past(text, pos, White) = p
  BY <1>2, PastOthers
<1>5. Directive(text, scan, White) = [at |-> p, goesOn |-> p > pos \/ TRUE, got |-> got]
  BY <1>1, <1>2, <1>3 DEF Directive
<1> QED BY <1>5 DEF scan, Going

LEMMA ScanJust ==
  ASSUME NEW T, NEW text \in Seq(T), NEW pos \in 1 .. Len(text) + 1, NEW got, NEW c
  PROVE  Directive(text, Going(pos, got), Just(c)) =
           IF pos <= Len(text) /\ text[pos] = c THEN Going(pos + 1, got) ELSE HasEnded(pos, got)
<1> DEFINE d == Just(c)
           scan == Going(pos, got)
           past == IF pos <= Len(text) /\ text[pos] = c THEN pos + 1 ELSE pos
<1>2. d.kind = "char"
  BY DEF Just
<1>3. scan.at = pos /\ scan.goesOn = TRUE /\ scan.got = got
  BY DEF Going
<1>1. Past(text, pos, d) = past
  BY PastJust
<1>4. pos \in Nat /\ (past > pos <=> (pos <= Len(text) /\ text[pos] = c))
  BY LenProperties
<1> HIDE DEF d, scan
<1>5. Directive(text, scan, d) = [at |-> past, goesOn |-> past > pos \/ FALSE, got |-> got]
  <2> HIDE DEF past
  <2> QED BY <1>1, <1>2, <1>3 DEF Directive
<1>6. CASE pos <= Len(text) /\ text[pos] = c
  <2>1. (past > pos \/ FALSE) = TRUE /\ past = pos + 1
    BY <1>4, <1>6
  <2> HIDE DEF past
  <2> QED BY <1>5, <1>6, <2>1 DEF scan, d, Going, HasEnded
<1>7. CASE ~ (pos <= Len(text) /\ text[pos] = c)
  <2>1. (past > pos \/ FALSE) = FALSE /\ past = pos
    BY <1>4, <1>7
  <2> HIDE DEF past
  <2> QED BY <1>5, <1>7, <2>1 DEF scan, d, Going, HasEnded
<1> QED BY <1>6, <1>7

LEMMA Takes ==
  ASSUME NEW text, NEW pos \in Nat, NEW got, NEW p \in Nat
  PROVE  /\ p > pos => Taking(text, pos, got, p) = Going(p, Append(got, SubSeq(text, pos, p - 1)))
         /\ p = pos => Taking(text, pos, got, p) = HasEnded(p, got)
<1>1. CASE p > pos
  <2> DEFINE more == Append(got, SubSeq(text, pos, p - 1))
             b == p > pos
  <2>1. b = TRUE /\ p # pos
    BY <1>1
  <2>2. Taking(text, pos, got, p) = [at |-> p, goesOn |-> b, got |-> IF b THEN more ELSE got]
    BY DEF Taking
  <2> HIDE DEF more, b
  <2>3. Taking(text, pos, got, p) = Going(p, more)
    BY <2>1, <2>2 DEF Going
  <2> QED BY <2>1, <2>3 DEF more
<1>2. CASE p = pos
  <2>1. (p > pos) = FALSE
    BY <1>2
  <2> QED BY <1>2, <2>1 DEF Taking, HasEnded
<1> QED BY <1>1, <1>2

-----------------------------------------------------------------------------
(* The formats of iniparser_line.                                          *)

BeginsKeyEquals(format) ==
  /\ Len(format) \in Nat /\ Len(format) >= 4
  /\ format[1] = Upto({"="}) /\ format[2] = White /\ format[3] = Just("=") /\ format[4] = White

LEMMA Formats ==
  /\ \A q : /\ BeginsKeyEquals(Quoted(q)) /\ Len(Quoted(q)) = 7
            /\ Quoted(q)[5] = Just(q) /\ Quoted(q)[6] = Upto({q}) /\ Quoted(q)[7] = Just(q)
  /\ BeginsKeyEquals(Plain) /\ Len(Plain) = 5 /\ Plain[5] = Upto(Remarks)
  /\ BeginsKeyEquals(KeyEquals \o <<Of(Remarks)>>) /\ Len(KeyEquals \o <<Of(Remarks)>>) = 5
  /\ (KeyEquals \o <<Of(Remarks)>>)[5] = Of(Remarks)
<1>1. ASSUME NEW q
      PROVE  /\ BeginsKeyEquals(Quoted(q)) /\ Len(Quoted(q)) = 7
             /\ Quoted(q)[5] = Just(q) /\ Quoted(q)[6] = Upto({q}) /\ Quoted(q)[7] = Just(q)
  BY DEF BeginsKeyEquals, Quoted, KeyEquals
<1>2. BeginsKeyEquals(Plain) /\ Len(Plain) = 5 /\ Plain[5] = Upto(Remarks)
  BY DEF BeginsKeyEquals, Plain, KeyEquals
<1>3. /\ BeginsKeyEquals(KeyEquals \o <<Of(Remarks)>>) /\ Len(KeyEquals \o <<Of(Remarks)>>) = 5
      /\ (KeyEquals \o <<Of(Remarks)>>)[5] = Of(Remarks)
  BY DEF BeginsKeyEquals, KeyEquals
<1> QED BY <1>1, <1>2, <1>3

\* The first directives of a format, one by one.
LEMMA KeyEqualsSteps ==
  ASSUME NEW T, NEW text \in Seq(T), NEW format, BeginsKeyEquals(format)
  PROVE  /\ Scan(text, format)[1] = Directive(text, Going(1, <<>>), Upto({"="}))
         /\ Scan(text, format)[2] = Directive(text, Scan(text, format)[1], White)
         /\ Scan(text, format)[3] = Directive(text, Scan(text, format)[2], Just("="))
         /\ Scan(text, format)[4] = Directive(text, Scan(text, format)[3], White)
<1> DEFINE scan == Scan(text, format)
<1>1. ScanProperties(T, text, format)
  BY ScanStep DEF BeginsKeyEquals
<1>2. \A i \in 1 .. Len(format) : scan[i] = Directive(text, scan[i - 1], format[i])
  BY <1>1 DEF ScanProperties
<1>3. 1 \in 1 .. Len(format) /\ 2 \in 1 .. Len(format) /\ 3 \in 1 .. Len(format) /\ 4 \in 1 .. Len(format)
      /\ 1 - 1 = 0 /\ 2 - 1 = 1 /\ 3 - 1 = 2 /\ 4 - 1 = 3
  BY DEF BeginsKeyEquals
<1>4. scan[0] = Going(1, <<>>)
  BY <1>1 DEF ScanProperties, FreshScan, Going
<1> HIDE DEF scan
<1>5. /\ scan[1] = Directive(text, scan[0], format[1]) /\ scan[2] = Directive(text, scan[1], format[2])
      /\ scan[3] = Directive(text, scan[2], format[3]) /\ scan[4] = Directive(text, scan[3], format[4])
  BY <1>2, <1>3
<1>6. /\ scan[1] = Directive(text, Going(1, <<>>), Upto({"="})) /\ scan[2] = Directive(text, scan[1], White)
      /\ scan[3] = Directive(text, scan[2], Just("=")) /\ scan[4] = Directive(text, scan[3], White)
  BY <1>4, <1>5 DEF BeginsKeyEquals
<1> QED BY <1>6 DEF scan

\* Up to the "=" and the blanks behind it.
LEMMA KeyEqualsScan ==
  ASSUME NEW T, NEW text \in Seq(T), NEW e \in 2 .. Len(text), Stops(text, 1, {"="}, e),
         NEW p, Leaves(text, e + 1, Blanks, p),
         NEW format, BeginsKeyEquals(format)
  PROVE  Scan(text, format)[4] = Going(p, <<SubSeq(text, 1, e - 1)>>)
<1> DEFINE scan == Scan(text, format)
           key == SubSeq(text, 1, e - 1)
           none == <<>>
<1>2. Len(text) \in Nat /\ e \in 1 .. Len(text) + 1 /\ e + 1 \in 1 .. Len(text) + 1 /\ 1 \in 1 .. Len(text) + 1
  BY LenProperties
<1>3. text[e] = "=" /\ e <= Len(text)
  BY <1>2 DEF Stops
<1>4. /\ scan[1] = Directive(text, Going(1, none), Upto({"="})) /\ scan[2] = Directive(text, scan[1], White)
      /\ scan[3] = Directive(text, scan[2], Just("=")) /\ scan[4] = Directive(text, scan[3], White)
  BY KeyEqualsSteps
<1>9. Append(none, key) = <<key>>
  OBVIOUS
<1> HIDE DEF scan, none
<1>5. scan[1] = Going(e, <<key>>)
  <2>1. scan[1] = Taking(text, 1, none, e)
    BY <1>2, <1>4, ScanUpto
  <2>2. e > 1 /\ 1 \in Nat /\ e \in Nat
    OBVIOUS
  <2>3. Taking(text, 1, none, e) = Going(e, Append(none, SubSeq(text, 1, e - 1)))
    BY <2>2, Takes
  <2> QED BY <1>9, <2>1, <2>3
<1> HIDE DEF key
<1>6. scan[2] = Going(e, <<key>>)
  <2>1. Leaves(text, e, Blanks, e)
    <3>1. e \in e .. Len(text) + 1 /\ e .. e - 1 = {}
      BY <1>2
    <3>2. text[e] \notin Blanks
      BY <1>3 DEF Blanks
    <3> QED BY <3>1, <3>2 DEF Leaves
  <2> QED BY <1>2, <1>4, <1>5, <2>1, ScanWhite
<1>7. scan[3] = Going(e + 1, <<key>>)
  BY <1>2, <1>3, <1>4, <1>6, ScanJust
<1>8. scan[4] = Going(p, <<key>>)
  BY <1>2, <1>4, <1>7, ScanWhite
<1> QED BY <1>8 DEF scan, key

\* Without a key or without an "=" the scan ends there.
LEMMA NoKeyScan ==
  ASSUME NEW T, NEW text \in Seq(T), NEW e \in 1 .. Len(text) + 1, Stops(text, 1, {"="}, e), e \notin 2 .. Len(text),
         NEW format, BeginsKeyEquals(format)
  PROVE  \E got : Scan(text, format)[4] = HasEnded(e, got) /\ Len(got) \in {0, 1}
<1> DEFINE scan == Scan(text, format)
           key == SubSeq(text, 1, e - 1)
           none == <<>>
<1>2. Len(text) \in Nat /\ 1 \in 1 .. Len(text) + 1 /\ (e = 1 \/ e = Len(text) + 1)
  BY LenProperties
<1>4. /\ scan[1] = Directive(text, Going(1, none), Upto({"="})) /\ scan[2] = Directive(text, scan[1], White)
      /\ scan[3] = Directive(text, scan[2], Just("=")) /\ scan[4] = Directive(text, scan[3], White)
  BY KeyEqualsSteps
<1>9. Append(none, key) = <<key>> /\ Len(none) = 0 /\ Len(<<key>>) = 1
  OBVIOUS
<1> HIDE DEF scan, none
<1>3. \A a, g : ~ HasEnded(a, g).goesOn
  BY DEF HasEnded
<1>5. scan[1] = Taking(text, 1, none, e)
  BY <1>2, <1>4, ScanUpto
<1>6. CASE e = 1
  <2>1. scan[1] = HasEnded(1, none)
    BY <1>5, <1>6, Takes
  <2>2. scan[4] = scan[1]
    BY <1>3, <1>4, <2>1, ScanEnded
  <2> QED BY <1>6, <1>9, <2>1, <2>2 DEF scan
<1>7. CASE e = Len(text) + 1 /\ e # 1
  <2>1. scan[1] = Going(e, <<key>>)
    <3>1. e > 1 /\ 1 \in Nat /\ e \in Nat
      BY <1>2, <1>7
    <3>2. Taking(text, 1, none, e) = Going(e, Append(none, SubSeq(text, 1, e - 1)))
      BY <3>1, Takes
    <3> QED BY <1>5, <1>9, <3>2
  <2> HIDE DEF key
  <2>2. scan[2] = Going(e, <<key>>)
    <3>1. Leaves(text, e, Blanks, e)
      BY <1>2, <1>7 DEF Leaves
    <3> QED BY <1>4, <2>1, <3>1, ScanWhite
  <2>3. scan[3] = HasEnded(e, <<key>>)
    <3>2. ~ (e <= Len(text))
      BY <1>2, <1>7
    <3> QED BY <1>4, <2>2, <3>2, ScanJust
  <2>4. scan[4] = scan[3]
    BY <1>3, <1>4, <2>3, ScanEnded
  <2> QED BY <1>9, <2>3, <2>4 DEF scan
<1> QED BY <1>2, <1>6, <1>7

ScansOn(text, format, scan, n) ==
  /\ \A i \in 5 .. n : scan[i] = Directive(text, scan[i - 1], format[i])
  /\ sscanf(text, format) = scan[n].got

LEMMA LaterSteps ==
  ASSUME NEW T, NEW text \in Seq(T), NEW format, BeginsKeyEquals(format)
  PROVE  ScansOn(text, format, Scan(text, format), Len(format))
<1>1. ScanProperties(T, text, format)
  BY ScanStep DEF BeginsKeyEquals
<1> QED BY <1>1 DEF ScanProperties, ScansOn

LEMMA Appended ==
  ASSUME NEW S, NEW s \in Seq(S), NEW y \in S
  PROVE  /\ Append(s, y) \in Seq(S) /\ Len(Append(s, y)) = Len(s) + 1
         /\ \A i \in 1 .. Len(s) : Append(s, y)[i] = s[i]
         /\ Append(s, y)[Len(s) + 1] = y
<1>1. Append(s, y) \in Seq(S) /\ Len(Append(s, y)) = Len(s) + 1
  BY AppendProperties
<1>2. \A i \in 1 .. Len(s) : Append(s, y)[i] = s[i]
  BY AppendProperties
<1>3. Append(s, y)[Len(s) + 1] = y
  BY AppendProperties
<1> QED BY ONLY <1>1, <1>2, <1>3

LEMMA AppendToOne ==
  ASSUME NEW S, NEW one \in Seq(S), NEW y \in S, NEW two \in Seq(S),
         Len(one) = 1, Len(two) = 2, two[1] = one[1], two[2] = y
  PROVE  Append(one, y) = two
<1> DEFINE new == Append(one, y)
<1>1. /\ new \in Seq(S) /\ Len(new) = Len(one) + 1
      /\ \A i \in 1 .. Len(one) : new[i] = one[i]
      /\ new[Len(one) + 1] = y
  BY ONLY one \in Seq(S), y \in S, Appended
<1> HIDE DEF new
<1>2. Len(new) = 2 /\ new[1] = one[1]
  BY ONLY <1>1, Len(one) = 1
<1>3. new[2] = y
  BY ONLY <1>1, Len(one) = 1
<1>4. \A i \in 1 .. 2 : new[i] = two[i]
  BY <1>2, <1>3
<1>5. new = two
  BY ONLY <1>1, <1>2, <1>4, two \in Seq(S), Len(two) = 2, SeqEqual
<1> QED BY <1>5 DEF new

LEMMA AppendOne ==
  ASSUME NEW x, NEW y
  PROVE  Len(<<x>>) = 1 /\ Append(<<x>>, y) = <<x, y>>
<1> DEFINE S == {x, y}
           one == <<x>>
           two == <<x, y>>
<1>1. /\ one \in Seq(S) /\ two \in Seq(S) /\ y \in S
      /\ Len(one) = 1 /\ Len(two) = 2 /\ two[1] = one[1] /\ two[2] = y
  OBVIOUS
<1> HIDE DEF S, one, two
<1>2. Append(one, y) = two
  BY ONLY <1>1, AppendToOne
<1> QED BY <1>1, <1>2 DEF one, two

LEMMA Got ==
  ASSUME NEW pos, NEW got
  PROVE  Going(pos, got).got = got /\ HasEnded(pos, got).got = got /\ ~ HasEnded(pos, got).goesOn
BY DEF Going, HasEnded

\* A value in quotes.
LEMMA QuotedScan ==
  ASSUME NEW T, NEW text \in Seq(T), NEW e \in 2 .. Len(text), Stops(text, 1, {"="}, e),
         NEW p \in 1 .. Len(text) + 1, Leaves(text, e + 1, Blanks, p), NEW q
  PROVE  /\ p > Len(text) \/ text[p] # q => Len(sscanf(text, Quoted(q))) = 1
         /\ p <= Len(text) /\ text[p] = q =>
              \A r : Stops(text, p + 1, {q}, r) =>
                /\ r = p + 1 => Len(sscanf(text, Quoted(q))) = 1
                /\ r > p + 1 => sscanf(text, Quoted(q)) = <<SubSeq(text, 1, e - 1), SubSeq(text, p + 1, r - 1)>>
<1> DEFINE format == Quoted(q)
           scan == Scan(text, format)
           key == SubSeq(text, 1, e - 1)
           one == <<key>>
<1>1. Len(text) \in Nat
  BY LenProperties
<1>2. BeginsKeyEquals(format) /\ Len(format) = 7 /\ format[5] = Just(q) /\ format[6] = Upto({q}) /\ format[7] = Just(q)
  BY Formats
<1>3. scan[4] = Going(p, one)
  BY <1>2, KeyEqualsScan
<1>4. /\ scan[5] = Directive(text, scan[4], Just(q)) /\ scan[6] = Directive(text, scan[5], Upto({q}))
      /\ scan[7] = Directive(text, scan[6], Just(q)) /\ sscanf(text, format) = scan[7].got
  <2> HIDE DEF format
  <2>1. ScansOn(text, format, scan, 7)
    BY <1>2, LaterSteps
  <2> HIDE DEF scan
  <2>2. 5 \in 5 .. 7 /\ 6 \in 5 .. 7 /\ 7 \in 5 .. 7 /\ 5 - 1 = 4 /\ 6 - 1 = 5 /\ 7 - 1 = 6
    OBVIOUS
  <2>3. sscanf(text, format) = scan[7].got
    BY <2>1 DEF ScansOn
  <2>4. scan[5] = Directive(text, scan[4], format[5]) /\ scan[6] = Directive(text, scan[5], format[6])
        /\ scan[7] = Directive(text, scan[6], format[7])
    BY <2>1, <2>2 DEF ScansOn
  <2> QED BY <1>2, <2>3, <2>4
<1>5. Len(one) = 1 /\ \A x : Append(one, x) = <<key, x>>
  BY AppendOne
<1> HIDE DEF format, scan, key, one
<1>6. CASE p > Len(text) \/ text[p] # q
  <2>1. scan[5] = HasEnded(p, one)
    BY <1>1, <1>3, <1>4, <1>6, ScanJust
  <2>2. scan[7] = scan[5]
    BY <1>4, <2>1, Got, ScanEnded
  <2>3. sscanf(text, format) = one
    BY <1>4, <2>1, <2>2, Got
  <2> QED BY <1>1, <1>5, <1>6, <2>3 DEF format
<1>7. CASE p <= Len(text) /\ text[p] = q
  <2> SUFFICES ASSUME NEW r, Stops(text, p + 1, {q}, r)
               PROVE  /\ r = p + 1 => Len(sscanf(text, format)) = 1
                      /\ r > p + 1 => sscanf(text, format) = <<key, SubSeq(text, p + 1, r - 1)>>
    <3>1. ~ (p > Len(text) \/ text[p] # q)
      BY <1>1, <1>7
    <3> QED BY <3>1 DEF format, key
  <2>1. p + 1 \in 1 .. Len(text) + 1 /\ p + 1 \in Nat /\ r \in Nat /\ r \in 1 .. Len(text) + 1
    BY <1>1, <1>7 DEF Stops
  <2>2. scan[5] = Going(p + 1, one)
    BY <1>3, <1>4, <1>7, ScanJust
  <2>3. scan[6] = Taking(text, p + 1, one, r)
    BY <1>4, <2>1, <2>2, ScanUpto
  <2>4. CASE r = p + 1
    <3>1. scan[6] = HasEnded(r, one)
      BY <2>1, <2>3, <2>4, Takes
    <3>2. scan[7] = scan[6]
      BY <1>4, <3>1, Got, ScanEnded
    <3>3. sscanf(text, format) = one
      BY <1>4, <3>1, <3>2, Got
    <3> QED BY <1>5, <2>1, <2>4, <3>3
  <2>5. CASE r > p + 1
    <3> DEFINE value == SubSeq(text, p + 1, r - 1)
               two == Append(one, value)
    <3>1. scan[6] = Going(r, two)
      BY <2>1, <2>3, <2>5, Takes
    <3> HIDE DEF two
    <3>2. scan[7] = Going(r + 1, two) \/ scan[7] = HasEnded(r, two)
      BY <1>4, <2>1, <3>1, ScanJust
    <3>3. sscanf(text, format) = two
      BY <1>4, <3>2, Got
    <3>4. two = <<key, value>>
      BY <1>5 DEF two
    <3> QED BY <2>1, <2>5, <3>3, <3>4
  <2>6. r = p + 1 \/ r > p + 1
    BY <2>1 DEF Stops
  <2> QED BY <2>4, <2>5, <2>6
<1> QED BY <1>1, <1>6, <1>7 DEF format, key

\* A value without quotes, up to a remark.
LEMMA PlainScan ==
  ASSUME NEW T, NEW text \in Seq(T), NEW e \in 2 .. Len(text), Stops(text, 1, {"="}, e),
         NEW p \in 1 .. Len(text) + 1, Leaves(text, e + 1, Blanks, p),
         NEW r, Stops(text, p, Remarks, r)
  PROVE  /\ r = p => Len(sscanf(text, Plain)) = 1
         /\ r > p => sscanf(text, Plain) = <<SubSeq(text, 1, e - 1), SubSeq(text, p, r - 1)>>
<1> DEFINE scan == Scan(text, Plain)
           key == SubSeq(text, 1, e - 1)
           one == <<key>>
           value == SubSeq(text, p, r - 1)
<1>1. Len(text) \in Nat /\ p \in Nat /\ r \in Nat /\ (r = p \/ r > p)
  BY LenProperties DEF Stops
<1>2. BeginsKeyEquals(Plain) /\ Len(Plain) = 5 /\ Plain[5] = Upto(Remarks)
  BY Formats
<1>3. scan[4] = Going(p, one)
  BY <1>2, KeyEqualsScan
<1>4. scan[5] = Directive(text, scan[4], Upto(Remarks)) /\ sscanf(text, Plain) = scan[5].got
  <2>1. ScansOn(text, Plain, scan, 5)
    BY <1>2, LaterSteps
  <2>3. 5 \in 5 .. 5 /\ 5 - 1 = 4
    OBVIOUS
  <2> HIDE DEF scan
  <2>4. scan[5] = Directive(text, scan[4], Plain[5]) /\ sscanf(text, Plain) = scan[5].got
    BY <2>1, <2>3 DEF ScansOn
  <2> QED BY <1>2, <2>4
<1>5. Len(one) = 1 /\ Append(one, value) = <<key, value>>
  BY AppendOne
<1> HIDE DEF scan, key, one
<1>6. scan[5] = Taking(text, p, one, r)
  BY <1>3, <1>4, ScanUpto
<1>7. CASE r = p
  <2>1. scan[5] = HasEnded(r, one)
    BY <1>1, <1>6, <1>7, Takes
  <2> QED BY <1>1, <1>4, <1>5, <1>7, <2>1, Got
<1>8. CASE r > p
  <2>1. scan[5] = Going(r, Append(one, value))
    BY <1>1, <1>6, <1>8, Takes
  <2>2. scan[5] = Going(r, <<key, value>>)
    BY <1>5, <2>1
  <2>3. sscanf(text, Plain) = <<key, value>>
    <3> HIDE DEF value
    <3> QED BY <1>4, <2>2, Got
  <2> QED BY <1>1, <1>8, <2>3 DEF key
<1> QED BY <1>1, <1>7, <1>8

\* No format matches a line without a key or without an "=".
LEMMA NoKeyFormats ==
  ASSUME NEW T, NEW text \in Seq(T), NEW e \in 1 .. Len(text) + 1, Stops(text, 1, {"="}, e), e \notin 2 .. Len(text),
         NEW format, BeginsKeyEquals(format)
  PROVE  Len(sscanf(text, format)) \in {0, 1}
<1> DEFINE scan == Scan(text, format)
           n == Len(format)
<1>1. PICK got : scan[4] = HasEnded(e, got) /\ Len(got) \in {0, 1}
  BY NoKeyScan
<1>2. (\A i \in 5 .. n : scan[i] = Directive(text, scan[i - 1], format[i])) /\ sscanf(text, format) = scan[n].got
  BY LaterSteps DEF ScansOn
<1>3. n \in Nat /\ n >= 4
  BY DEF BeginsKeyEquals
<1> DEFINE P == {j \in 0 .. n - 4 : scan[4 + j] = HasEnded(e, got)}
<1> HIDE DEF scan, n
<1>4. 0 \in P
  BY <1>1, <1>3
<1>5. ASSUME NEW j \in 1 .. n - 4, j - 1 \in P PROVE j \in P
  <2>1. 4 + j \in 5 .. n /\ (4 + j) - 1 = 4 + (j - 1) /\ j \in 0 .. n - 4
    BY <1>3
  <2>2. scan[4 + j] = Directive(text, scan[4 + (j - 1)], format[4 + j]) /\ scan[4 + (j - 1)] = HasEnded(e, got)
    BY <1>2, <1>5, <2>1
  <2>3. scan[4 + j] = HasEnded(e, got)
    BY <2>2, Got, ScanEnded
  <2> QED BY <2>1, <2>3
<1> HIDE DEF P
<1>6. \A j \in 0 .. n - 4 : j \in P
  <2>1. n - 4 \in Nat
    BY <1>3
  <2> QED BY <1>4, <1>5, <2>1, Ladder
<1>7. n - 4 \in 0 .. n - 4 /\ 4 + (n - 4) = n
  BY <1>3
<1>8. scan[n] = HasEnded(e, got)
  <2>1. n - 4 \in P
    BY <1>6, <1>7
  <2> QED BY <1>7, <2>1 DEF P
<1> QED BY <1>1, <1>2, <1>8, Got

\* The format for a key with an "=" and nothing else.
LEMMA BareScan ==
  ASSUME NEW T, NEW text \in Seq(T), NEW e \in 1 .. Len(text) + 1, Stops(text, 1, {"="}, e)
  PROVE  /\ e \in 2 .. Len(text) => Len(sscanf(text, <<Upto({"="}), White, Of({"="})>>)) = 2
         /\ e \notin 2 .. Len(text) => Len(sscanf(text, <<Upto({"="}), White, Of({"="})>>)) \in {0, 1}
<1> DEFINE format == <<Upto({"="}), White, Of({"="})>>
           scan == Scan(text, format)
           key == SubSeq(text, 1, e - 1)
           none == <<>>
           one == <<key>>
<1>1. Len(text) \in Nat /\ 1 \in 1 .. Len(text) + 1
  BY LenProperties
<1>2. Len(format) = 3 /\ format[1] = Upto({"="}) /\ format[2] = White /\ format[3] = Of({"="})
  OBVIOUS
<1> HIDE DEF format
<1>3. ScanProperties(T, text, format)
  BY <1>2, ScanStep
<1>4. /\ scan[1] = Directive(text, Going(1, none), Upto({"="})) /\ scan[2] = Directive(text, scan[1], White)
      /\ scan[3] = Directive(text, scan[2], Of({"="})) /\ sscanf(text, format) = scan[3].got
  <2>1. /\ \A i \in 1 .. 3 : scan[i] = Directive(text, scan[i - 1], format[i])
        /\ scan[0] = Going(1, none) /\ sscanf(text, format) = scan[3].got
    BY <1>2, <1>3 DEF ScanProperties, FreshScan, Going
  <2>2. 1 \in 1 .. 3 /\ 2 \in 1 .. 3 /\ 3 \in 1 .. 3 /\ 1 - 1 = 0 /\ 2 - 1 = 1 /\ 3 - 1 = 2
    OBVIOUS
  <2> HIDE DEF scan
  <2>3. scan[1] = Directive(text, scan[0], format[1]) /\ scan[2] = Directive(text, scan[1], format[2])
        /\ scan[3] = Directive(text, scan[2], format[3])
    BY <2>1, <2>2
  <2> QED BY <1>2, <2>1, <2>3
<1>5. Append(none, key) = one /\ Len(one) = 1 /\ Len(none) = 0 /\ \A x : Len(Append(one, x)) = 2
  OBVIOUS
<1> HIDE DEF scan, none
<1>6. scan[1] = Taking(text, 1, none, e)
  BY <1>1, <1>4, ScanUpto
<1>7. CASE e = 1
  <2>1. scan[1] = HasEnded(1, none)
    BY <1>6, <1>7, Takes
  <2>2. scan[3] = scan[1]
    BY <1>4, <2>1, Got, ScanEnded
  <2> QED BY <1>4, <1>5, <1>7, <2>1, <2>2, Got DEF format
<1>8. CASE e > 1
  <2>1. scan[1] = Going(e, one)
    <3>1. 1 \in Nat /\ e \in Nat
      OBVIOUS
    <3>2. Taking(text, 1, none, e) = Going(e, Append(none, SubSeq(text, 1, e - 1)))
      BY <1>8, <3>1, Takes
    <3> QED BY <1>5, <1>6, <3>2
  <2> HIDE DEF one
  <2>2. scan[2] = Going(e, one)
    <3>1. e \in e .. Len(text) + 1 /\ e .. e - 1 = {}
      BY <1>1
    <3>2. e <= Len(text) => text[e] \notin Blanks
      BY DEF Stops, Blanks
    <3>3. Leaves(text, e, Blanks, e)
      BY <3>1, <3>2 DEF Leaves
    <3> QED BY <1>4, <2>1, <3>3, ScanWhite
  <2>3. PICK r \in 1 .. Len(text) + 1 : Leaves(text, e, {"="}, r)
    BY LeaveExists
  <2>4. scan[3] = Taking(text, e, one, r)
    BY <1>4, <2>2, <2>3, ScanOf
  <2>5. CASE e \in 2 .. Len(text)
    <3>1. r > e /\ e \in Nat /\ r \in Nat
      <4>1. text[e] = "=" /\ e <= Len(text)
        BY <2>5 DEF Stops
      <4>2. r # e /\ r \in e .. Len(text) + 1
        BY <2>3, <4>1 DEF Leaves
      <4> QED BY <1>1, <4>2
    <3> DEFINE two == Append(one, SubSeq(text, e, r - 1))
    <3>2. scan[3] = Going(r, two)
      BY <2>4, <3>1, Takes
    <3>4. Len(two) = 2
      BY <1>5
    <3> HIDE DEF two
    <3>3. sscanf(text, format) = two
      BY <1>4, <3>2, Got
    <3> QED BY <2>5, <3>3, <3>4 DEF format
  <2>6. CASE e \notin 2 .. Len(text)
    <3>1. r = e /\ e \in Nat
      BY <1>1, <1>8, <2>3, <2>6 DEF Leaves
    <3>2. scan[3] = HasEnded(r, one)
      BY <2>4, <3>1, Takes
    <3>3. sscanf(text, format) = one
      BY <1>4, <3>2, Got
    <3> QED BY <1>5, <2>6, <3>3 DEF format
  <2> QED BY <2>5, <2>6
<1>9. e = 1 \/ e > 1
  BY <1>1
<1> QED BY <1>7, <1>8, <1>9

-----------------------------------------------------------------------------
(* Pieces of a text, and their blanks.                                     *)

LEMMA PieceOf ==
  ASSUME NEW T, NEW text \in Seq(T), NEW a \in 1 .. Len(text) + 1, NEW b \in a - 1 .. Len(text)
  PROVE  /\ SubSeq(text, a, b) \in Seq(T)
         /\ Len(SubSeq(text, a, b)) = b - a + 1
         /\ \A i \in 1 .. b - a + 1 : SubSeq(text, a, b)[i] = text[a + i - 1]
<1>1. Len(text) \in Nat /\ a \in Int /\ b \in Int /\ \A i \in 1 .. Len(text) : text[i] \in T
  BY LenProperties
<1>2. \A i \in a .. b : text[i] \in T
  BY <1>1
<1>3. /\ SubSeq(text, a, b) \in Seq(T)
      /\ Len(SubSeq(text, a, b)) = IF a <= b THEN b - a + 1 ELSE 0
      /\ \A i \in 1 .. b - a + 1 : SubSeq(text, a, b)[i] = text[a + i - 1]
  BY <1>1, <1>2, SubSeqProperties
<1>4. a > b => b - a + 1 = 0
  BY <1>1
<1>5. Len(SubSeq(text, a, b)) = b - a + 1
  BY <1>1, <1>3, <1>4
<1> QED BY <1>3, <1>5

LEMMA PieceOfPiece ==
  ASSUME NEW T, NEW text \in Seq(T), NEW a \in 1 .. Len(text) + 1, NEW b \in a - 1 .. Len(text),
         NEW c \in 1 .. (b - a + 1) + 1, NEW d \in c - 1 .. b - a + 1
  PROVE  SubSeq(SubSeq(text, a, b), c, d) = SubSeq(text, (a + c) - 1, (a + d) - 1)
<1> DEFINE piece == SubSeq(text, a, b)
           one == SubSeq(piece, c, d)
           from == (a + c) - 1
           to == (a + d) - 1
           two == SubSeq(text, from, to)
<1>1. Len(text) \in Nat
  BY LenProperties
<1>2. piece \in Seq(T) /\ Len(piece) = b - a + 1 /\ \A i \in 1 .. b - a + 1 : piece[i] = text[a + i - 1]
  BY PieceOf
<1>3. from \in 1 .. Len(text) + 1 /\ to \in from - 1 .. Len(text) /\ to - from + 1 = d - c + 1
  BY <1>1
<1>4. c \in 1 .. Len(piece) + 1 /\ d \in c - 1 .. Len(piece)
  BY <1>2
<1>x. \A i \in 1 .. d - c + 1 : c + i - 1 \in 1 .. b - a + 1 /\ a + (c + i - 1) - 1 = from + i - 1
  BY <1>1
<1> HIDE DEF piece, from, to
<1>5. one \in Seq(T) /\ Len(one) = d - c + 1 /\ \A i \in 1 .. d - c + 1 : one[i] = piece[c + i - 1]
  BY <1>2, <1>4, PieceOf
<1>6. two \in Seq(T) /\ Len(two) = to - from + 1 /\ \A i \in 1 .. to - from + 1 : two[i] = text[from + i - 1]
  BY <1>3, PieceOf
<1>7. \A i \in 1 .. Len(one) : one[i] = two[i]
  <2> SUFFICES ASSUME NEW i \in 1 .. d - c + 1 PROVE one[i] = two[i]
    BY <1>5
  <2>1. one[i] = piece[c + i - 1] /\ two[i] = text[from + i - 1]
    BY <1>3, <1>5, <1>6
  <2>2. piece[c + i - 1] = text[a + (c + i - 1) - 1]
    BY <1>2, <1>x
  <2> QED BY <2>1, <2>2, <1>x
<1> HIDE DEF one, two
<1>8. one = two
  BY <1>3, <1>5, <1>6, <1>7, SeqEqual
<1> QED BY <1>8 DEF one, two, piece, from, to

LEMMA MaxIs ==
  ASSUME NEW S, \A x \in S : x \in Int, NEW p \in S, \A y \in S : y <= p
  PROVE  Max(S) = p
<1>1. \A x, y \in S : (\A z \in S : x >= z) /\ (\A z \in S : y >= z) => x = y
  OBVIOUS
<1>2. \A z \in S : p >= z
  OBVIOUS
<1> QED BY <1>1, <1>2 DEF Max

\* The text but for the blanks around it is from a to b.
Inner(text, a, b) ==
  /\ a \in 1 .. Len(text) + 1 /\ b \in a - 1 .. Len(text)
  /\ \A k \in 1 .. a - 1 : text[k] \in Blanks
  /\ \A k \in b + 1 .. Len(text) : text[k] \in Blanks
  /\ a <= b => text[a] \notin Blanks /\ text[b] \notin Blanks

LEMMA WithoutEndIs ==
  ASSUME NEW T, NEW text \in Seq(T), NEW b \in 0 .. Len(text),
         \A k \in b + 1 .. Len(text) : text[k] \in Blanks, b > 0 => text[b] \notin Blanks
  PROVE  WithoutEnd(text) = SubSeq(text, 1, b)
<1> DEFINE S == {k \in DOMAIN text : text[k] \notin Blanks} \cup {0}
<1>1. DOMAIN text = 1 .. Len(text) /\ Len(text) \in Nat
  BY LenProperties
<1>2. b \in S /\ \A x \in S : x \in Int
  BY <1>1
<1>3. \A y \in S : y <= b
  BY <1>1
<1> HIDE DEF S
<1>4. Max(S) = b
  BY <1>2, <1>3, MaxIs
<1> QED BY <1>4 DEF WithoutEnd, S

LEMMA StripIs ==
  ASSUME NEW T, NEW text \in Seq(T), NEW a, NEW b, Inner(text, a, b)
  PROVE  strstrip(text) = SubSeq(text, a, b)
<1>0. Len(text) \in Nat /\ a \in 1 .. Len(text) + 1 /\ b \in a - 1 .. Len(text) /\ DOMAIN text = 1 .. Len(text)
  BY LenProperties DEF Inner
<1>1. CASE a <= b
  <2> DEFINE inner == SubSeq(text, 1, b)
             S == {k \in DOMAIN inner : inner[k] \notin Blanks} \cup {Len(inner) + 1}
  <2>1. WithoutEnd(text) = inner
    <3>1. b \in 0 .. Len(text) /\ (\A k \in b + 1 .. Len(text) : text[k] \in Blanks) /\ (b > 0 => text[b] \notin Blanks)
      BY <1>0, <1>1 DEF Inner
    <3> QED BY <3>1, WithoutEndIs
  <2>2. inner \in Seq(T) /\ Len(inner) = b /\ \A i \in 1 .. b : inner[i] = text[i]
    <3>1. 1 \in 1 .. Len(text) + 1 /\ b \in 1 - 1 .. Len(text) /\ b - 1 + 1 = b /\ \A i \in 1 .. b : 1 + i - 1 = i
      BY <1>0
    <3>2. inner \in Seq(T) /\ Len(inner) = b - 1 + 1 /\ \A i \in 1 .. b - 1 + 1 : inner[i] = text[1 + i - 1]
      BY <3>1, PieceOf
    <3> QED BY <3>1, <3>2
  <2>3. DOMAIN inner = 1 .. b
    BY <2>2, LenProperties
  <2> HIDE DEF inner
  <2>4. a \in S /\ \A x \in S : x \in Int
    BY <1>0, <1>1, <2>2, <2>3 DEF Inner
  <2>5. \A y \in S : a <= y
    <3> SUFFICES ASSUME NEW y \in S, y < a PROVE FALSE
      BY <1>0, <2>4
    <3>1. y \in 1 .. b /\ text[y] \notin Blanks
      BY <1>0, <1>1, <2>2, <2>3
    <3>2. text[y] \in Blanks
      BY <3>1, <1>0 DEF Inner
    <3> QED BY <3>1, <3>2
  <2> HIDE DEF S
  <2>6. Min(S) = a
    BY <2>4, <2>5, MinIs
  <2>7. SubSeq(inner, a, b) = SubSeq(text, a, b)
    <3>1. /\ 1 \in 1 .. Len(text) + 1 /\ b \in 1 - 1 .. Len(text)
          /\ a \in 1 .. (b - 1 + 1) + 1 /\ b \in a - 1 .. b - 1 + 1 /\ (1 + a) - 1 = a /\ (1 + b) - 1 = b
      BY <1>0, <1>1
    <3>2. SubSeq(SubSeq(text, 1, b), a, b) = SubSeq(text, (1 + a) - 1, (1 + b) - 1)
      BY <3>1, PieceOfPiece
    <3> QED BY <3>1, <3>2 DEF inner
  <2> QED BY <2>1, <2>2, <2>6, <2>7 DEF strstrip, S
<1>2. CASE a > b
  <2>1. \A k \in 1 .. Len(text) : text[k] \in Blanks
    <3> SUFFICES ASSUME NEW k \in 1 .. Len(text) PROVE text[k] \in Blanks
      OBVIOUS
    <3>1. k \in 1 .. a - 1 \/ k \in b + 1 .. Len(text)
      BY <1>0, <1>2
    <3> QED BY <3>1 DEF Inner
  <2>2. WithoutEnd(text) = SubSeq(text, 1, 0)
    <3>1. 0 \in 0 .. Len(text) /\ (\A k \in 0 + 1 .. Len(text) : text[k] \in Blanks) /\ (0 > 0 => text[0] \notin Blanks)
      BY <1>0, <2>1
    <3> QED BY <3>1, WithoutEndIs
  <2>3. SubSeq(text, 1, 0) = <<>> /\ SubSeq(text, a, b) = <<>>
    BY <1>0, <1>2, SubSeqEmpty
  <2>4. \A m \in Int : SubSeq(<<>>, m, 0) = <<>> \/ m < 1
    BY SubSeqEmpty
  <2>5. {k \in DOMAIN <<>> : <<>>[k] \notin Blanks} \cup {Len(<<>>) + 1} = {1} /\ Len(<<>>) = 0
    OBVIOUS
  <2>6. Min({1}) = 1
    BY MinIs
  <2>7. strstrip(text) = SubSeq(<<>>, 1, 0)
    BY <2>2, <2>3, <2>5, <2>6 DEF strstrip
  <2> QED BY <2>3, <2>4, <2>7
<1> QED BY <1>0, <1>1, <1>2

LEMMA InnerExists ==
  ASSUME NEW T, NEW text \in Seq(T)
  PROVE  \E a, b \in Nat : Inner(text, a, b)
<1> DEFINE n == Len(text)
           R == {k \in 1 .. n : text[k] \notin Blanks}
<1>1. n \in Nat
  BY LenProperties
<1>2. CASE R = {}
  <2>1. Inner(text, 1, 0)
    BY <1>1, <1>2 DEF Inner
  <2> QED BY <2>1
<1>3. CASE R # {}
  <2>1. R \subseteq 0 .. n
    BY <1>1
  <2> DEFINE a == Min(R)
             b == Max(R)
  <2>2. a \in R /\ b \in R /\ (\A y \in R : a <= y) /\ (\A y \in R : y <= b)
    <3> HIDE DEF R
    <3> QED BY <1>1, <1>3, <2>1, MinProperties, MaxProperties
  <2> HIDE DEF a, b
  <2>3. a \in 1 .. n /\ b \in a .. n /\ text[a] \notin Blanks /\ text[b] \notin Blanks
    BY <1>1, <2>2
  <2>4. \A k \in 1 .. a - 1 : text[k] \in Blanks
    BY <1>1, <2>2, <2>3
  <2>5. \A k \in b + 1 .. n : text[k] \in Blanks
    BY <1>1, <2>2, <2>3
  <2>6. Inner(text, a, b)
    BY <1>1, <2>3, <2>4, <2>5 DEF Inner
  <2> QED BY <1>1, <2>3, <2>6
<1> QED BY <1>2, <1>3

Stripped(t) == t # <<>> => t[1] \notin Blanks /\ t[Len(t)] \notin Blanks

LEMMA StripType ==
  ASSUME NEW T, NEW text \in Seq(T)
  PROVE  strstrip(text) \in Seq(T) /\ Stripped(strstrip(text))
<1>1. PICK a, b \in Nat : Inner(text, a, b)
  BY InnerExists
<1>2. strstrip(text) = SubSeq(text, a, b)
  BY <1>1, StripIs
<1> DEFINE t == SubSeq(text, a, b)
<1>3. a \in 1 .. Len(text) + 1 /\ b \in a - 1 .. Len(text)
  BY <1>1 DEF Inner
<1>4. t \in Seq(T) /\ Len(t) = b - a + 1 /\ \A i \in 1 .. b - a + 1 : t[i] = text[a + i - 1]
  BY <1>3, PieceOf
<1>5. ASSUME t # <<>> PROVE t[1] \notin Blanks /\ t[Len(t)] \notin Blanks
  <2>1. Len(t) # 0
    BY <1>4, <1>5, EmptySeq
  <2>2. a <= b /\ 1 \in 1 .. b - a + 1 /\ b - a + 1 \in 1 .. b - a + 1 /\ a + 1 - 1 = a /\ a + (b - a + 1) - 1 = b
    BY <1>3, <1>4, <2>1
  <2>3. t[1] = text[a] /\ t[Len(t)] = text[b]
    BY <1>4, <2>2
  <2> QED BY <1>1, <2>2, <2>3 DEF Inner
<1> QED BY <1>2, <1>4, <1>5 DEF Stripped

\* A text without blanks around it stays what it is.
LEMMA StripStays ==
  ASSUME NEW T, NEW text \in Seq(T), Stripped(text)
  PROVE  strstrip(text) = text
<1>1. Len(text) \in Nat
  BY LenProperties
<1>2. CASE text = <<>>
  <2>1. Inner(text, 1, 0)
    BY <1>2 DEF Inner
  <2>2. strstrip(text) = SubSeq(text, 1, 0)
    BY <2>1, StripIs
  <2> QED BY <1>2, <2>2, SubSeqEmpty
<1>3. CASE text # <<>>
  <2>1. Len(text) # 0
    BY <1>3, EmptySeq
  <2>2. Inner(text, 1, Len(text))
    BY <1>1, <1>3, <2>1 DEF Inner, Stripped
  <2>3. strstrip(text) = SubSeq(text, 1, Len(text))
    BY <2>2, StripIs
  <2> QED BY <2>3, SubSeqFull
<1> QED BY <1>2, <1>3

\* A part of a text that is not the whole of it is smaller, and so is the part
\* without its blanks.
LEMMA StripSmaller ==
  ASSUME NEW text \in Seq(Token), NEW a \in 1 .. Len(text) + 1, NEW b \in a - 1 .. Len(text),
         b - a + 1 # Len(text)
  PROVE  /\ strstrip(SubSeq(text, a, b)) \in Seq(Token)
         /\ Size(strstrip(SubSeq(text, a, b))) \in Nat /\ Size(text) \in Nat
         /\ Size(strstrip(SubSeq(text, a, b))) < Size(text)
<1> DEFINE piece == SubSeq(text, a, b)
<1>0. Len(text) \in Nat
  BY LenProperties
<1>1. piece \in Seq(Token) /\ Len(piece) = b - a + 1
  BY PieceOf
<1>2. PICK c, d \in Nat : Inner(piece, c, d)
  BY <1>1, InnerExists
<1>3. strstrip(piece) = SubSeq(piece, c, d)
  BY <1>1, <1>2, StripIs
<1>4. c \in 1 .. (b - a + 1) + 1 /\ d \in c - 1 .. b - a + 1
  BY <1>1, <1>2 DEF Inner
<1> DEFINE from == (a + c) - 2
           to == (a + d) - 1
<1>5. from + 1 = (a + c) - 1 /\ from \in 0 .. Len(text) /\ to \in from .. Len(text) /\ to - from # Len(text)
  BY <1>0, <1>4
<1>6. SubSeq(piece, c, d) = SubSeq(text, (a + c) - 1, (a + d) - 1)
  BY <1>4, PieceOfPiece
<1> HIDE DEF from, to
<1>7. SubSeq(piece, c, d) = SubSeq(text, from + 1, to)
  BY <1>5, <1>6 DEF to
<1>8. /\ Size(text) \in Nat /\ Size(SubSeq(text, from + 1, to)) \in Nat
      /\ Size(SubSeq(text, from + 1, to)) < Size(text)
  BY <1>5, PieceSmaller
<1>9. strstrip(piece) \in Seq(Token)
  BY <1>1, StripType
<1> QED BY <1>3, <1>7, <1>8, <1>9

LEMMA BeforeIs ==
  ASSUME NEW T, NEW text \in Seq(T), NEW S, NEW p, Stops(text, 1, S, p)
  PROVE  Before(text, S) = SubSeq(text, 1, p - 1)
<1>1. Stops(text, 1, S, FirstIn(text, S))
  BY FirstInStops
<1>2. 1 \in 1 .. Len(text) + 1
  BY LenProperties
<1>3. FirstIn(text, S) = p
  BY <1>1, <1>2, StopUnique
<1> QED BY <1>3 DEF Before

LEMMA LoweredType ==
  ASSUME NEW text \in Seq(Token)
  PROVE  Lowered(text) \in Seq(Token) /\ Len(Lowered(text)) = Len(text)
<1>1. Len(text) \in Nat /\ DOMAIN text = 1 .. Len(text) /\ \A i \in 1 .. Len(text) : text[i] \in Token
  BY LenProperties
<1>2. Lowered(text) \in [1 .. Len(text) -> Token]
  BY <1>1, TokenAssumption DEF Lowered
<1>3. \A f \in [1 .. Len(text) -> Token] : f \in Seq(Token) /\ Len(f) = Len(text)
  BY <1>1, SeqDef
<1> QED BY <1>2, <1>3

\* The fronts of a text that a buffer of len bytes has room for.
LEMMA Kept ==
  ASSUME NEW text \in Seq(Token), NEW len \in Nat \ {0}
  PROVE  LET fits == {k \in 0 .. Len(text) : Size(SubSeq(text, 1, k)) < len}
         IN Max(fits) \in 0 .. Len(text) /\ \A k \in fits : k <= Max(fits)
<1> DEFINE fits == {k \in 0 .. Len(text) : Size(SubSeq(text, 1, k)) < len}
<1>1. Len(text) \in Nat
  BY LenProperties
<1>2. 0 \in fits
  <2>1. 0 \in 0 .. Len(text) /\ 0 \in 0 .. Len(text) /\ 0 + 1 = 1
    BY <1>1
  <2>2. Size(SubSeq(text, 0 + 1, 0)) = Sizes(text)[0] - Sizes(text)[0]
    BY <2>1, SizeOfPiece
  <2>3. Size(SubSeq(text, 1, 0)) = 0
    BY <2>1, <2>2, SizesStep
  <2> QED BY <2>1, <2>3
<1>3. fits \subseteq 0 .. Len(text)
  OBVIOUS
<1> HIDE DEF fits
<1>4. Max(fits) \in fits /\ \A k \in fits : k <= Max(fits)
  BY <1>1, <1>2, <1>3, MaxProperties
<1> QED BY <1>3, <1>4 DEF fits

LEMMA WholeLowered ==
  ASSUME NEW text \in Seq(Token), NEW len \in Nat \ {0}, Size(text) < len
  PROVE  strlwc(text, len) = Lowered(text)
<1> DEFINE fits == {k \in 0 .. Len(text) : Size(SubSeq(text, 1, k)) < len}
<1>1. Len(text) \in Nat /\ SubSeq(text, 1, Len(text)) = text
  BY LenProperties, SubSeqFull
<1>2. Len(text) \in fits
  <2>1. Len(text) \in 0 .. Len(text)
    BY <1>1
  <2>2. Size(SubSeq(text, 1, Len(text))) < len
    <3> HIDE DEF fits
    <3> QED BY <1>1
  <2> QED BY <2>1, <2>2
<1>3. Max(fits) \in 0 .. Len(text) /\ \A k \in fits : k <= Max(fits)
  BY Kept
<1> HIDE DEF fits
<1>4. Max(fits) = Len(text)
  BY <1>1, <1>2, <1>3
<1>5. strlwc(text, len) = Lowered(text) \o <<>>
  <2> DEFINE kept == Max(fits)
             whole == SubSeq(text, 1, kept)
  <2>1. strlwc(text, len) = Lowered(whole) \o IF kept < Len(text) /\ Size(whole) < len - 1 THEN <<"part">> ELSE <<>>
    BY DEF strlwc, fits
  <2>2. whole = text /\ ~ (kept < Len(text))
    BY <1>1, <1>4
  <2> HIDE DEF whole, kept
  <2> QED BY <2>1, <2>2
<1>6. Lowered(text) \in Seq(Token)
  BY LoweredType
<1> QED BY <1>5, <1>6, ConcatEmptySeq

LEMMA LowerType ==
  ASSUME NEW text \in Seq(Token), NEW len \in Nat \ {0}
  PROVE  strlwc(text, len) \in Seq(Token)
<1> DEFINE kept == Max({k \in 0 .. Len(text) : Size(SubSeq(text, 1, k)) < len})
           whole == SubSeq(text, 1, kept)
           rest == IF kept < Len(text) /\ Size(whole) < len - 1 THEN <<"part">> ELSE <<>>
<1>1. kept \in 0 .. Len(text) /\ Len(text) \in Nat
  BY Kept, LenProperties
<1> HIDE DEF kept
<1>2. 1 \in 1 .. Len(text) + 1 /\ kept \in 1 - 1 .. Len(text)
  BY <1>1
<1>3. whole \in Seq(Token)
  BY <1>2, PieceOf
<1>4. Lowered(whole) \in Seq(Token)
  BY <1>3, LoweredType
<1>5. rest \in Seq(Token)
  BY TokenAssumption
<1>6. strlwc(text, len) = Lowered(whole) \o rest
  BY DEF strlwc, kept
<1> HIDE DEF whole, rest
<1> QED BY <1>4, <1>5, <1>6, ConcatProperties

-----------------------------------------------------------------------------
(* Lines.                                                                  *)

\* The format for a header: nothing is converted where the brackets are empty.
LEMMA HeaderScan ==
  ASSUME NEW T, NEW text \in Seq(T), 1 <= Len(text), text[1] = "[", NEW r, Stops(text, 2, {"]"}, r)
  PROVE  /\ r = 2 => sscanf(text, <<Just("["), Upto({"]"})>>) = <<>>
         /\ r > 2 => sscanf(text, <<Just("["), Upto({"]"})>>) = <<SubSeq(text, 2, r - 1)>>
<1> DEFINE format == <<Just("["), Upto({"]"})>>
           scan == Scan(text, format)
           name == SubSeq(text, 2, r - 1)
           none == <<>>
           one == <<name>>
<1>1. Len(text) \in Nat /\ 1 \in 1 .. Len(text) + 1 /\ 2 \in 1 .. Len(text) + 1 /\ r \in Nat /\ 2 \in Nat
  BY LenProperties DEF Stops
<1>2. Len(format) = 2 /\ format[1] = Just("[") /\ format[2] = Upto({"]"})
  OBVIOUS
<1> HIDE DEF format
<1>3. ScanProperties(T, text, format)
  BY <1>2, ScanStep
<1>4. /\ scan[1] = Directive(text, Going(1, none), Just("[")) /\ scan[2] = Directive(text, scan[1], Upto({"]"}))
      /\ sscanf(text, format) = scan[2].got
  <2>1. /\ \A i \in 1 .. 2 : scan[i] = Directive(text, scan[i - 1], format[i])
        /\ scan[0] = Going(1, none) /\ sscanf(text, format) = scan[2].got
    BY <1>2, <1>3 DEF ScanProperties, FreshScan, Going
  <2>2. 1 \in 1 .. 2 /\ 2 \in 1 .. 2 /\ 1 - 1 = 0 /\ 2 - 1 = 1
    OBVIOUS
  <2> HIDE DEF scan
  <2>3. scan[1] = Directive(text, scan[0], format[1]) /\ scan[2] = Directive(text, scan[1], format[2])
    BY <2>1, <2>2
  <2> QED BY <1>2, <2>1, <2>3
<1>5. Append(none, name) = one
  OBVIOUS
<1> HIDE DEF scan, none, one
<1>6. scan[1] = Going(2, none)
  <2>1. scan[1] = Going(1 + 1, none)
    BY <1>1, <1>4, ScanJust
  <2> QED BY <2>1
<1>7. scan[2] = Taking(text, 2, none, r)
  BY <1>1, <1>4, <1>6, ScanUpto
<1>8. CASE r = 2
  <2>1. scan[2] = HasEnded(r, none)
    BY <1>1, <1>7, <1>8, Takes
  <2> QED BY <1>4, <1>8, <2>1, Got DEF format, none
<1>9. CASE r > 2
  <2>1. scan[2] = Going(r, Append(none, name))
    BY <1>1, <1>7, <1>9, Takes
  <2> HIDE DEF name
  <2>2. sscanf(text, format) = one
    BY <1>4, <1>5, <2>1, Got
  <2>3. sscanf(text, <<Just("["), Upto({"]"})>>) = <<SubSeq(text, 2, r - 1)>>
    BY <2>2 DEF format, one, name
  <2>4. r # 2
    BY <1>1, <1>9
  <2> QED BY <2>3, <2>4
<1> QED BY <1>1, <1>8, <1>9

\* What stands before the first of S in the end of a text.
LEMMA BeforeBehind ==
  ASSUME NEW T, NEW text \in Seq(T), NEW a \in 1 .. Len(text) + 1, NEW S, NEW r, Stops(text, a, S, r)
  PROVE  Before(SubSeq(text, a, Len(text)), S) = SubSeq(text, a, r - 1)
<1> DEFINE n == Len(text)
           piece == SubSeq(text, a, n)
           p == (r - a) + 1
<1>1. n \in Nat /\ a \in 1 .. n + 1 /\ n \in a - 1 .. n /\ r \in a .. n + 1
  BY LenProperties DEF Stops
<1>2. piece \in Seq(T) /\ Len(piece) = n - a + 1 /\ \A i \in 1 .. n - a + 1 : piece[i] = text[a + i - 1]
  BY <1>1, PieceOf
<1>3. /\ p \in 1 .. Len(piece) + 1 /\ (a + p) - 1 = r /\ (a + 1) - 1 = a /\ (a + (p - 1)) - 1 = r - 1
      /\ 1 \in 1 .. (n - a + 1) + 1 /\ p - 1 \in 1 - 1 .. n - a + 1
      /\ (p <= Len(piece) => p \in 1 .. n - a + 1 /\ r <= n /\ a + p - 1 = r)
  BY <1>1, <1>2
<1>4. \A k \in 1 .. p - 1 : k \in 1 .. n - a + 1 /\ a + k - 1 \in a .. r - 1
  BY <1>1
<1> HIDE DEF p, piece
<1>5. \A k \in 1 .. p - 1 : piece[k] \notin S
  BY <1>2, <1>4 DEF Stops
<1>6. p <= Len(piece) => piece[p] \in S
  BY <1>2, <1>3 DEF Stops
<1>7. Stops(piece, 1, S, p)
  BY <1>3, <1>5, <1>6 DEF Stops
<1>8. Before(piece, S) = SubSeq(piece, 1, p - 1)
  BY <1>2, <1>7, BeforeIs
<1>9. SubSeq(SubSeq(text, a, n), 1, p - 1) = SubSeq(text, (a + 1) - 1, (a + (p - 1)) - 1)
  BY <1>1, <1>3, PieceOfPiece
<1> QED BY <1>3, <1>8, <1>9 DEF piece

\* The right side of an entry, without its blanks.
LEMMA RightOf ==
  ASSUME NEW T, NEW text \in Seq(T), Stripped(text), NEW e \in 1 .. Len(text), NEW p, Leaves(text, e + 1, Blanks, p)
  PROVE  strstrip(SubSeq(text, e + 1, Len(text))) = SubSeq(text, p, Len(text))
<1> DEFINE n == Len(text)
           piece == SubSeq(text, e + 1, n)
           a == p - e
           b == n - e
<1>1. n \in Nat /\ e + 1 \in 1 .. n + 1 /\ n \in (e + 1) - 1 .. n /\ p \in e + 1 .. n + 1 /\ n - (e + 1) + 1 = b
  BY LenProperties DEF Leaves
<1>2. piece \in Seq(T) /\ Len(piece) = b /\ \A i \in 1 .. b : piece[i] = text[(e + 1) + i - 1]
  BY <1>1, PieceOf, ZenonT(60)
<1>3. /\ a \in 1 .. b + 1 /\ b \in a - 1 .. b /\ b + 1 .. b = {}
      /\ ((e + 1) + a) - 1 = p /\ ((e + 1) + b) - 1 = n
      /\ (a <= b => a \in 1 .. b /\ b \in 1 .. b /\ p <= n /\ (e + 1) + a - 1 = p /\ (e + 1) + b - 1 = n)
  BY <1>1
<1>4. \A k \in 1 .. a - 1 : k \in 1 .. b /\ (e + 1) + k - 1 \in e + 1 .. p - 1
  BY <1>1
<1>5. text # <<>> /\ text[n] \notin Blanks
  BY EmptySeq DEF Stripped
<1> HIDE DEF a, b, piece
<1>6. \A k \in 1 .. a - 1 : piece[k] \in Blanks
  BY <1>2, <1>4 DEF Leaves
<1>7. a <= b => piece[a] \notin Blanks /\ piece[b] \notin Blanks
  BY <1>2, <1>3, <1>5 DEF Leaves
<1>8. Inner(piece, a, b)
  BY <1>2, <1>3, <1>6, <1>7 DEF Inner
<1>9. strstrip(piece) = SubSeq(piece, a, b)
  BY <1>2, <1>8, StripIs
<1>10. SubSeq(SubSeq(text, e + 1, n), a, b) = SubSeq(text, ((e + 1) + a) - 1, ((e + 1) + b) - 1)
  <2>1. a \in 1 .. (n - (e + 1) + 1) + 1 /\ b \in a - 1 .. n - (e + 1) + 1
    BY <1>1, <1>3
  <2> QED BY <1>1, <2>1, PieceOfPiece
<1> QED BY <1>3, <1>9, <1>10 DEF piece

\* What iniparser_line finds as the value of a line, and what the line gives.
Plainly(value) == IF value \in {<<q, q>> : q \in Quotes} THEN <<>> ELSE value
FoundIn(row) ==
  LET format == CHOOSE f \in KeyFormats(row) : TRUE
      got == sscanf(row, format)
  IN IF KeyFormats(row) = {} THEN <<>>
     ELSE IF format = Plain THEN Plainly(strstrip(got[2])) ELSE got[2]
GivenIn(row) ==
  LET right == strstrip(SubSeq(row, FirstIn(row, {"="}) + 1, Len(row)))
  IN IF Len(right) > 1 /\ right[1] \in Quotes /\ right[2] # right[1]
     THEN Before(Tail(right), {right[1]})
     ELSE Plainly(strstrip(Before(right, Remarks)))

\* The line has a value in quotes, its right side beginning at p.
InQuotes(row, p) == p + 1 <= Len(row) /\ row[p] \in Quotes /\ row[p + 1] # row[p]

LEMMA QuotedValue ==
  ASSUME NEW T, NEW row \in Seq(T), NEW e \in 2 .. Len(row), Stops(row, 1, {"="}, e),
         NEW p \in 1 .. Len(row) + 1, Leaves(row, e + 1, Blanks, p), InQuotes(row, p),
         NEW r, Stops(row, p + 1, {row[p]}, r)
  PROVE  FoundIn(row) = SubSeq(row, p + 1, r - 1) /\ KeyFormats(row) # {} /\ r > p + 1
<1> DEFINE q == row[p]
           value == SubSeq(row, p + 1, r - 1)
           two == <<SubSeq(row, 1, e - 1), value>>
<1>1. Len(row) \in Nat /\ p <= Len(row) /\ q \in Quotes /\ p + 1 <= Len(row)
  BY LenProperties DEF InQuotes
<1>2. r > p + 1
  <2>1. r # p + 1 /\ r \in p + 1 .. Len(row) + 1
    BY <1>1 DEF Stops, InQuotes
  <2> QED BY <1>1, <2>1
<1>3. sscanf(row, Quoted(q)) = two
  BY <1>1, <1>2, QuotedScan
<1>4. \A other \in Quotes : other # q => Len(sscanf(row, Quoted(other))) = 1
  BY <1>1, QuotedScan
<1>5. Len(two) = 2 /\ two[2] = value
  OBVIOUS
<1> HIDE DEF q, two, value
<1>6. {f \in {Quoted(other) : other \in Quotes} : Len(sscanf(row, f)) = 2} = {Quoted(q)}
  <2> DEFINE Agrees(f) == Len(sscanf(row, f)) = 2
  <2>1. Agrees(Quoted(q))
    BY <1>3, <1>5
  <2>2. ASSUME NEW other \in Quotes, other # q PROVE ~ Agrees(Quoted(other))
    <3>1. Len(sscanf(row, Quoted(other))) = 1
      BY <1>4, <2>2
    <3> QED BY <3>1
  <2> HIDE DEF Agrees
  <2>3. {f \in {Quoted(other) : other \in Quotes} : Agrees(f)} = {Quoted(q)}
    BY <1>1, <2>1, <2>2
  <2> QED BY <2>3 DEF Agrees
<1>7. KeyFormats(row) = {Quoted(q)}
  BY <1>6 DEF KeyFormats
<1>8. (CHOOSE f \in KeyFormats(row) : TRUE) = Quoted(q)
  BY <1>7
<1>9. Quoted(q) # Plain
  BY Formats
<1>10. FoundIn(row) = sscanf(row, Quoted(q))[2]
  BY <1>7, <1>8, <1>9 DEF FoundIn
<1> QED BY <1>2, <1>3, <1>5, <1>7, <1>10 DEF value

LEMMA PlainValue ==
  ASSUME NEW T, NEW row \in Seq(T), NEW e \in 2 .. Len(row), Stops(row, 1, {"="}, e),
         NEW p \in 1 .. Len(row) + 1, Leaves(row, e + 1, Blanks, p), ~ InQuotes(row, p),
         NEW r, Stops(row, p, Remarks, r)
  PROVE  FoundIn(row) = Plainly(strstrip(SubSeq(row, p, r - 1)))
<1> DEFINE value == SubSeq(row, p, r - 1)
           two == <<SubSeq(row, 1, e - 1), value>>
<1>1. Len(row) \in Nat /\ p \in Nat /\ r \in Nat /\ (r = p \/ r > p)
  BY LenProperties DEF Stops
<1>2. ASSUME NEW q \in Quotes PROVE Len(sscanf(row, Quoted(q))) = 1
  <2>1. CASE p > Len(row) \/ row[p] # q
    BY <2>1, QuotedScan
  <2>2. CASE p <= Len(row) /\ row[p] = q
    <3>1. p + 1 <= Len(row) => row[p + 1] \in {q}
      BY <1>2, <2>2 DEF InQuotes
    <3>2. p + 1 \in p + 1 .. Len(row) + 1 /\ p + 1 .. (p + 1) - 1 = {}
      BY <1>1, <2>2
    <3>3. Stops(row, p + 1, {q}, p + 1)
      BY <3>1, <3>2 DEF Stops
    <3> QED BY <2>2, <3>3, QuotedScan
  <2> QED BY <1>1, <2>1, <2>2
<1> DEFINE Agrees(f) == Len(sscanf(row, f)) = 2
<1>3. {f \in {Quoted(q) : q \in Quotes} : Agrees(f)} = {}
  <2>1. ASSUME NEW q \in Quotes PROVE ~ Agrees(Quoted(q))
    <3>1. Len(sscanf(row, Quoted(q))) = 1
      BY <1>2
    <3> QED BY <3>1
  <2> HIDE DEF Agrees
  <2> QED BY <2>1
<1>4. KeyFormats(row) = {f \in {Plain} : Agrees(f)}
  BY <1>3 DEF KeyFormats
<1>5. CASE r > p
  <2>1. sscanf(row, Plain) = two /\ Len(two) = 2 /\ two[2] = value
    BY <1>5, PlainScan
  <2> HIDE DEF two, value
  <2>2. KeyFormats(row) = {Plain}
    <3>1. Agrees(Plain)
      BY <2>1
    <3> HIDE DEF Agrees
    <3> QED BY <1>4, <3>1
  <2>3. (CHOOSE f \in KeyFormats(row) : TRUE) = Plain
    BY <2>2
  <2>4. FoundIn(row) = Plainly(strstrip(sscanf(row, Plain)[2]))
    BY <2>2, <2>3 DEF FoundIn
  <2> QED BY <2>1, <2>4 DEF value
<1>6. CASE r = p
  <2>1. Len(sscanf(row, Plain)) = 1
    BY <1>6, PlainScan
  <2>2. KeyFormats(row) = {}
    <3>1. ~ Agrees(Plain)
      BY <2>1
    <3> HIDE DEF Agrees
    <3> QED BY <1>4, <3>1
  <2>3. value = <<>>
    BY <1>1, <1>6, SubSeqEmpty
  <2>4. strstrip(<<>>) = <<>>
    <3>1. <<>> \in Seq(T) /\ Stripped(<<>>)
      BY EmptySeq DEF Stripped
    <3> DEFINE none == <<>>
    <3> HIDE DEF none
    <3>2. none \in Seq(T) /\ Stripped(none) => strstrip(none) = none
      BY StripStays
    <3> QED BY <3>1, <3>2 DEF none
  <2>5. Plainly(<<>>) = <<>>
    BY DEF Plainly
  <2>6. FoundIn(row) = <<>>
    BY <2>2 DEF FoundIn
  <2> QED BY <2>3, <2>4, <2>5, <2>6
<1> QED BY <1>1, <1>5, <1>6

LEMMA GivenQuoted ==
  ASSUME NEW T, NEW row \in Seq(T), Stripped(row), NEW e \in 2 .. Len(row), Stops(row, 1, {"="}, e),
         NEW p \in 1 .. Len(row) + 1, Leaves(row, e + 1, Blanks, p), InQuotes(row, p),
         NEW r, Stops(row, p + 1, {row[p]}, r)
  PROVE  GivenIn(row) = SubSeq(row, p + 1, r - 1)
<1> DEFINE right == SubSeq(row, p, Len(row))
           q == row[p]
<1>1. Len(row) \in Nat /\ p + 1 <= Len(row) /\ q \in Quotes /\ row[p + 1] # q /\ e \in 1 .. Len(row)
  BY LenProperties DEF InQuotes
<1>2. FirstIn(row, {"="}) = e
  <2>1. Stops(row, 1, {"="}, FirstIn(row, {"="})) /\ 1 \in 1 .. Len(row) + 1
    BY <1>1, FirstInStops
  <2> QED BY <2>1, StopUnique
<1>3. strstrip(SubSeq(row, e + 1, Len(row))) = right
  BY <1>1, RightOf
<1>4. right \in Seq(T) /\ Len(right) = Len(row) - p + 1 /\ \A i \in 1 .. Len(row) - p + 1 : right[i] = row[p + i - 1]
  <2>1. p \in 1 .. Len(row) + 1 /\ Len(row) \in p - 1 .. Len(row)
    BY <1>1
  <2> QED BY <2>1, PieceOf
<1>5. Len(right) > 1 /\ right[1] = q /\ right[2] = row[p + 1]
  <2>1. 1 \in 1 .. Len(row) - p + 1 /\ 2 \in 1 .. Len(row) - p + 1 /\ p + 1 - 1 = p /\ p + 2 - 1 = p + 1
    BY <1>1
  <2> QED BY <1>1, <1>4, <2>1
<1>6. Tail(right) = SubSeq(row, p + 1, Len(row))
  <2>1. p \in 1 .. Len(row) /\ Len(row) \in p .. Len(row)
    BY <1>1
  <2> QED BY <2>1, HeadTailOfSubSeq
<1> HIDE DEF right
<1>7. GivenIn(row) = Before(Tail(right), {q})
  BY <1>1, <1>2, <1>3, <1>5 DEF GivenIn
<1>8. Before(SubSeq(row, p + 1, Len(row)), {q}) = SubSeq(row, p + 1, r - 1)
  <2>1. p + 1 \in 1 .. Len(row) + 1
    BY <1>1
  <2> QED BY <2>1, BeforeBehind
<1> QED BY <1>6, <1>7, <1>8

LEMMA GivenPlain ==
  ASSUME NEW T, NEW row \in Seq(T), Stripped(row), NEW e \in 2 .. Len(row), Stops(row, 1, {"="}, e),
         NEW p \in 1 .. Len(row) + 1, Leaves(row, e + 1, Blanks, p), ~ InQuotes(row, p),
         NEW r, Stops(row, p, Remarks, r)
  PROVE  GivenIn(row) = Plainly(strstrip(SubSeq(row, p, r - 1)))
<1> DEFINE right == SubSeq(row, p, Len(row))
<1>1. Len(row) \in Nat /\ e \in 1 .. Len(row)
  BY LenProperties
<1>2. FirstIn(row, {"="}) = e
  <2>1. Stops(row, 1, {"="}, FirstIn(row, {"="})) /\ 1 \in 1 .. Len(row) + 1
    BY <1>1, FirstInStops
  <2> QED BY <2>1, StopUnique
<1>3. strstrip(SubSeq(row, e + 1, Len(row))) = right
  BY <1>1, RightOf
<1>4. right \in Seq(T) /\ Len(right) = Len(row) - p + 1 /\ \A i \in 1 .. Len(row) - p + 1 : right[i] = row[p + i - 1]
  <2>1. p \in 1 .. Len(row) + 1 /\ Len(row) \in p - 1 .. Len(row)
    BY <1>1
  <2> QED BY <2>1, PieceOf
<1>5. ASSUME Len(right) > 1 PROVE ~ (right[1] \in Quotes /\ right[2] # right[1])
  <2>1. p + 1 <= Len(row) /\ 1 \in 1 .. Len(row) - p + 1 /\ 2 \in 1 .. Len(row) - p + 1 /\ p + 1 - 1 = p /\ p + 2 - 1 = p + 1
    BY <1>1, <1>4, <1>5
  <2>2. right[1] = row[p] /\ right[2] = row[p + 1]
    BY <1>4, <2>1
  <2> QED BY <2>1, <2>2 DEF InQuotes
<1>6. Before(right, Remarks) = SubSeq(row, p, r - 1)
  BY BeforeBehind
<1> HIDE DEF right
<1>7. GivenIn(row) = Plainly(strstrip(Before(right, Remarks)))
  BY <1>2, <1>3, <1>5 DEF GivenIn
<1> QED BY <1>6, <1>7

LEMMA FoundIsGiven ==
  ASSUME NEW T, NEW row \in Seq(T), Stripped(row), FirstIn(row, {"="}) \in 2 .. Len(row)
  PROVE  FoundIn(row) = GivenIn(row) /\ FoundIn(row) \in Seq(T)
<1> DEFINE e == FirstIn(row, {"="})
<1>1. Len(row) \in Nat /\ Stops(row, 1, {"="}, e)
  BY LenProperties, FirstInStops
<1> HIDE DEF e
<1>2. e \in 2 .. Len(row) /\ e + 1 \in 1 .. Len(row) + 1
  BY <1>1 DEF e
<1>3. PICK p \in 1 .. Len(row) + 1 : Leaves(row, e + 1, Blanks, p)
  BY <1>2, LeaveExists
<1>4. CASE InQuotes(row, p)
  <2>1. p + 1 \in 1 .. Len(row) + 1
    BY <1>1, <1>4 DEF InQuotes
  <2>2. PICK r \in 1 .. Len(row) + 1 : Stops(row, p + 1, {row[p]}, r)
    BY <2>1, StopExists
  <2>3. FoundIn(row) = SubSeq(row, p + 1, r - 1) /\ GivenIn(row) = SubSeq(row, p + 1, r - 1)
    BY <1>1, <1>2, <1>3, <1>4, <2>2, QuotedValue, GivenQuoted
  <2>4. r - 1 \in (p + 1) - 1 .. Len(row)
    BY <1>1, <2>1, <2>2 DEF Stops
  <2>5. SubSeq(row, p + 1, r - 1) \in Seq(T)
    BY <2>1, <2>4, PieceOf
  <2> QED BY <2>3, <2>5
<1>5. CASE ~ InQuotes(row, p)
  <2>1. PICK r \in 1 .. Len(row) + 1 : Stops(row, p, Remarks, r)
    BY StopExists
  <2>2. FoundIn(row) = Plainly(strstrip(SubSeq(row, p, r - 1))) /\ GivenIn(row) = Plainly(strstrip(SubSeq(row, p, r - 1)))
    BY <1>1, <1>2, <1>3, <1>5, <2>1, PlainValue, GivenPlain
  <2>3. r - 1 \in p - 1 .. Len(row)
    BY <1>1, <2>1 DEF Stops
  <2>4. strstrip(SubSeq(row, p, r - 1)) \in Seq(T)
    BY <2>3, PieceOf, StripType
  <2>5. Plainly(strstrip(SubSeq(row, p, r - 1))) \in Seq(T)
    BY <2>4 DEF Plainly
  <2> QED BY <2>2, <2>5
<1> QED BY <1>4, <1>5

\* A line without a key or without an "=" matches no format.
LEMMA NoEntry ==
  ASSUME NEW T, NEW row \in Seq(T), FirstIn(row, {"="}) \notin 2 .. Len(row)
  PROVE  KeyFormats(row) = {} /\ \A f \in NoValue : Len(sscanf(row, f)) # 2
<1> DEFINE e == FirstIn(row, {"="})
           bare == <<Upto({"="}), White, Of({"="})>>
<1>1. e \in 1 .. Len(row) + 1 /\ Stops(row, 1, {"="}, e) /\ e \notin 2 .. Len(row)
  BY FirstInStops
<1> HIDE DEF e
<1> DEFINE Agrees(f) == Len(sscanf(row, f)) = 2
<1>2. ASSUME NEW f, BeginsKeyEquals(f) PROVE ~ Agrees(f)
  <2> DEFINE n == Len(sscanf(row, f))
  <2>1. n \in {0, 1}
    BY <1>1, <1>2, NoKeyFormats
  <2>2. \A m \in {0, 1} : m # 2
    OBVIOUS
  <2> HIDE DEF n
  <2>3. n # 2
    BY <2>1, <2>2
  <2> QED BY <2>3 DEF n
<1>3. ~ Agrees(bare)
  <2> DEFINE n == Len(sscanf(row, bare))
  <2>1. n \in {0, 1}
    BY <1>1, BareScan
  <2>2. \A m \in {0, 1} : m # 2
    OBVIOUS
  <2> HIDE DEF n
  <2>3. n # 2
    BY <2>1, <2>2
  <2> QED BY <2>3 DEF n
<1>4. /\ \A q : ~ Agrees(Quoted(q))
      /\ ~ Agrees(Plain) /\ ~ Agrees(KeyEquals \o <<Of(Remarks)>>)
  <2> HIDE DEF Agrees
  <2> QED BY <1>2, Formats
<1> HIDE DEF Agrees
<1>5. {f \in {Quoted(q) : q \in Quotes} : Agrees(f)} = {} /\ {f \in {Plain} : Agrees(f)} = {}
  BY <1>4
<1>6. KeyFormats(row) = {}
  BY <1>5 DEF KeyFormats, Agrees
<1>7. \A f \in NoValue : ~ Agrees(f)
  BY <1>3, <1>4 DEF NoValue
<1> QED BY <1>6, <1>7 DEF Agrees

\* The kind of a line is a matter of its text without the blanks around it.
LEMMA Kinds ==
  ASSUME NEW text \in Seq(Token)
  PROVE  LET t == strstrip(text)
         IN /\ IsNote(text) <=> (t = <<>> \/ t[1] \in Remarks)
            /\ IsSection(text) <=> (~ IsNote(text) /\ t[1] = "[" /\ Last(t) = "]")
            /\ IsEntry(text) <=> (~ IsNote(text) /\ ~ IsSection(text) /\ FirstIn(t, {"="}) \in 2 .. Len(t))
<1> DEFINE t == strstrip(text)
<1>1. strstrip(t) = t
  BY StripType, StripStays
<1>2. (IsNote(text) <=> (t = <<>> \/ t[1] \in Remarks)) /\ (IsNote(t) <=> (t = <<>> \/ t[1] \in Remarks))
  BY <1>1 DEF IsNote
<1>3. IsSection(text) <=> (~ IsNote(t) /\ t[1] = "[" /\ Last(t) = "]")
  BY DEF IsSection
<1>4. IsSection(t) <=> (~ IsNote(t) /\ t[1] = "[" /\ Last(t) = "]")
  <2>1. IsSection(t) <=> (~ IsNote(strstrip(t)) /\ strstrip(t)[1] = "[" /\ Last(strstrip(t)) = "]")
    BY DEF IsSection
  <2> QED BY <1>1, <2>1
<1>5. IsEntry(text) <=> (~ IsNote(t) /\ ~ IsSection(t) /\ FirstIn(t, {"="}) \in 2 .. Len(t))
  BY DEF IsEntry
<1> HIDE DEF t
<1>6. /\ IsSection(text) <=> (~ IsNote(text) /\ t[1] = "[" /\ Last(t) = "]")
      /\ IsEntry(text) <=> (~ IsNote(text) /\ ~ IsSection(text) /\ FirstIn(t, {"="}) \in 2 .. Len(t))
  BY <1>2, <1>3, <1>4, <1>5
<1> QED BY <1>2, <1>6 DEF t

\* What iniparser_line has found, beside what the line says.  The section is the
\* name in the brackets, where there is one or there was none before.
LineReads(text, sect, found) ==
  /\ found.status \in {"empty", "comment", "section", "value", "error"}
  /\ IsNote(text) <=> found.status \in {"empty", "comment"}
  /\ IsSection(text) <=> found.status = "section"
  /\ IsEntry(text) <=> found.status = "value"
  /\ ~ IsSection(text) => found.section = sect
  /\ IsSection(text) /\ (strstrip(text)[2] # "]" \/ sect = <<>>) => found.section = SectionName(text)
  /\ IsEntry(text) => found.key = KeyName(text) /\ found.value = ValueIn(text)
  /\ found.section \in Seq(Token) /\ found.key \in Seq(Token) /\ found.value \in Seq(Token)

\* A header.
LEMMA HeaderRead ==
  ASSUME NEW text \in Seq(Token), NEW sect \in Seq(Token), IsSection(text)
  PROVE  /\ iniparser_line(text, sect).status = "section"
         /\ strstrip(text)[2] # "]" \/ sect = <<>> => iniparser_line(text, sect).section = SectionName(text)
         /\ iniparser_line(text, sect).section \in Seq(Token)
         /\ iniparser_line(text, sect).key = <<>> /\ iniparser_line(text, sect).value = <<>>
<1> DEFINE t == strstrip(text)
           n == Len(t)
           format == <<Just("["), Upto({"]"})>>
           name == sscanf(t, format)
           arg == IF name = <<>> THEN sect ELSE name[1]
           found == strlwc(strstrip(arg), Size(t))
<1>1. t \in Seq(Token) /\ t # <<>> /\ t[1] \notin Remarks /\ t[1] = "[" /\ t[n] = "]"
  BY StripType, Kinds DEF Last
<1>2. n \in Nat /\ n # 0 /\ n # 1 /\ "[" # "]"
  BY <1>1, LenProperties, EmptySeq
<1>3. iniparser_line(text, sect) = [status |-> "section", section |-> found, key |-> <<>>, value |-> <<>>]
  BY <1>1 DEF iniparser_line, Last
<1> HIDE DEF t, format
<1>4. 2 \in 1 .. n + 1
  BY <1>2
<1>5. PICK r \in 1 .. n + 1 : Stops(t, 2, {"]"}, r)
  BY <1>1, <1>4, StopExists
<1>6. r \in 2 .. n
  <2>1. r # n + 1
    BY <1>1, <1>2, <1>5 DEF Stops
  <2> QED BY <1>2, <1>5, <2>1 DEF Stops
<1>7. /\ r = 2 => name = <<>>
      /\ r > 2 => name = <<SubSeq(t, 2, r - 1)>>
  <2>1. 1 <= Len(t)
    BY <1>2
  <2>2. /\ r = 2 => sscanf(t, <<Just("["), Upto({"]"})>>) = <<>>
        /\ r > 2 => sscanf(t, <<Just("["), Upto({"]"})>>) = <<SubSeq(t, 2, r - 1)>>
    BY <1>1, <1>5, <2>1, HeaderScan
  <2> QED BY <2>2 DEF format
<1> DEFINE piece == SubSeq(t, 2, r - 1)
<1>8. SectionName(text) = Lowered(strstrip(piece))
  <2>1. Before(SubSeq(t, 2, n), {"]"}) = piece
    BY <1>1, <1>4, <1>5, BeforeBehind
  <2>2. Tail(t) = SubSeq(t, 2, n)
    BY <1>1, TailIsSubSeq
  <2> QED BY <2>1, <2>2 DEF SectionName, t
<1>9. /\ strstrip(piece) \in Seq(Token) /\ Size(strstrip(piece)) \in Nat /\ Size(t) \in Nat
      /\ Size(strstrip(piece)) < Size(t)
  <2>1. r - 1 \in 2 - 1 .. n /\ (r - 1) - 2 + 1 # n
    BY <1>2, <1>6
  <2> QED BY <1>1, <1>4, <2>1, StripSmaller
<1>10. Size(t) \in Nat \ {0}
  BY <1>9
<1>11. strlwc(strstrip(piece), Size(t)) = SectionName(text)
  BY <1>8, <1>9, <1>10, WholeLowered
<1>12. piece \in Seq(Token)
  <2>1. r - 1 \in 2 - 1 .. n
    BY <1>2, <1>6
  <2> QED BY <1>1, <1>4, <2>1, PieceOf
<1>13. r = 2 => piece = <<>>
  BY SubSeqEmpty
<1>14. r = 2 <=> t[2] = "]"
  BY <1>2, <1>6, <1>5 DEF Stops
<1>15. <<piece>> # <<>> /\ <<piece>>[1] = piece
  OBVIOUS
<1> HIDE DEF piece, name
<1>16. CASE r = 2
  <2>1. arg = sect /\ t[2] = "]" /\ piece = <<>>
    BY <1>7, <1>13, <1>14, <1>16
  <2>2. found \in Seq(Token)
    BY <1>10, <2>1, StripType, LowerType
  <2>3. sect = <<>> => found = SectionName(text)
    BY <1>11, <2>1
  <2> HIDE DEF found
  <2> QED BY <1>3, <2>1, <2>2, <2>3 DEF t
<1>17. CASE r > 2
  <2>1. arg = piece
    BY <1>7, <1>15, <1>17 DEF piece
  <2>2. found \in Seq(Token)
    BY <1>10, <1>12, <2>1, StripType, LowerType
  <2>3. found = SectionName(text)
    BY <1>11, <2>1
  <2> HIDE DEF found
  <2> QED BY <1>3, <2>2, <2>3
<1> QED BY <1>6, <1>16, <1>17

\* An entry.
LEMMA EntryRead ==
  ASSUME NEW text \in Seq(Token), NEW sect, IsEntry(text)
  PROVE  /\ iniparser_line(text, sect) =
              [status |-> "value", section |-> sect, key |-> KeyName(text), value |-> ValueIn(text)]
         /\ KeyName(text) \in Seq(Token) /\ ValueIn(text) \in Seq(Token)
<1> DEFINE t == strstrip(text)
           e == FirstIn(t, {"="})
           key == strlwc(strstrip(Before(t, {"="})), Size(t))
<1>1. t \in Seq(Token) /\ Stripped(t) /\ t # <<>> /\ t[1] \notin Remarks /\ ~ (t[1] = "[" /\ Last(t) = "]") /\ e \in 2 .. Len(t)
  BY StripType, Kinds
<1>2. Len(t) \in Nat
  BY <1>1, LenProperties
<1> HIDE DEF t
<1>3. ValueIn(text) = GivenIn(t)
  BY DEF ValueIn, GivenIn, Plainly, t
<1>4. FoundIn(t) = GivenIn(t) /\ FoundIn(t) \in Seq(Token)
  BY <1>1, FoundIsGiven
<1>5. key = KeyName(text) /\ KeyName(text) \in Seq(Token)
  <2> DEFINE piece == SubSeq(t, 1, e - 1)
  <2>1. 1 \in 1 .. Len(t) + 1 /\ e - 1 \in 1 - 1 .. Len(t) /\ (e - 1) - 1 + 1 # Len(t)
    BY <1>1, <1>2
  <2>2. /\ strstrip(piece) \in Seq(Token) /\ Size(strstrip(piece)) \in Nat /\ Size(t) \in Nat
        /\ Size(strstrip(piece)) < Size(t)
    BY <1>1, <2>1, StripSmaller
  <2>3. Before(t, {"="}) = piece
    BY DEF Before
  <2> HIDE DEF piece
  <2>4. Size(t) \in Nat \ {0}
    BY <2>2
  <2>5. key = Lowered(strstrip(piece))
    BY <2>2, <2>3, <2>4, WholeLowered
  <2> QED BY <2>2, <2>3, <2>5, LoweredType DEF KeyName, t
<1>6. KeyFormats(t) # {} \/ \E f \in NoValue : Len(sscanf(t, f)) = 2
  <2>1. Len(sscanf(t, <<Upto({"="}), White, Of({"="})>>)) = 2
    <3>1. Stops(t, 1, {"="}, e) /\ e \in 1 .. Len(t) + 1
      BY <1>1, FirstInStops
    <3> QED BY <1>1, <3>1, BareScan
  <2>2. <<Upto({"="}), White, Of({"="})>> \in NoValue
    BY DEF NoValue
  <2> QED BY <2>1, <2>2
<1> DEFINE found == iniparser_line(text, sect)
           it == [status |-> "value", section |-> sect, key |-> <<>>, value |-> <<>>]
<1> HIDE DEF key
<1>7. CASE KeyFormats(t) # {}
  <2>1. found = [it EXCEPT !.key = key, !.value = FoundIn(t)]
    BY <1>1, <1>7 DEF iniparser_line, FoundIn, Plainly, t, key
  <2> QED BY <1>3, <1>4, <1>5, <2>1
<1>8. CASE KeyFormats(t) = {}
  <2>1. found = [it EXCEPT !.key = key]
    BY <1>1, <1>6, <1>8 DEF iniparser_line, t, key
  <2>2. FoundIn(t) = <<>>
    BY <1>8 DEF FoundIn
  <2> QED BY <1>3, <1>4, <1>5, <2>1, <2>2
<1> QED BY <1>7, <1>8

\* Every kind of line has its status.
ByKind(text, sect, found) ==
  /\ \/ IsNote(text) /\ ~ IsSection(text) /\ ~ IsEntry(text) /\ found.status \in {"empty", "comment"}
     \/ ~ IsNote(text) /\ IsSection(text) /\ ~ IsEntry(text) /\ found.status = "section"
     \/ ~ IsNote(text) /\ ~ IsSection(text) /\ IsEntry(text) /\ found.status = "value"
     \/ ~ IsNote(text) /\ ~ IsSection(text) /\ ~ IsEntry(text) /\ found.status = "error"
  /\ ~ IsSection(text) => found.section = sect
  /\ IsSection(text) /\ (strstrip(text)[2] # "]" \/ sect = <<>>) => found.section = SectionName(text)
  /\ IsEntry(text) => found.key = KeyName(text) /\ found.value = ValueIn(text)
  /\ found.section \in Seq(Token) /\ found.key \in Seq(Token) /\ found.value \in Seq(Token)

LEMMA ReadsAs ==
  ASSUME NEW text, NEW sect, NEW found, ByKind(text, sect, found)
  PROVE  LineReads(text, sect, found)
<1>1. found.status \in {"empty", "comment", "section", "value", "error"}
  BY DEF ByKind
<1>2. IsNote(text) <=> found.status \in {"empty", "comment"}
  BY DEF ByKind
<1>3. IsSection(text) <=> found.status = "section"
  BY DEF ByKind
<1>4. IsEntry(text) <=> found.status = "value"
  BY DEF ByKind
<1> QED BY <1>1, <1>2, <1>3, <1>4 DEF LineReads, ByKind

\* A line of any length is read as it says.
LEMMA LineRead ==
  ASSUME NEW text \in Seq(Token), NEW sect \in Seq(Token)
  PROVE  LineReads(text, sect, iniparser_line(text, sect))
<1> DEFINE t == strstrip(text)
           found == iniparser_line(text, sect)
           it(status) == [status |-> status, section |-> sect, key |-> <<>>, value |-> <<>>]
<1>0. <<>> \in Seq(Token)
  BY EmptySeq
<1>1. CASE IsNote(text)
  <2>1. found = it("empty") \/ found = it("comment")
    BY <1>1, Kinds DEF iniparser_line
  <2>2. ~ IsSection(text) /\ ~ IsEntry(text)
    BY <1>1, Kinds
  <2> HIDE DEF found
  <2>3. found.status \in {"empty", "comment"} /\ found.section = sect /\ found.key = <<>> /\ found.value = <<>>
    BY <2>1
  <2>4. ByKind(text, sect, found)
    BY <1>0, <1>1, <2>2, <2>3 DEF ByKind
  <2> QED BY <2>4, ReadsAs DEF found
<1>2. CASE IsSection(text)
  <2>1. ~ IsNote(text) /\ ~ IsEntry(text)
    BY <1>2, Kinds
  <2>2. /\ found.status = "section" /\ found.section \in Seq(Token) /\ found.key = <<>> /\ found.value = <<>>
        /\ strstrip(text)[2] # "]" \/ sect = <<>> => found.section = SectionName(text)
    BY <1>2, HeaderRead
  <2> HIDE DEF found
  <2>3. ByKind(text, sect, found)
    BY <1>0, <1>2, <2>1, <2>2 DEF ByKind
  <2> QED BY <2>3, ReadsAs DEF found
<1>3. CASE IsEntry(text)
  <2>1. ~ IsNote(text) /\ ~ IsSection(text)
    BY <1>3, Kinds
  <2>2. /\ found = [status |-> "value", section |-> sect, key |-> KeyName(text), value |-> ValueIn(text)]
        /\ KeyName(text) \in Seq(Token) /\ ValueIn(text) \in Seq(Token)
    BY <1>3, EntryRead
  <2> HIDE DEF found
  <2>3. found.status = "value" /\ found.section = sect /\ found.key = KeyName(text) /\ found.value = ValueIn(text)
    BY <2>2
  <2>4. ByKind(text, sect, found)
    BY <1>0, <1>3, <2>1, <2>2, <2>3 DEF ByKind
  <2> QED BY <2>4, ReadsAs DEF found
<1>4. CASE ~ IsNote(text) /\ ~ IsSection(text) /\ ~ IsEntry(text)
  <2>1. t # <<>> /\ t[1] \notin Remarks /\ ~ (t[1] = "[" /\ Last(t) = "]") /\ FirstIn(t, {"="}) \notin 2 .. Len(t)
    BY <1>4, Kinds
  <2>2. KeyFormats(t) = {} /\ \A f \in NoValue : Len(sscanf(t, f)) # 2
    BY <2>1, StripType, NoEntry
  <2>3. found = it("error")
    BY <2>1, <2>2 DEF iniparser_line
  <2> HIDE DEF found
  <2>4. found.status = "error" /\ found.section = sect /\ found.key = <<>> /\ found.value = <<>>
    BY <2>3
  <2>5. ByKind(text, sect, found)
    BY <1>0, <1>4, <2>4 DEF ByKind
  <2> QED BY <2>5, ReadsAs DEF found
<1> QED BY <1>1, <1>2, <1>3, <1>4

\* iniparser_line reads every line as the line says: the run tries the texts of up to
\* five tokens, this is for texts of any length over any tokens.
THEOREM LinesAsSaid ==
  ASSUME NEW text \in Seq(Token)
  PROVE  ReadAsSaid(text)
<1> DEFINE none == <<>>
           found == iniparser_line(text, none)
<1>1. none \in Seq(Token)
  BY EmptySeq
<1>2. ~ IsSection(text) \/ IsSection(text)
  OBVIOUS
<1> HIDE DEF none
<1>3. LineReads(text, none, found)
  BY <1>1, LineRead
<1> HIDE DEF found
<1>4. found.section = IF IsSection(text) THEN SectionName(text) ELSE <<>>
  BY <1>3 DEF LineReads, none
<1>5. /\ IsNote(text) <=> found.status \in {"empty", "comment"}
      /\ IsSection(text) <=> found.status = "section"
      /\ IsEntry(text) <=> found.status = "value"
      /\ IsEntry(text) => found.key = KeyName(text) /\ found.value = ValueIn(text)
  BY <1>3 DEF LineReads
<1> QED BY <1>4, <1>5 DEF ReadAsSaid, found, none

\* Where a text without the blanks behind it ends.
WordEnds(text, b) ==
  /\ b \in 0 .. Len(text)
  /\ \A k \in b + 1 .. Len(text) : text[k] \in Blanks
  /\ b > 0 => text[b] \notin Blanks

LEMMA EndExists ==
  ASSUME NEW T, NEW text \in Seq(T)
  PROVE  \E b \in 0 .. Len(text) : WordEnds(text, b) /\ WithoutEnd(text) = SubSeq(text, 1, b)
<1> DEFINE S == {k \in 1 .. Len(text) : text[k] \notin Blanks} \cup {0}
           b == Max(S)
<1>1. Len(text) \in Nat
  BY LenProperties
<1>2. S \subseteq 0 .. Len(text) /\ 0 \in S
  BY <1>1
<1>3. b \in S /\ \A y \in S : y <= b
  <2> HIDE DEF S
  <2> QED BY <1>1, <1>2, MaxProperties
<1> HIDE DEF b
<1>4. b \in 0 .. Len(text) /\ (b > 0 => text[b] \notin Blanks)
  BY <1>1, <1>3
<1>5. \A k \in b + 1 .. Len(text) : text[k] \in Blanks
  BY <1>1, <1>3, <1>4
<1>6. WithoutEnd(text) = SubSeq(text, 1, b)
  BY <1>4, <1>5, WithoutEndIs
<1> QED BY <1>4, <1>5, <1>6 DEF WordEnds

LEMMA EndType ==
  ASSUME NEW T, NEW text \in Seq(T)
  PROVE  WithoutEnd(text) \in Seq(T)
<1>1. PICK b \in 0 .. Len(text) : WithoutEnd(text) = SubSeq(text, 1, b)
  BY EndExists
<1>2. 1 \in 1 .. Len(text) + 1 /\ b \in 1 - 1 .. Len(text)
  BY LenProperties
<1> QED BY <1>1, <1>2, PieceOf

LEMMA FrontType ==
  ASSUME NEW T, NEW text \in Seq(T), text # <<>>
  PROVE  /\ Front(text) \in Seq(T) /\ Len(text) \in Nat \ {0} /\ Len(Front(text)) = Len(text) - 1
         /\ \A i \in 1 .. Len(text) - 1 : Front(text)[i] = text[i]
<1>1. Len(text) \in Nat \ {0}
  BY EmptySeq
<1>2. /\ 1 \in 1 .. Len(text) + 1 /\ Len(text) - 1 \in 1 - 1 .. Len(text)
      /\ (Len(text) - 1) - 1 + 1 = Len(text) - 1 /\ \A i \in 1 .. Len(text) - 1 : 1 + i - 1 = i
  BY <1>1
<1> DEFINE front == SubSeq(text, 1, Len(text) - 1)
<1>3. /\ front \in Seq(T) /\ Len(front) = (Len(text) - 1) - 1 + 1
      /\ \A i \in 1 .. (Len(text) - 1) - 1 + 1 : front[i] = text[1 + i - 1]
  BY <1>2, PieceOf
<1> HIDE DEF front
<1>4. front \in Seq(T) /\ Len(front) = Len(text) - 1 /\ \A i \in 1 .. Len(text) - 1 : front[i] = text[i]
  BY <1>2, <1>3
<1> QED BY <1>1, <1>4 DEF Front, front

-----------------------------------------------------------------------------
(* Sequences of sequences, one behind the other.                           *)

Flattened(seqs) ==
  CHOOSE flatten : flatten = [i \in 1 .. Len(seqs) |-> IF i = 1 THEN seqs[i] ELSE flatten[i - 1] \o seqs[i]]

LEMMA FlattenType ==
  ASSUME NEW S, NEW seqs \in Seq(Seq(S))
  PROVE  FlattenSeq(seqs) \in Seq(S)
<1> DEFINE n == Len(seqs)
           D == Seq(S)
           none == <<>>
           Following(flatten) == [i \in 1 .. n |-> IF i = 1 THEN seqs[i] ELSE Together(flatten[i - 1], seqs[i])]
           step == [i \in 1 .. n |-> [front \in D |-> Together(front, seqs[i])]]
<1>1. n \in Nat /\ \A i \in 1 .. n : seqs[i] \in D
  BY LenProperties
<1>2. none \in D /\ \A s, t \in D : Together(s, t) \in D /\ Together(none, s) = s
  BY EmptySeq, ConcatProperties, ConcatEmptySeq DEF Together
<1>3. step \in [1 .. n -> [D -> D]]
  <2> HIDE DEF D, n
  <2> QED BY <1>1, <1>2
<1>4. CASE n = 0
  <2>1. seqs = <<>>
    BY <1>4, EmptySeq
  <2> QED BY <1>2, <1>4, <2>1 DEF FlattenSeq
<1>5. CASE n # 0
  <2> HIDE DEF n, D, none
  <2>1. PICK f \in [0 .. n -> D] : f[0] = none /\ \A i \in 1 .. n : f[i] = step[i][f[i - 1]]
    <3> HIDE DEF step
    <3>1. Iterates(n, D, none, step)
      BY <1>1, <1>2, <1>3, Iteration
    <3> QED BY <3>1 DEF Iterates
  <2>2. ASSUME NEW i \in 1 .. n PROVE f[i] = Together(f[i - 1], seqs[i]) /\ f[i - 1] \in D /\ i - 1 \in 0 .. n
    <3>1. i - 1 \in 0 .. n
      BY <1>1
    <3>2. f[i - 1] \in D
      BY <2>1, <3>1
    <3> QED BY <2>1, <3>1, <3>2
  <2> DEFINE g == [i \in 1 .. n |-> f[i]]
  <2>3. g = Following(g)
    <3>1. ASSUME NEW i \in 1 .. n PROVE f[i] = IF i = 1 THEN seqs[i] ELSE Together(g[i - 1], seqs[i])
      <4>1. CASE i = 1
        <5>1. f[1] = Together(none, seqs[1])
          BY <2>1, <2>2, <4>1
        <5> QED BY <1>1, <1>2, <4>1, <5>1
      <4>2. CASE i # 1
        <5>1. i - 1 \in 1 .. n
          BY <1>1, <4>2
        <5>2. g[i - 1] = f[i - 1]
          BY <5>1
        <5> QED BY <2>2, <4>2, <5>2
      <4> QED BY <4>1, <4>2
    <3> QED BY <3>1
  <2> DEFINE h == Flattened(seqs)
  <2>4. h = Following(h)
    <3> HIDE DEF g, Following
    <3>1. h = CHOOSE flatten : flatten = Following(flatten)
      BY DEF Flattened, Together, Following, n
    <3> QED BY <2>3, <3>1
  <2> HIDE DEF h
  <2>5. \A i \in 1 .. n : h[i] = IF i = 1 THEN seqs[i] ELSE Together(h[i - 1], seqs[i])
    BY <2>4
  <2> DEFINE P == {i \in 0 .. n : i = 0 \/ h[i] \in D}
  <2>6. 0 \in P
    BY <1>1
  <2>7. ASSUME NEW i \in 1 .. n, i - 1 \in P PROVE i \in P
    <3>1. CASE i = 1
      BY <1>1, <2>5, <3>1
    <3>2. CASE i # 1
      <4>1. h[i - 1] \in D
        BY <2>7, <3>2
      <4>2. h[i] = Together(h[i - 1], seqs[i])
        BY <2>5, <3>2
      <4> QED BY <1>1, <1>2, <4>1, <4>2
    <3> QED BY <3>1, <3>2
  <2> HIDE DEF P
  <2>8. \A i \in 0 .. n : i \in P
    BY <1>1, <2>6, <2>7, Ladder
  <2>9. h[n] \in D
    BY <1>1, <1>5, <2>8 DEF P
  <2>10. FlattenSeq(seqs) = h[n]
    BY <1>5 DEF FlattenSeq, Flattened, h, n
  <2> QED BY <2>9, <2>10 DEF D
<1> QED BY <1>4, <1>5

-----------------------------------------------------------------------------
(* The session and the start-up.                                          *)

LEMMA InitInv == Init => Inv
<1> SUFFICES ASSUME Init PROVE Inv
  OBVIOUS
<1>1. TypeOK
  <2>1. drops \in 0 .. MaxDrops
    BY ConstantsAssumption DEF Init
  <2>2. startup \in BOOLEAN /\ isconnected \in BOOLEAN /\ topics \in BOOLEAN
    BY DEF Init
  <2>3. open \subseteq Socket /\ mnet \in Socket \cup {NULL}
    BY DEF Init
  <2>4. main = "network" /\ session = "none" /\ ws = "idle"
    BY DEF Init
  <2> QED BY <2>1, <2>2, <2>3, <2>4 DEF TypeOK
<1> QED BY <1>1 DEF Init, Inv, NoSocketLeaks

\* A step of mqtt_conn_init.
LEMMA InitSteps ==
  ASSUME Inv, MqttConnInit
  PROVE  Inv'
<1> USE DEF Goes, Fails, netVars
<1>1. CASE NetworkConnects
  BY <1>1 DEF NetworkConnects, Inv, TypeOK, NoSocketLeaks
<1>2. CASE NetworkFails
  BY <1>2 DEF NetworkFails, Inv, TypeOK, NoSocketLeaks
<1>3. CASE MQTTClientInit
  BY <1>3 DEF MQTTClientInit, Inv, TypeOK, NoSocketLeaks
<1>4. CASE Connects
  BY <1>4 DEF Connects, Inv, TypeOK, NoSocketLeaks
<1>5. CASE ConnectFails
  BY <1>5 DEF ConnectFails, Inv, TypeOK, NoSocketLeaks
<1>6. CASE PrintTopics
  BY <1>6 DEF PrintTopics, Inv, TypeOK, NoSocketLeaks
<1>7. CASE Subscribes
  BY <1>7 DEF Subscribes, Inv, TypeOK, NoSocketLeaks
<1>8. CASE SubscribeFails
  BY <1>8 DEF SubscribeFails, SessionEnds, Inv, TypeOK, NoSocketLeaks
<1>9. CASE SubscribeRefused
  BY <1>9 DEF SubscribeRefused, Inv, TypeOK, NoSocketLeaks
<1> QED BY <1>1, <1>2, <1>3, <1>4, <1>5, <1>6, <1>7, <1>8, <1>9 DEF MqttConnInit

\* A step of the loop of main.
LEMMA LoopSteps ==
  ASSUME Inv, MainLoop
  PROVE  Inv'
<1> USE DEF Goes, netVars
<1>1. CASE SleepOver
  BY <1>1 DEF SleepOver, Inv, TypeOK, NoSocketLeaks
<1>2. CASE MQTTYield
  BY <1>2 DEF MQTTYield, Inv, TypeOK, NoSocketLeaks
<1>3. CASE TestConnected
  BY <1>3 DEF TestConnected, Inv, TypeOK, NoSocketLeaks
<1>4. CASE MQTTDisconnect
  BY <1>4 DEF MQTTDisconnect, SessionEnds, Inv, TypeOK, NoSocketLeaks
<1>5. CASE NetworkDisconnect
  BY <1>5 DEF NetworkDisconnect, Inv, TypeOK, NoSocketLeaks
<1> QED BY <1>1, <1>2, <1>3, <1>4, <1>5 DEF MainLoop

\* A step of the publishing thread, of the network, or SIGTERM.
LEMMA OtherSteps ==
  ASSUME Inv, PublishBegins \/ PublishEnds \/ Drop \/ Terminate
  PROVE  Inv'
<1> USE DEF Running, netVars
<1>1. CASE PublishBegins
  BY <1>1 DEF PublishBegins, Inv, TypeOK, NoSocketLeaks
<1>2. CASE PublishEnds
  <2>1. UNCHANGED <<main, startup, open, mnet, topics, drops>> /\ ws' = "idle"
    BY <1>2 DEF PublishEnds
  <2>2. CASE UNCHANGED <<isconnected, session>>
    <3>1. isconnected' = isconnected /\ session' = session
      BY <2>2
    <3> QED BY <2>1, <3>1 DEF Inv, TypeOK, NoSocketLeaks
  <2>3. CASE isconnected' = FALSE /\ session' = "none"
    BY <2>1, <2>3 DEF Inv, TypeOK, NoSocketLeaks
  <2> QED BY <1>2, <2>2, <2>3, Zenon DEF PublishEnds
<1>3. CASE Drop
  BY <1>3, ConstantsAssumption DEF Drop, SessionEnds, Inv, TypeOK, NoSocketLeaks
<1>4. CASE Terminate
  BY <1>4 DEF Terminate, Inv, TypeOK, NoSocketLeaks
<1> QED BY <1>1, <1>2, <1>3, <1>4

\* Inv is inductive.
THEOREM Invariance == Spec => []Inv
<1>1. Inv /\ [Next]_vars => Inv'
  <2> SUFFICES ASSUME Inv, [Next]_vars PROVE Inv'
    OBVIOUS
  <2>1. CASE UNCHANGED vars
    BY <2>1 DEF vars, netVars, Inv, TypeOK, NoSocketLeaks
  <2>2. CASE Next
    BY <2>2, InitSteps, LoopSteps, OtherSteps DEF Next
  <2> QED BY <2>1, <2>2
<1> QED BY <1>1, InitInv, PTL DEF Spec

\* No call of mqtt_conn_init and no failure of one leaves a socket behind.
THEOREM SocketsAccounted == Spec => []NoSocketLeaks
<1>1. Inv => NoSocketLeaks
  BY DEF Inv
<1> QED BY <1>1, Invariance, PTL

\* The loop of main never runs on a session that is up and whose subscription the hub
\* has not answered, whichever session a publish that fails late has closed.
THEOREM SessionServes == Spec => []ServesSubscribed
<1>1. Inv => ServesSubscribed
  BY DEF Inv, ServesSubscribed
<1> QED BY <1>1, Invariance, PTL

-----------------------------------------------------------------------------
(* The start-up in front of the session.                                   *)

\* Up to mqtt_conn_init nothing of the session has been touched.
Untouched == at \notin {"session", "exited"} => Init

\* A start-up that ends the process is, for the session, an attempt to connect
\* that failed; everything else in it is no step.
LEMMA StartStepIsSessionStep ==
  ASSUME Untouched, StartStep
  PROVE  Untouched' /\ [Next]_vars
<1> USE DEF Untouched
<1>1. CASE Exits /\ at \notin {"session", "exited"}
  <2>1. Init
    BY <1>1
  <2>2. NetworkFails
    BY <1>1, <2>1 DEF Exits, Init, NetworkFails, Fails, Goes, netVars
  <2>3. at' = "exited"
    BY <1>1 DEF Exits
  <2> QED BY <2>2, <2>3 DEF Next, MqttConnInit
<1>2. CASE UNCHANGED vars /\ at \notin {"session", "exited"}
  <2>1. Init /\ Init'
    BY <1>2 DEF Init, vars, netVars
  <2> QED BY <1>2, <2>1
<1>3. CASE LoadLine \/ EndOfFile
  <2>1. at = "load" /\ UNCHANGED vars
    BY <1>3 DEF LoadLine, EndOfFile
  <2> QED BY <1>2, <2>1
<1>4. CASE LoadFails \/ readConfigFails \/ PartFails
  <2>1. Exits /\ at \notin {"session", "exited"}
    BY <1>4 DEF LoadFails, readConfigFails, PartFails
  <2> QED BY <1>1, <2>1
<1>5. CASE readConfig \/ drop_root_priviledge \/ logging_init \/ readSwitches \/ init_websocket \/ handler_thread
  <2>1. at \notin {"session", "exited"} /\ UNCHANGED vars
    BY <1>5 DEF readConfig, drop_root_priviledge, logging_init, readSwitches, init_websocket,
                handler_thread, StartsPart
  <2> QED BY <1>2, <2>1
<1> QED BY <1>3, <1>4, <1>5 DEF StartStep

\* Behind the start-up every step is one of the session.
LEMMA StartNextIsSessionNext ==
  ASSUME Untouched, [StartNext]_allVars
  PROVE  Untouched' /\ [Next]_vars
<1>1. CASE StartStep
  BY <1>1, StartStepIsSessionStep
<1>2. CASE MqttStep \/ LoopStep \/ PublishStep \/ OtherStep
  <2>1. at = "session" /\ at' = at
    BY <1>2 DEF MqttStep, LoopStep, PublishStep, OtherStep, startVars
  <2>2. Next
    BY <1>2 DEF MqttStep, LoopStep, PublishStep, OtherStep, Next
  <2> QED BY <2>1, <2>2 DEF Untouched
<1>3. CASE UNCHANGED allVars
  <2>1. UNCHANGED at /\ UNCHANGED vars
    BY <1>3 DEF allVars, startVars
  <2> QED BY <2>1 DEF Untouched, Init, vars, netVars
<1> QED BY <1>1, <1>2, <1>3 DEF StartNext

\* For every configuration file, the program from its start implements the session:
\* what holds of the session holds of the program.
THEOREM StartImplementsSession == StartSpec => Spec
<1>1. StartInit => Init /\ Untouched
  BY DEF StartInit, Untouched
<1>2. Untouched /\ [StartNext]_allVars => Untouched' /\ [Next]_vars
  BY StartNextIsSessionNext
<1> QED BY <1>1, <1>2, PTL DEF StartSpec, Spec

\* From the start on, no socket is left behind and no session is served whose
\* subscription has no answer, whatever the configuration file is and whatever fails.
THEOREM StartedSession == StartSpec => [](NoSocketLeaks /\ ServesSubscribed)
BY StartImplementsSession, SocketsAccounted, SessionServes, PTL

-----------------------------------------------------------------------------
(* The dictionary.                                                         *)

Key == Seq(Token \cup {":"})
TextOrNone == Seq(Token) \cup {None}
Slots == [key : Key \cup {None}, val : TextOrNone, hash : {Hash(k) : k \in Key} \cup {0}]
Dicts(m) == [n : 0 .. m, slot : [0 .. m - 1 -> Slots]]
IsDict(d) == \E m \in Nat \ {0} : d \in Dicts(m)

LEMMA DictSize ==
  ASSUME NEW m \in Nat \ {0}, NEW d \in Dicts(m)
  PROVE  SizeOf(d) = m /\ DOMAIN d.slot = 0 .. m - 1 /\ d.n \in 0 .. m
<1>1. DOMAIN d.slot = 0 .. m - 1 /\ d.n \in 0 .. m
  BY DEF Dicts
<1>2. Cardinality(0 .. m - 1) = m
  <2>1. Cardinality(0 .. m - 1) = IF 0 > m - 1 THEN 0 ELSE (m - 1) - 0 + 1
    BY FS_Interval
  <2> QED BY <2>1
<1> QED BY <1>1, <1>2 DEF SizeOf

\* A dictionary is a record of its number of entries and its table.
IsPair(d) == d = [n |-> d.n, slot |-> d.slot]

LEMMA SlotChanged ==
  ASSUME NEW d, IsPair(d), NEW slot
  PROVE  [d EXCEPT !.slot = slot] = [n |-> d.n, slot |-> slot]
<1>1. \A a, b : [[n |-> a, slot |-> b] EXCEPT !.slot = slot] = [n |-> a, slot |-> slot]
  OBVIOUS
<1> QED BY <1>1 DEF IsPair

LEMMA ValueChanged ==
  ASSUME NEW d, IsPair(d), NEW i, NEW v
  PROVE  [d EXCEPT !.slot[i].val = v] = [n |-> d.n, slot |-> [d.slot EXCEPT ![i].val = v]]
<1>1. \A a, b : [[n |-> a, slot |-> b] EXCEPT !.slot[i].val = v] = [n |-> a, slot |-> [b EXCEPT ![i].val = v]]
  OBVIOUS
<1> QED BY <1>1 DEF IsPair

LEMMA SlotAdded ==
  ASSUME NEW d, IsPair(d), NEW i, NEW new
  PROVE  [d EXCEPT !.slot[i] = new, !.n = @ + 1] = [n |-> d.n + 1, slot |-> [d.slot EXCEPT ![i] = new]]
<1>1. \A a, b : [[n |-> a, slot |-> b] EXCEPT !.slot[i] = new] = [n |-> a, slot |-> [b EXCEPT ![i] = new]]
  OBVIOUS
<1>2. \A a, c : [[n |-> a, slot |-> c] EXCEPT !.n = @ + 1] = [n |-> a + 1, slot |-> c]
  OBVIOUS
<1>3. [d EXCEPT !.slot[i] = new, !.n = @ + 1] = [[d EXCEPT !.slot[i] = new] EXCEPT !.n = @ + 1]
  OBVIOUS
<1>4. [d EXCEPT !.slot[i] = new] = [n |-> d.n, slot |-> [d.slot EXCEPT ![i] = new]]
  BY <1>1 DEF IsPair
<1> QED BY <1>2, <1>3, <1>4

LEMMA EmptySlot == Empty \in Slots
BY DEF Empty, Slots, TextOrNone

LEMMA NewDict == IsDict(dictionary_new)
<1>1. DictMinSz \in Nat \ {0}
  BY DictAssumption
<1>2. dictionary_new \in Dicts(DictMinSz)
  BY <1>1, EmptySlot DEF dictionary_new, Dicts
<1> QED BY <1>1, <1>2 DEF IsDict

LEMMA GrownDict ==
  ASSUME NEW m \in Nat \ {0}, NEW d \in Dicts(m)
  PROVE  dictionary_grow(d) \in Dicts(2 * m) /\ dictionary_grow(d).n = d.n
<1>1. SizeOf(d) = m /\ d.n \in 0 .. m /\ d.slot \in [0 .. m - 1 -> Slots] /\ IsPair(d)
  BY DictSize DEF Dicts, IsPair
<1> DEFINE slot == [i \in 0 .. 2 * m - 1 |-> IF i < m THEN d.slot[i] ELSE Empty]
<1>2. slot \in [0 .. 2 * m - 1 -> Slots]
  BY <1>1, EmptySlot
<1>3. dictionary_grow(d) = [n |-> d.n, slot |-> slot]
  <2>1. dictionary_grow(d) = [d EXCEPT !.slot = slot]
    BY <1>1 DEF dictionary_grow
  <2> HIDE DEF slot
  <2> QED BY <1>1, <2>1, SlotChanged
<1>4. d.n \in 0 .. 2 * m
  BY <1>1
<1> HIDE DEF slot
<1> QED BY <1>2, <1>3, <1>4 DEF Dicts

\* What dictionary_set returns is a dictionary.
LEMMA DictSet ==
  ASSUME NEW d, IsDict(d), NEW key \in Key, NEW val \in TextOrNone, NEW fails
  PROVE  IsDict(dictionary_set(d, key, val, fails).dict)
<1>1. PICK m \in Nat \ {0} : d \in Dicts(m)
  BY DEF IsDict
<1>2. SizeOf(d) = m /\ d.n \in 0 .. m /\ d.slot \in [0 .. m - 1 -> Slots] /\ IsPair(d)
  BY <1>1, DictSize DEF Dicts, IsPair
<1> DEFINE k == IF "key" \in fails THEN None ELSE key
           v == IF "val" \in fails THEN None ELSE val
           full == d.n = SizeOf(d)
           room == IF full THEN dictionary_grow(d) ELSE d
           found == Matches(d, key)
           new == [key |-> k, val |-> v, hash |-> Hash(key)]
<1>3. v \in TextOrNone /\ new \in Slots
  BY DEF Slots, TextOrNone
<1>4. PICK mm \in Nat \ {0} : room \in Dicts(mm) /\ room.n = d.n /\ room.n < mm
  <2>1. CASE full
    <3>1. room \in Dicts(2 * m) /\ room.n = d.n /\ room.n < 2 * m /\ 2 * m \in Nat \ {0}
      BY <1>1, <1>2, <2>1, GrownDict
    <3> QED BY <3>1
  <2>2. CASE ~ full
    <3>1. room \in Dicts(m) /\ room.n = d.n /\ room.n < m
      BY <1>1, <1>2, <2>2
    <3> QED BY <3>1
  <2> QED BY <2>1, <2>2
<1> HIDE DEF room, new, v
<1>5. ASSUME NEW i PROVE IsDict([d EXCEPT !.slot[i].val = v])
  <2> DEFINE slot == [d.slot EXCEPT ![i].val = v]
  <2>1. slot \in [0 .. m - 1 -> Slots]
    BY <1>2, <1>3 DEF Slots
  <2>2. [d EXCEPT !.slot[i].val = v] = [n |-> d.n, slot |-> slot]
    BY <1>2, ValueChanged
  <2> HIDE DEF slot
  <2>3. [d EXCEPT !.slot[i].val = v] \in Dicts(m)
    BY <1>2, <2>1, <2>2 DEF Dicts
  <2> QED BY <2>3 DEF IsDict
<1>6. ASSUME NEW i PROVE IsDict([room EXCEPT !.slot[i] = new, !.n = @ + 1])
  <2> DEFINE slot == [room.slot EXCEPT ![i] = new]
  <2>1. room.n \in 0 .. mm /\ room.slot \in [0 .. mm - 1 -> Slots] /\ IsPair(room)
    BY <1>4 DEF Dicts, IsPair
  <2>2. slot \in [0 .. mm - 1 -> Slots]
    BY <1>3, <2>1
  <2>3. [room EXCEPT !.slot[i] = new, !.n = @ + 1] = [n |-> room.n + 1, slot |-> slot]
    BY <2>1, SlotAdded
  <2>4. room.n + 1 \in 0 .. mm
    BY <1>4, <2>1
  <2> HIDE DEF slot
  <2>5. [room EXCEPT !.slot[i] = new, !.n = @ + 1] \in Dicts(mm)
    BY <2>2, <2>3, <2>4 DEF Dicts
  <2> QED BY <2>5 DEF IsDict
<1>7. dictionary_set(d, key, val, fails).dict \in
        {[d EXCEPT !.slot[Min(found)].val = v], d, [room EXCEPT !.slot[FirstEmpty(room)] = new, !.n = @ + 1]}
  BY DEF dictionary_set, room, new, v
<1> QED BY <1>5, <1>6, <1>7

\* A value of a dictionary is a text or NULL.
LEMMA DictGet ==
  ASSUME NEW d, IsDict(d), NEW key, NEW def
  PROVE  dictionary_get(d, key, def) \in TextOrNone \cup {def}
<1>1. PICK m \in Nat \ {0} : d \in Dicts(m)
  BY DEF IsDict
<1> DEFINE found == Matches(d, key)
<1>2. found \subseteq DOMAIN d.slot /\ DOMAIN d.slot = 0 .. m - 1
  BY <1>1, DictSize DEF Matches
<1>3. CASE found # {}
  <2>1. found \subseteq 0 .. m
    BY <1>2
  <2> HIDE DEF found
  <2>2. Min(found) \in 0 .. m - 1
    BY <1>2, <1>3, <2>1, MinProperties
  <2>3. d.slot[Min(found)].val \in TextOrNone
    BY <1>1, <2>2 DEF Dicts, Slots
  <2> QED BY <1>3, <2>3 DEF dictionary_get, found
<1>4. CASE found = {}
  BY <1>4 DEF dictionary_get
<1> QED BY <1>3, <1>4

-----------------------------------------------------------------------------
(* iniparser_load.                                                         *)

LoadType ==
  /\ file \in Files /\ line \in 0 .. Len(file)
  /\ pending \in Seq(Token) /\ section \in Seq(Token)
  /\ IsDict(dict)

\* A line of the file.
LEMMA LineType ==
  ASSUME NEW f \in Files
  PROVE  f \in Seq(Seq(Token)) /\ Len(f) \in Nat /\ \A i \in 1 .. Len(f) : f[i] \in Seq(Token)
<1>1. f \in Seq(Seq(Token))
  BY StartupAssumption
<1> QED BY <1>1, LenProperties

LEMMA BufferType ==
  ASSUME LoadType, line < Len(file)
  PROVE  /\ line + 1 \in 1 .. Len(file) /\ file[line + 1] \in Seq(Token)
         /\ pending \o file[line + 1] \in Seq(Token) /\ Buffer(file[line + 1]) \in Seq(Token)
<1>1. Len(file) \in Nat /\ (\A i \in 1 .. Len(file) : file[i] \in Seq(Token)) /\ line \in 0 .. Len(file) /\ pending \in Seq(Token)
  BY LineType DEF LoadType
<1>2. line + 1 \in 1 .. Len(file)
  BY <1>1
<1>3. pending \o file[line + 1] \in Seq(Token)
  BY <1>1, <1>2, ConcatProperties
<1>4. Buffer(file[line + 1]) \in Seq(Token)
  BY <1>3, EndType DEF Buffer
<1> QED BY <1>1, <1>2, <1>3, <1>4

\* What iniparser_load stores is a dictionary.
LEMMA StoreType ==
  ASSUME IsDict(dict), NEW found, NEW fails,
         found.section \in Seq(Token), found.key \in Seq(Token), found.value \in Seq(Token)
  PROVE  IsDict(StoreLine(found, fails).dict)
<1>1. found.section \in Key /\ found.section \o <<":">> \o found.key \in Key
  <2> DEFINE S == Token \cup {":"}
  <2>1. found.section \in Seq(S) /\ found.key \in Seq(S)
    BY SeqMonotonic
  <2>2. <<":">> \in Seq(S)
    OBVIOUS
  <2> HIDE DEF S
  <2>3. found.section \o <<":">> \in Seq(S)
    BY <2>1, <2>2, ConcatProperties
  <2>4. found.section \o <<":">> \o found.key \in Seq(S)
    BY <2>1, <2>3, ConcatProperties
  <2> QED BY <2>1, <2>4 DEF Key, S
<1>2. found.value \in TextOrNone /\ None \in TextOrNone
  BY DEF TextOrNone
<1> DEFINE header == dictionary_set(dict, found.section, None, fails)
           entry == dictionary_set(dict, found.section \o <<":">> \o found.key, found.value, fails)
<1>3. IsDict(header.dict) /\ IsDict(entry.dict)
  BY <1>1, <1>2, DictSet
<1>4. StoreLine(found, fails) \in {header, entry, [rc |-> "ok", dict |-> dict]}
  BY DEF StoreLine
<1> HIDE DEF header, entry
<1> QED BY <1>3, <1>4

LEMMA LoadKeepsType ==
  ASSUME LoadType, LoadLine
  PROVE  LoadType'
<1> DEFINE raw == file[line + 1]
           text == Buffer(raw)
<1>1. line < Len(file) /\ line' = line + 1 /\ file' = file
  BY DEF LoadLine
<1>2. line + 1 \in 1 .. Len(file) /\ text \in Seq(Token)
  BY <1>1, BufferType
<1>3. file' \in Files /\ line' \in 0 .. Len(file')
  BY <1>1, <1>2 DEF LoadType
<1>4. CASE GoesOn(text)
  <2>1. pending' = Front(text) /\ section' = section /\ dict' = dict
    BY <1>4 DEF LoadLine
  <2>2. Front(text) \in Seq(Token)
    <3>1. text # <<>>
      BY <1>4 DEF GoesOn
    <3> QED BY <1>2, <3>1, FrontType
  <2> QED BY <1>3, <2>1, <2>2 DEF LoadType
<1>5. CASE ~ GoesOn(text)
  <2> DEFINE found(fails) == iniparser_line(IF "copy" \in fails THEN <<>> ELSE text, section)
  <2>1. PICK fails : pending' = <<>> /\ section' = found(fails).section /\ dict' = StoreLine(found(fails), fails).dict
    BY <1>5 DEF LoadLine
  <2> DEFINE read == IF "copy" \in fails THEN <<>> ELSE text
  <2>2. read \in Seq(Token) /\ section \in Seq(Token) /\ IsDict(dict) /\ <<>> \in Seq(Token)
    BY <1>2, EmptySeq DEF LoadType
  <2>3. LineReads(read, section, iniparser_line(read, section))
    BY <2>2, LineRead
  <2> DEFINE it == iniparser_line(read, section)
  <2>4. it.section \in Seq(Token) /\ it.key \in Seq(Token) /\ it.value \in Seq(Token)
    BY <2>3 DEF LineReads
  <2>5. section' = it.section /\ dict' = StoreLine(it, fails).dict
    BY <2>1
  <2> HIDE DEF it
  <2>6. IsDict(StoreLine(it, fails).dict)
    BY <2>2, <2>4, StoreType
  <2> QED BY <1>3, <2>1, <2>2, <2>4, <2>5, <2>6 DEF LoadType
<1> QED BY <1>4, <1>5

-----------------------------------------------------------------------------
(* The password.                                                           *)

\* The texts that bytes are of: the tokens, and the literals of the signature.
Source ==
  Token \cup {"literal", "inner", "&", "clientId", "deviceName", "productKey", "timestamp", "2524608000000"}

LEMMA TextType ==
  ASSUME NEW source \in Source, NEW len \in Nat
  PROVE  Text(source, len) \in Seq(SourceByte(Source)) /\ Len(Text(source, len)) = len
<1>1. \A i \in 1 .. len : <<"plain", source, i>> \in SourceByte(Source)
  BY DEF SourceByte
<1>2. Text(source, len) \in [1 .. len -> SourceByte(Source)]
  <2> HIDE DEF Source
  <2> QED BY <1>1 DEF Text
<1> QED BY <1>2, FunctionIsSeq

LEMMA BytesType ==
  ASSUME NEW text \in Seq(Token)
  PROVE  Bytes(text) \in Seq(SourceByte(Source)) /\ Len(Bytes(text)) \in Nat
<1> DEFINE S == SourceByte(Source)
           pieces == [k \in DOMAIN text |-> Text(text[k], Length[text[k]])]
<1>1. Len(text) \in Nat /\ DOMAIN text = 1 .. Len(text) /\ \A k \in 1 .. Len(text) : text[k] \in Token
  BY LenProperties
<1>2. ASSUME NEW k \in 1 .. Len(text) PROVE Text(text[k], Length[text[k]]) \in Seq(S)
  <2>1. text[k] \in Source /\ Length[text[k]] \in Nat
    BY <1>1, TokenAssumption DEF Source
  <2> QED BY <2>1, TextType
<1> HIDE DEF S
<1>3. pieces \in [1 .. Len(text) -> Seq(S)]
  BY <1>1, <1>2
<1> HIDE DEF pieces
<1>4. pieces \in Seq(Seq(S))
  BY <1>1, <1>3, FunctionIsSeq
<1>5. Bytes(text) = FlattenSeq(pieces)
  BY DEF Bytes, pieces
<1>6. Bytes(text) \in Seq(S)
  BY <1>4, <1>5, FlattenType
<1> QED BY <1>6, LenProperties DEF S

\* What is signed is as long as the lengths of the credentials say.
LEMMA MacSrcType ==
  ASSUME NEW productKey \in Seq(SourceByte(Source)), NEW deviceName \in Seq(SourceByte(Source)),
         Len(productKey) <= 20, Len(deviceName) <= 32
  PROVE  MacSrc(productKey, deviceName) \in Seq(SourceByte(Source)) /\ Len(MacSrc(productKey, deviceName)) <= 155
<1> DEFINE S == SourceByte(Source)
           p == Len(productKey)
           n == Len(deviceName)
           amp == Text("&", 1)
           a == Text("clientId", 8)
           b == Text("deviceName", 10)
           c == Text("productKey", 10)
           d == Text("timestamp", 9)
           e == Text("2524608000000", 13)
<1>1. p \in Nat /\ n \in Nat /\ p <= 20 /\ n <= 32
  BY LenProperties
<1>2. /\ amp \in Seq(S) /\ Len(amp) = 1 /\ a \in Seq(S) /\ Len(a) = 8
      /\ b \in Seq(S) /\ Len(b) = 10 /\ c \in Seq(S) /\ Len(c) = 10
      /\ d \in Seq(S) /\ Len(d) = 9 /\ e \in Seq(S) /\ Len(e) = 13
  <2>1. \A s \in {"&", "clientId", "deviceName", "productKey", "timestamp", "2524608000000"} : s \in Source
    BY DEF Source
  <2> HIDE DEF S
  <2> QED BY <2>1, TextType DEF S
<1> HIDE DEF S, p, n, amp, a, b, c, d, e
<1>3. productKey \in Seq(S) /\ deviceName \in Seq(S) /\ Len(productKey) = p /\ Len(deviceName) = n
  BY DEF S, p, n
<1>4. \A s, t \in Seq(S) : s \o t \in Seq(S) /\ Len(s \o t) = Len(s) + Len(t)
  BY ConcatProperties
<1> DEFINE id == (deviceName \o amp) \o productKey
           t1 == a \o id
           t2 == t1 \o b
           t3 == t2 \o deviceName
           t4 == t3 \o c
           t5 == t4 \o productKey
           t6 == t5 \o d
           t7 == t6 \o e
<1>5. id \in Seq(S) /\ Len(id) = (n + 1) + p
  <2>1. deviceName \o amp \in Seq(S) /\ Len(deviceName \o amp) = n + 1
    <3>1. deviceName \o amp \in Seq(S) /\ Len(deviceName \o amp) = Len(deviceName) + Len(amp)
      BY <1>2, <1>3, ConcatProperties
    <3> QED BY <1>2, <1>3, <3>1
  <2>2. (deviceName \o amp) \o productKey \in Seq(S)
    BY <1>3, <2>1, ConcatProperties
  <2>3. Len((deviceName \o amp) \o productKey) = Len(deviceName \o amp) + Len(productKey)
    BY <1>3, <2>1, ConcatProperties
  <2> QED BY <1>3, <2>1, <2>2, <2>3
<1>6. MacSrc(productKey, deviceName) = t7
  BY DEF MacSrc, amp, a, b, c, d, e
<1> HIDE DEF id, t1, t2, t3, t4, t5, t6, t7
<1>7. t1 \in Seq(S) /\ Len(t1) = 8 + ((n + 1) + p)
  <2>1. a \o id \in Seq(S) /\ Len(a \o id) = Len(a) + Len(id)
    BY <1>2, <1>5, ConcatProperties
  <2> QED BY <1>2, <1>5, <2>1 DEF t1
<1>8. t2 \in Seq(S) /\ Len(t2) = Len(t1) + 10
  BY <1>2, <1>4, <1>7 DEF t2
<1>9. t3 \in Seq(S) /\ Len(t3) = Len(t2) + n
  BY <1>3, <1>4, <1>8 DEF t3
<1>10. t4 \in Seq(S) /\ Len(t4) = Len(t3) + 10
  BY <1>2, <1>4, <1>9 DEF t4
<1>11. t5 \in Seq(S) /\ Len(t5) = Len(t4) + p
  BY <1>3, <1>4, <1>10 DEF t5
<1>12. t6 \in Seq(S) /\ Len(t6) = Len(t5) + 9
  BY <1>2, <1>4, <1>11 DEF t6
<1>13. t7 \in Seq(S) /\ Len(t7) = Len(t6) + 13
  BY <1>2, <1>4, <1>12 DEF t7
<1>14. Len(t7) <= 155
  BY <1>1, <1>7, <1>8, <1>9, <1>10, <1>11, <1>12, <1>13
<1> QED BY <1>6, <1>13, <1>14 DEF S

\* The credentials are texts, where they are set.
Credentials == {ProductKey, DeviceName, DeviceSecret}
CredentialsType == \A key \in Credentials : config[key] \in TextOrNone

LEMMA SignedAsStandard ==
  ASSUME CredentialsType, ~ SignRefuses
  PROVE  /\ None \notin {config[ProductKey], config[DeviceName], config[DeviceSecret]}
         /\ aiotMqttSign = Hmac(MacSrc(Bytes(config[ProductKey]), Bytes(config[DeviceName])),
                                Bytes(config[DeviceSecret]))
<1> DEFINE p == Bytes(config[ProductKey])
           n == Bytes(config[DeviceName])
           s == Bytes(config[DeviceSecret])
<1>1. None \notin {config[ProductKey], config[DeviceName], config[DeviceSecret]}
  BY DEF SignRefuses
<1>2. config[ProductKey] \in Seq(Token) /\ config[DeviceName] \in Seq(Token) /\ config[DeviceSecret] \in Seq(Token)
  BY <1>1 DEF CredentialsType, Credentials, TextOrNone
<1>3. ~ (Len(p) > 20) /\ ~ (Len(n) > 32) /\ ~ (Len(s) > 64)
  BY DEF SignRefuses
<1>4. /\ p \in Seq(SourceByte(Source)) /\ n \in Seq(SourceByte(Source)) /\ s \in Seq(SourceByte(Source))
      /\ Len(p) \in Nat /\ Len(n) \in Nat /\ Len(s) \in Nat
  BY <1>2, BytesType
<1>5. Len(p) <= 20 /\ Len(n) <= 32 /\ Len(s) <= 64
  BY <1>3, <1>4
<1> HIDE DEF p, n, s
<1> DEFINE msg == MacSrc(p, n)
<1>6. msg \in Seq(SourceByte(Source)) /\ Len(msg) <= 155
  BY <1>4, <1>5, MacSrcType
<1> HIDE DEF msg
<1>7. Len(msg) \in Nat
  BY <1>6, LenProperties
<1>10. FitsWord(64 + Len(msg))
  <2> DEFINE length == Len(msg)
  <2>1. length \in Nat /\ length <= 155
    BY <1>6, <1>7
  <2> HIDE DEF length
  <2>2. FitsWord(64 + length)
    BY ONLY <2>1, SMT DEF FitsWord, WordBytes
  <2> QED BY <2>2 DEF length
<1>8. "literal" \in Source /\ "inner" \in Source
  BY DEF Source
<1>9. utils_hmac_sha256(msg, s) = Hmac(msg, s)
  BY <1>4, <1>5, <1>6, <1>8, <1>10, HmacAsStandard
<1> QED BY <1>1, <1>9 DEF aiotMqttSign, msg, p, n, s


\* Every step but the reading of a line leaves what was read.
LEMMA StepsKeepLoad ==
  ASSUME [StartNext]_allVars, ~ LoadLine
  PROVE  UNCHANGED fileVars
<1>1. CASE EndOfFile \/ LoadFails \/ readConfig \/ readConfigFails \/ drop_root_priviledge
  BY <1>1 DEF EndOfFile, LoadFails, readConfig, readConfigFails, drop_root_priviledge, Exits
<1>2. CASE logging_init \/ readSwitches \/ init_websocket \/ handler_thread \/ PartFails
  BY <1>2 DEF logging_init, readSwitches, init_websocket, handler_thread, PartFails, StartsPart, Exits
<1>3. CASE MqttStep \/ LoopStep \/ PublishStep \/ OtherStep
  BY <1>3 DEF MqttStep, LoopStep, PublishStep, OtherStep, startVars
<1>4. CASE UNCHANGED allVars
  BY <1>4 DEF allVars, startVars
<1> QED BY <1>1, <1>2, <1>3, <1>4 DEF StartNext, StartStep

LEMMA LoadTyped ==
  ASSUME LoadType, [StartNext]_allVars
  PROVE  LoadType'
<1>1. CASE LoadLine
  BY <1>1, LoadKeepsType
<1>2. CASE ~ LoadLine
  <2>1. UNCHANGED fileVars
    BY <1>2, StepsKeepLoad
  <2> QED BY <2>1 DEF fileVars, LoadType
<1> QED BY <1>1, <1>2

\* Only readConfig sets the configuration.
LEMMA StepsKeepConfig ==
  ASSUME [StartNext]_allVars, ~ readConfig
  PROVE  UNCHANGED <<config, lora_list>>
<1>1. CASE LoadLine \/ EndOfFile \/ LoadFails \/ readConfigFails \/ drop_root_priviledge
  BY <1>1 DEF LoadLine, EndOfFile, LoadFails, readConfigFails, drop_root_priviledge, Exits
<1>2. CASE logging_init \/ readSwitches \/ init_websocket \/ handler_thread \/ PartFails
  BY <1>2 DEF logging_init, readSwitches, init_websocket, handler_thread, PartFails, StartsPart, Exits
<1>3. CASE MqttStep \/ LoopStep \/ PublishStep \/ OtherStep
  BY <1>3 DEF MqttStep, LoopStep, PublishStep, OtherStep, startVars
<1>4. CASE UNCHANGED allVars
  BY <1>4 DEF allVars, startVars
<1> QED BY <1>1, <1>2, <1>3, <1>4 DEF StartNext, StartStep

LEMMA CredentialsTyped ==
  ASSUME LoadType, CredentialsType, [StartNext]_allVars
  PROVE  CredentialsType'
<1>1. CASE readConfig
  <2> SUFFICES ASSUME NEW key \in Credentials PROVE config'[key] \in TextOrNone
    BY DEF CredentialsType
  <2>1. key \in Setting /\ key # LogLevel /\ key \notin Address
    BY DEF Credentials, Setting, Address, LogLevel, Entry, ProductKey, DeviceName, DeviceSecret
  <2>2. config'[key] = dictionary_get(dict, key, None)
    BY <1>1, <2>1 DEF readConfig
  <2>3. dictionary_get(dict, key, None) \in TextOrNone \cup {None}
    BY DictGet DEF LoadType
  <2> QED BY <2>2, <2>3 DEF TextOrNone
<1>2. CASE ~ readConfig
  BY <1>2, StepsKeepConfig DEF CredentialsType
<1> QED BY <1>1, <1>2

\* What keeps the password right: a connection is opened only with credentials
\* that can be signed, and they stay as they are.
Signing ==
  /\ Untouched /\ LoadType /\ CredentialsType
  /\ main \in {"client", "connect"} => at = "session" /\ ~ SignRefuses

LEMMA SigningKept ==
  ASSUME Signing, [StartNext]_allVars
  PROVE  Signing'
<1>1. Untouched' /\ LoadType' /\ CredentialsType'
  BY StartNextIsSessionNext, LoadTyped, CredentialsTyped DEF Signing
<1>2. ASSUME main' \in {"client", "connect"} PROVE at' = "session" /\ ~ SignRefuses'
  <2>1. CASE StartStep
    <3>1. at \notin {"session", "exited"}
      BY <2>1 DEF StartStep, LoadLine, EndOfFile, LoadFails, readConfig, readConfigFails, drop_root_priviledge,
                  logging_init, readSwitches, init_websocket, handler_thread, PartFails, StartsPart
    <3>2. main' = "exited" \/ UNCHANGED vars
      BY <2>1 DEF StartStep, LoadLine, EndOfFile, LoadFails, readConfig, readConfigFails, drop_root_priviledge,
                  logging_init, readSwitches, init_websocket, handler_thread, PartFails, StartsPart, Exits
    <3>3. main' = "exited" \/ main' = "network"
      BY <3>1, <3>2 DEF Signing, Untouched, Init, vars
    <3> QED BY <1>2, <3>3
  <2>2. CASE MqttStep \/ LoopStep \/ PublishStep \/ OtherStep
    <3>1. at' = "session" /\ UNCHANGED config
      BY <2>2 DEF MqttStep, LoopStep, PublishStep, OtherStep, startVars
    <3>2. SignRefuses' = SignRefuses
      BY <3>1 DEF SignRefuses
    <3>3. main \in {"client", "connect"} \/ (main = "network" /\ MqttStep)
      <4>1. CASE MqttStep
        BY <1>2, <4>1 DEF MqttStep, MqttConnInit, NetworkConnects, NetworkFails, MQTTClientInit, Connects,
                          ConnectFails, PrintTopics, Subscribes, SubscribeFails, SubscribeRefused, SessionEnds, Fails, Goes
      <4>2. CASE LoopStep \/ PublishStep \/ OtherStep
        BY <1>2, <4>2 DEF LoopStep, PublishStep, OtherStep, MainLoop, SleepOver, MQTTYield, TestConnected,
                          MQTTDisconnect, NetworkDisconnect, PublishBegins, PublishEnds, Drop, Terminate, Goes
      <4> QED BY <2>2, <4>1, <4>2
    <3>4. main = "network" /\ MqttStep => ~ SignRefuses
      BY <1>2 DEF MqttStep, NetworkFails, Fails, Goes
    <3> QED BY <3>1, <3>2, <3>3, <3>4 DEF Signing
  <2>3. CASE UNCHANGED allVars
    <3>1. UNCHANGED <<main, at, config>>
      BY <2>3 DEF allVars, startVars, vars
    <3>2. SignRefuses' = SignRefuses
      BY <3>1 DEF SignRefuses
    <3> QED BY <1>2, <3>1, <3>2 DEF Signing
  <2> QED BY <2>1, <2>2, <2>3 DEF StartNext
<1> QED BY <1>1, <1>2 DEF Signing

LEMMA StartTyped == StartInit => LoadType /\ CredentialsType
<1> SUFFICES ASSUME StartInit PROVE LoadType /\ CredentialsType
  OBVIOUS
<1>1. file \in Files /\ line = 0 /\ pending = <<>> /\ section = <<>> /\ dict = dictionary_new
  BY DEF StartInit
<1>2. Len(file) \in Nat /\ <<>> \in Seq(Token)
  BY <1>1, LineType, EmptySeq
<1>3. LoadType
  BY <1>1, <1>2, NewDict DEF LoadType
<1>4. CredentialsType
  BY DEF StartInit, CredentialsType, Credentials, TextOrNone, Setting
<1> QED BY <1>3, <1>4

\* For every file, every length of the credentials that aiotMqttSign lets pass and
\* every loss of the session: what is sent as the password is their HMAC-SHA256.
THEOREM PasswordSigned == StartSpec => []PasswordSigns
<1>1. StartInit => Signing
  BY StartTyped DEF StartInit, Init, Untouched, Signing
<1>2. Signing /\ [StartNext]_allVars => Signing'
  BY SigningKept
<1>3. Signing => PasswordSigns
  BY SignedAsStandard DEF Signing, PasswordSigns
<1> QED BY <1>1, <1>2, <1>3, PTL DEF StartSpec

-----------------------------------------------------------------------------
(* The list of the nodes.                                                  *)

IsComma(text, k) == text[k] = ","

\* A piece of the first k tokens of a text, from a to b.
IsPiece(text, k, a, b) ==
  /\ a \in 1 .. k /\ b \in a .. k /\ \A j \in a .. b : ~ IsComma(text, j)
  /\ (a = 1 \/ IsComma(text, a - 1)) /\ (b = k \/ IsComma(text, b + 1))

\* A list holds the pieces of the first k tokens, from the last one on, of which the
\* i-th goes from "from[i]" to "to[i]".
PiecesAre(text, k, list, from, to) ==
  /\ \A i \in 1 .. Len(list) : IsPiece(text, k, from[i], to[i])
  /\ \A a \in 1 .. k : \A b \in 1 .. k : IsPiece(text, k, a, b) => \E i \in 1 .. Len(list) : from[i] = a /\ to[i] = b
  /\ \A i, j \in 1 .. Len(list) : i < j => to[j] < from[i]
  /\ \A i \in 1 .. Len(list) : list[i] = SubSeq(text, from[i], to[i])

Listed(text, k, list) ==
  \E from, to \in [1 .. Len(list) -> 1 .. Len(text)] : PiecesAre(text, k, list, from, to)

\* What strtok does with token k.
CutAt(text, k, list) ==
  IF IsComma(text, k) THEN list
  ELSE IF k = 1 \/ IsComma(text, k - 1) THEN <<<<text[k]>>>> \o list
  ELSE [list EXCEPT ![1] = Append(@, text[k])]

LEMMA PieceGrows ==
  ASSUME NEW T, NEW text \in Seq(T), NEW a \in 1 .. Len(text), NEW b \in a .. Len(text)
  PROVE  /\ SubSeq(text, a, b) = Append(SubSeq(text, a, b - 1), text[b])
         /\ <<text[b]>> = SubSeq(text, b, b)
<1>1. Len(text) \in Nat /\ b \in 1 .. Len(text) /\ text[b] \in T
  BY LenProperties
<1> DEFINE long == SubSeq(text, a, b)
           short == SubSeq(text, a, b - 1)
           one == SubSeq(text, b, b)
<1>2. /\ a \in 1 .. Len(text) + 1 /\ b \in a - 1 .. Len(text) /\ b - 1 \in a - 1 .. Len(text)
      /\ b \in 1 .. Len(text) + 1 /\ b \in b - 1 .. Len(text)
  BY <1>1
<1>3. long \in Seq(T) /\ Len(long) = b - a + 1 /\ \A i \in 1 .. b - a + 1 : long[i] = text[a + i - 1]
  BY <1>2, PieceOf
<1>4. short \in Seq(T) /\ Len(short) = (b - 1) - a + 1 /\ \A i \in 1 .. (b - 1) - a + 1 : short[i] = text[a + i - 1]
  BY <1>2, PieceOf
<1>5. one \in Seq(T) /\ Len(one) = b - b + 1 /\ \A i \in 1 .. b - b + 1 : one[i] = text[b + i - 1]
  BY <1>2, PieceOf
<1> HIDE DEF long, short, one
<1> DEFINE app == Append(short, text[b])
<1>6. app \in Seq(T) /\ Len(app) = Len(short) + 1
      /\ (\A i \in 1 .. Len(short) : app[i] = short[i]) /\ app[Len(short) + 1] = text[b]
  BY <1>1, <1>4, AppendProperties
<1> HIDE DEF app
<1>7. Len(short) = b - a /\ Len(long) = b - a + 1 /\ Len(app) = b - a + 1
  BY <1>1, <1>3, <1>4, <1>6
<1>8. ASSUME NEW i \in 1 .. Len(long) PROVE long[i] = app[i]
  <2>1. CASE i = b - a + 1
    <3>1. a + i - 1 = b
      BY <1>1, <2>1
    <3> QED BY <1>3, <1>6, <1>7, <2>1, <3>1
  <2>2. CASE i # b - a + 1
    <3>1. i \in 1 .. b - a /\ i \in 1 .. (b - 1) - a + 1 /\ i \in 1 .. b - a + 1
      BY <1>1, <1>7, <2>2
    <3> QED BY <1>3, <1>4, <1>6, <1>7, <3>1
  <2> QED BY <2>1, <2>2
<1>9. long = app
  BY <1>3, <1>6, <1>7, <1>8, SeqEqual
<1>10. one = <<text[b]>>
  <2>1. Len(one) = 1 /\ one[1] = text[b]
    BY <1>1, <1>5
  <2>2. <<text[b]>> \in Seq(T) /\ Len(<<text[b]>>) = 1 /\ <<text[b]>>[1] = text[b]
    BY <1>1
  <2> DEFINE other == <<text[b]>>
  <2> HIDE DEF other
  <2>3. one = other
    <3>1. \A i \in 1 .. Len(one) : one[i] = other[i]
      BY <2>1, <2>2 DEF other
    <3> QED BY <1>5, <2>1, <2>2, <3>1, SeqEqual DEF other
  <2> QED BY <2>3 DEF other
<1> QED BY <1>9, <1>10 DEF long, short, one, app

\* At a comma the pieces stay as they are.
LEMMA CutComma ==
  ASSUME NEW text \in Seq(Token), NEW k \in 1 .. Len(text), IsComma(text, k),
         NEW list \in Seq(Seq(Token)), Listed(text, k - 1, list)
  PROVE  Listed(text, k, list)
<1>1. PICK from, to \in [1 .. Len(list) -> 1 .. Len(text)] : PiecesAre(text, k - 1, list, from, to)
  BY DEF Listed
<1>2. \A a, b \in 1 .. k : IsPiece(text, k, a, b) => b # k
  <2>1. Len(text) \in Nat
    BY LenProperties
  <2> QED BY <2>1 DEF IsPiece
<1>3. \A a, b \in 1 .. Len(text) : IsPiece(text, k, a, b) <=> IsPiece(text, k - 1, a, b)
  <2> SUFFICES ASSUME NEW a \in 1 .. Len(text), NEW b \in 1 .. Len(text)
               PROVE  IsPiece(text, k, a, b) <=> IsPiece(text, k - 1, a, b)
    OBVIOUS
  <2>1. Len(text) \in Nat
    BY LenProperties
  <2>2. ASSUME IsPiece(text, k, a, b) PROVE IsPiece(text, k - 1, a, b)
    <3>1. b # k /\ b \in a .. k /\ a \in 1 .. k
      BY <1>2, <2>1, <2>2 DEF IsPiece
    <3>2. a \in 1 .. k - 1 /\ b \in a .. k - 1
      BY <2>1, <3>1
    <3> QED BY <2>2, <3>1, <3>2 DEF IsPiece
  <2>3. ASSUME IsPiece(text, k - 1, a, b) PROVE IsPiece(text, k, a, b)
    <3>1. a \in 1 .. k /\ b \in a .. k /\ (b = k - 1 => IsComma(text, b + 1))
      BY <2>1, <2>3 DEF IsPiece
    <3> QED BY <2>3, <3>1 DEF IsPiece
  <2> QED BY <2>2, <2>3
<1>4. \A i \in 1 .. Len(list) : IsPiece(text, k, from[i], to[i])
  BY <1>1, <1>3 DEF PiecesAre
<1>5. ASSUME NEW a \in 1 .. k, NEW b \in 1 .. k, IsPiece(text, k, a, b)
      PROVE  \E i \in 1 .. Len(list) : from[i] = a /\ to[i] = b
  <2>1. a \in 1 .. k - 1 /\ b \in 1 .. k - 1 /\ a \in 1 .. Len(text) /\ b \in 1 .. Len(text)
    <3>1. Len(text) \in Nat
      BY LenProperties
    <3>2. b # k /\ a <= b
      BY <1>2, <1>5 DEF IsPiece
    <3> QED BY <3>1, <3>2
  <2>2. IsPiece(text, k - 1, a, b)
    BY <1>3, <1>5, <2>1
  <2> QED BY <1>1, <2>1, <2>2 DEF PiecesAre
<1>6. PiecesAre(text, k, list, from, to)
  BY <1>1, <1>4, <1>5 DEF PiecesAre
<1> QED BY <1>6 DEF Listed

\* Behind a comma a piece begins.
LEMMA CutNew ==
  ASSUME NEW text \in Seq(Token), NEW k \in 1 .. Len(text), ~ IsComma(text, k), k = 1 \/ IsComma(text, k - 1),
         NEW list \in Seq(Seq(Token)), Listed(text, k - 1, list)
  PROVE  Listed(text, k, <<<<text[k]>>>> \o list) /\ <<<<text[k]>>>> \o list \in Seq(Seq(Token))
<1>1. PICK from, to \in [1 .. Len(list) -> 1 .. Len(text)] : PiecesAre(text, k - 1, list, from, to)
  BY DEF Listed
<1> DEFINE m == Len(list)
           one == <<text[k]>>
           head == <<one>>
           new == head \o list
           f == [i \in 1 .. m + 1 |-> IF i = 1 THEN k ELSE from[i - 1]]
           t == [i \in 1 .. m + 1 |-> IF i = 1 THEN k ELSE to[i - 1]]
<1>2. m \in Nat /\ Len(text) \in Nat /\ text[k] \in Token
  BY LenProperties
<1>3. one \in Seq(Token) /\ one = SubSeq(text, k, k)
  <2>1. k \in 1 .. Len(text) /\ k \in k .. Len(text)
    BY <1>2
  <2> QED BY <1>2, <2>1, PieceGrows
<1> HIDE DEF one
<1>4. head \in Seq(Seq(Token)) /\ Len(head) = 1 /\ head[1] = one
  BY <1>3
<1> HIDE DEF head
<1>5. /\ new \in Seq(Seq(Token)) /\ Len(new) = m + 1 /\ new[1] = one
      /\ \A i \in 1 .. m : new[i + 1] = list[i]
  <2> DEFINE S == Seq(Token)
  <2>0. head \in Seq(S) /\ list \in Seq(S)
    BY <1>4
  <2> HIDE DEF S
  <2>1. /\ new \in Seq(S) /\ Len(new) = Len(head) + Len(list)
        /\ \A i \in 1 .. Len(head) : new[i] = head[i]
        /\ \A i \in 1 .. Len(list) : new[Len(head) + i] = list[i]
    BY <2>0, ConcatBytes
  <2> HIDE DEF new
  <2>2. 1 \in 1 .. Len(head) /\ \A i \in 1 .. m : 1 + i = i + 1
    BY <1>2, <1>4
  <2> QED BY <1>2, <1>4, <2>1, <2>2 DEF S
<1> HIDE DEF new, m
<1>6. f \in [1 .. m + 1 -> 1 .. Len(text)] /\ t \in [1 .. m + 1 -> 1 .. Len(text)]
  <2>1. \A i \in 1 .. m + 1 : i # 1 => i - 1 \in 1 .. m
    BY <1>2
  <2>2. k \in 1 .. Len(text)
    OBVIOUS
  <2> QED BY <2>1, <2>2 DEF m
<1>7. /\ f[1] = k /\ t[1] = k
      /\ \A i \in 2 .. m + 1 : f[i] = from[i - 1] /\ t[i] = to[i - 1] /\ new[i] = list[i - 1] /\ i - 1 \in 1 .. m
  <2>1. 1 \in 1 .. m + 1
    BY <1>2
  <2>2. ASSUME NEW i \in 2 .. m + 1 PROVE i \in 1 .. m + 1 /\ i # 1 /\ i - 1 \in 1 .. m /\ (i - 1) + 1 = i
    BY <1>2
  <2> QED BY <1>5, <2>1, <2>2
<1> HIDE DEF f, t
<1>8. ASSUME NEW i \in 1 .. m PROVE IsPiece(text, k, from[i], to[i]) /\ to[i] < k /\ from[i] < k /\ to[i] \in 1 .. Len(text)
  <2>1. IsPiece(text, k - 1, from[i], to[i])
    BY <1>1, <1>8 DEF PiecesAre, m
  <2>2. from[i] \in 1 .. k - 1 /\ to[i] \in from[i] .. k - 1 /\ (to[i] = k - 1 => ~ IsComma(text, to[i]))
    BY <2>1 DEF IsPiece
  <2>3. to[i] # k - 1
    BY <1>2, <2>2
  <2> QED BY <1>2, <2>1, <2>2, <2>3 DEF IsPiece
<1>9. IsPiece(text, k, k, k)
  BY <1>2 DEF IsPiece
<1>10. ASSUME NEW a \in 1 .. k, NEW b \in 1 .. k, IsPiece(text, k, a, b)
       PROVE  \E i \in 1 .. m + 1 : f[i] = a /\ t[i] = b
  <2>1. CASE b = k
    <3>1. a = k
      <4> SUFFICES ASSUME a # k PROVE FALSE
        OBVIOUS
      <4>1. k - 1 \in a .. b /\ k # 1
        BY <1>2, <2>1
      <4> QED BY <1>10, <4>1 DEF IsPiece
    <3>2. 1 \in 1 .. m + 1
      BY <1>2
    <3> QED BY <1>7, <2>1, <3>1, <3>2
  <2>2. CASE b # k
    <3>1. a \in 1 .. k - 1 /\ b \in a .. k - 1 /\ b \in 1 .. k - 1
      BY <1>2, <1>10, <2>2 DEF IsPiece
    <3>2. IsPiece(text, k - 1, a, b)
      BY <1>10, <2>2, <3>1 DEF IsPiece
    <3>3. PICK i \in 1 .. m : from[i] = a /\ to[i] = b
      BY <1>1, <3>1, <3>2 DEF PiecesAre, m
    <3>4. i + 1 \in 2 .. m + 1 /\ (i + 1) - 1 = i /\ i + 1 \in 1 .. m + 1
      BY <1>2
    <3>5. f[i + 1] = a /\ t[i + 1] = b
      BY <1>7, <3>3, <3>4
    <3> QED BY <3>4, <3>5
  <2> QED BY <2>1, <2>2
<1>11. \A i \in 1 .. m + 1 : IsPiece(text, k, f[i], t[i]) /\ new[i] = SubSeq(text, f[i], t[i])
  <2> SUFFICES ASSUME NEW i \in 1 .. m + 1 PROVE IsPiece(text, k, f[i], t[i]) /\ new[i] = SubSeq(text, f[i], t[i])
    OBVIOUS
  <2>1. CASE i = 1
    BY <1>3, <1>5, <1>7, <1>9, <2>1
  <2>2. CASE i # 1
    <3>1. i \in 2 .. m + 1
      BY <1>2, <2>2
    <3>2. list[i - 1] = SubSeq(text, from[i - 1], to[i - 1]) /\ IsPiece(text, k, from[i - 1], to[i - 1])
      BY <1>1, <1>7, <1>8, <3>1 DEF PiecesAre, m
    <3> QED BY <1>7, <3>1, <3>2
  <2> QED BY <2>1, <2>2
<1>12. ASSUME NEW i \in 1 .. m + 1, NEW j \in 1 .. m + 1, i < j PROVE t[j] < f[i]
  <2>1. j \in 2 .. m + 1
    BY <1>2, <1>12
  <2>2. CASE i = 1
    BY <1>7, <1>8, <2>1, <2>2
  <2>3. CASE i # 1
    <3>1. i \in 2 .. m + 1 /\ i - 1 < j - 1
      BY <1>2, <1>12, <2>3
    <3>2. f[i] = from[i - 1] /\ t[j] = to[j - 1] /\ i - 1 \in 1 .. m /\ j - 1 \in 1 .. m
      BY <1>7, <2>1, <3>1
    <3>3. \A a, b \in 1 .. m : a < b => to[b] < from[a]
      BY <1>1 DEF PiecesAre, m
    <3> QED BY ONLY <3>1, <3>2, <3>3
  <2> QED BY <2>2, <2>3
<1>13. PiecesAre(text, k, new, f, t)
  <2>1. \A a \in 1 .. k : \A b \in 1 .. k : IsPiece(text, k, a, b) => \E i \in 1 .. m + 1 : f[i] = a /\ t[i] = b
    BY <1>10
  <2>2. \A i, j \in 1 .. m + 1 : i < j => t[j] < f[i]
    BY <1>12
  <2>3. Len(new) = m + 1
    BY <1>5
  <2>4. \A i \in 1 .. Len(new) : IsPiece(text, k, f[i], t[i]) /\ new[i] = SubSeq(text, f[i], t[i])
    BY <1>11, <2>3
  <2>5. \A a \in 1 .. k : \A b \in 1 .. k : IsPiece(text, k, a, b) => \E i \in 1 .. Len(new) : f[i] = a /\ t[i] = b
    BY <2>1, <2>3
  <2>6. \A i, j \in 1 .. Len(new) : i < j => t[j] < f[i]
    BY <2>2, <2>3
  <2> QED BY <2>4, <2>5, <2>6, Zenon DEF PiecesAre
<1>14. Listed(text, k, new)
  BY <1>5, <1>6, <1>13 DEF Listed
<1> QED BY <1>5, <1>14 DEF new, head, one

\* Any other token goes on with the piece before it, which is the first of the list.
LEMMA CutGrows ==
  ASSUME NEW text \in Seq(Token), NEW k \in 1 .. Len(text), ~ IsComma(text, k), k # 1, ~ IsComma(text, k - 1),
         NEW list \in Seq(Seq(Token)), Listed(text, k - 1, list)
  PROVE  /\ Listed(text, k, [list EXCEPT ![1] = Append(@, text[k])])
         /\ [list EXCEPT ![1] = Append(@, text[k])] \in Seq(Seq(Token))
<1>1. PICK from, to \in [1 .. Len(list) -> 1 .. Len(text)] : PiecesAre(text, k - 1, list, from, to)
  BY DEF Listed
<1> DEFINE m == Len(list)
           S == Seq(Token)
           e == Append(list[1], text[k])
           new == [list EXCEPT ![1] = e]
           t == [i \in 1 .. m |-> IF i = 1 THEN k ELSE to[i]]
<1>2. m \in Nat /\ Len(text) \in Nat /\ text[k] \in Token
  BY LenProperties
<1>3. /\ \A i \in 1 .. m : IsPiece(text, k - 1, from[i], to[i]) /\ list[i] = SubSeq(text, from[i], to[i])
      /\ \A i, j \in 1 .. m : i < j => to[j] < from[i]
      /\ \A i \in 1 .. m : from[i] \in 1 .. k - 1 /\ to[i] \in from[i] .. k - 1
  BY <1>1 DEF PiecesAre, IsPiece
<1>4. PICK a \in 1 .. k - 1 : IsPiece(text, k - 1, a, k - 1)
  <2> DEFINE C == {j \in 0 .. k - 1 : j = 0 \/ IsComma(text, j)}
  <2>1. C \subseteq 0 .. k - 1 /\ 0 \in C /\ k - 1 \in Nat /\ k - 1 # 0
    BY <1>2
  <2>2. Max(C) \in C /\ \A j \in C : j <= Max(C)
    <3> HIDE DEF C
    <3> QED BY <2>1, MaxProperties
  <2> DEFINE p == Max(C)
  <2> HIDE DEF p
  <2>3. p \in 0 .. k - 1 /\ (p = 0 \/ IsComma(text, p)) /\ \A j \in p + 1 .. k - 1 : ~ IsComma(text, j)
    <3>1. p \in 0 .. k - 1 /\ (p = 0 \/ IsComma(text, p))
      BY <2>2 DEF p
    <3>2. ASSUME NEW j \in p + 1 .. k - 1 PROVE ~ IsComma(text, j)
      <4>1. j \in 0 .. k - 1 /\ ~ (j <= p)
        BY <1>2, <3>1
      <4>2. j \notin C
        BY <2>2, <4>1 DEF p
      <4> QED BY <4>1, <4>2
    <3> QED BY <3>1, <3>2
  <2>4. p # k - 1
    BY <2>1, <2>3
  <2>5. p + 1 \in 1 .. k - 1 /\ k - 1 \in p + 1 .. k - 1 /\ (p + 1) - 1 = p /\ (p + 1 = 1 <=> p = 0)
    BY <1>2, <2>3, <2>4
  <2>6. IsPiece(text, k - 1, p + 1, k - 1)
    BY <2>3, <2>5 DEF IsPiece
  <2> QED BY <2>5, <2>6
<1>5. 1 \in 1 .. m /\ to[1] = k - 1
  <2>1. PICK i \in 1 .. m : to[i] = k - 1
    <3>1. k - 1 \in 1 .. k - 1
      BY <1>2
    <3> QED BY <1>1, <1>4, <3>1 DEF PiecesAre
  <2>2. 1 \in 1 .. m
    BY <1>2
  <2>3. i = 1
    <3> SUFFICES ASSUME i # 1 PROVE FALSE
      OBVIOUS
    <3>1. to[i] < from[1] /\ from[1] \in 1 .. k - 1
      BY <1>2, <1>3, <2>2
    <3> QED BY <1>2, <2>1, <3>1
  <2> QED BY <2>1, <2>2, <2>3
<1>6. list[1] \in S /\ list[1] = SubSeq(text, from[1], k - 1) /\ from[1] \in 1 .. k - 1
  BY <1>3, <1>5, LenProperties
<1>7. e \in S /\ e = SubSeq(text, from[1], k)
  <2>1. e \in S
    BY <1>2, <1>6, AppendProperties
  <2>2. from[1] \in 1 .. Len(text) /\ k \in from[1] .. Len(text)
    <3>1. \A x \in 1 .. k - 1 : x \in 1 .. Len(text) /\ k \in x .. Len(text)
      BY <1>2
    <3> QED BY <1>6, <3>1
  <2> QED BY <1>6, <2>1, <2>2, PieceGrows
<1> HIDE DEF e
<1>8. /\ new \in Seq(S) /\ Len(new) = m
      /\ \A i \in 1 .. m : new[i] = IF i = 1 THEN e ELSE list[i]
  <2>1. list \in Seq(S) /\ 1 \in 1 .. Len(list)
    BY <1>5
  <2> HIDE DEF S
  <2> QED BY <1>7, <2>1, ExceptSeq
<1> HIDE DEF new, m, S
<1>9. t \in [1 .. m -> 1 .. Len(text)] /\ from \in [1 .. m -> 1 .. Len(text)] /\ t[1] = k
      /\ \A i \in 1 .. m : i # 1 => t[i] = to[i]
  BY <1>5 DEF m
<1> HIDE DEF t
<1>10. \A i \in 1 .. m : i # 1 => to[i] \in from[i] .. k - 2 /\ from[i] \in 1 .. k - 2
  <2> SUFFICES ASSUME NEW i \in 1 .. m, i # 1 PROVE to[i] \in from[i] .. k - 2 /\ from[i] \in 1 .. k - 2
    OBVIOUS
  <2>1. to[i] < from[1] /\ from[1] \in 1 .. k - 1 /\ from[i] \in 1 .. k - 1 /\ to[i] \in from[i] .. k - 1
    BY <1>2, <1>3, <1>5
  <2> QED BY <1>2, <2>1
<1>11. ASSUME NEW i \in 1 .. m PROVE IsPiece(text, k, from[i], t[i]) /\ new[i] = SubSeq(text, from[i], t[i])
  <2>1. CASE i = 1
    <3>1. IsPiece(text, k - 1, from[1], k - 1)
      BY <1>3, <1>5
    <3>2. \A j \in from[1] .. k : ~ IsComma(text, j)
      <4>1. \A j \in from[1] .. k : j = k \/ j \in from[1] .. k - 1
        BY <1>2, <1>6
      <4> QED BY <3>1, <4>1 DEF IsPiece
    <3>3. from[1] \in 1 .. k /\ k \in from[1] .. k
      BY <1>2, <1>6
    <3>4. IsPiece(text, k, from[1], k)
      BY <3>1, <3>2, <3>3 DEF IsPiece
    <3> QED BY <1>5, <1>7, <1>8, <1>9, <2>1, <3>4
  <2>2. CASE i # 1
    <3>1. IsPiece(text, k - 1, from[i], to[i]) /\ to[i] \in from[i] .. k - 2 /\ from[i] \in 1 .. k - 2
      BY <1>3, <1>10, <2>2
    <3>2. to[i] # k - 1 /\ to[i] \in from[i] .. k /\ from[i] \in 1 .. k
      BY <1>2, <3>1
    <3>3. IsPiece(text, k, from[i], to[i])
      BY <3>1, <3>2 DEF IsPiece
    <3> QED BY <1>3, <1>8, <1>9, <2>2, <3>3
  <2> QED BY <2>1, <2>2
<1>12. ASSUME NEW b \in 1 .. k, NEW c \in 1 .. k, IsPiece(text, k, b, c)
       PROVE  \E i \in 1 .. m : from[i] = b /\ t[i] = c
  <2>1. CASE c = k
    <3>1. b # k
      BY <1>2, <1>12 DEF IsPiece
    <3>2. b \in 1 .. k - 1 /\ k - 1 \in b .. k - 1 /\ k - 1 \in 1 .. k - 1 /\ \A j \in b .. k - 1 : j \in b .. c
      BY <1>2, <2>1, <3>1
    <3>3. IsPiece(text, k - 1, b, k - 1)
      BY <1>12, <3>2 DEF IsPiece
    <3>4. PICK i \in 1 .. m : from[i] = b /\ to[i] = k - 1
      BY <1>1, <3>2, <3>3 DEF PiecesAre, m
    <3>5. i = 1
      <4>1. i # 1 => k - 1 \in from[i] .. k - 2
        BY <1>10, <3>4
      <4> QED BY <1>2, <1>3, <3>4, <4>1
    <3> QED BY <1>5, <1>9, <2>1, <3>4, <3>5
  <2>2. CASE c # k
    <3>1. c \in b .. k - 1 /\ b \in 1 .. k - 1 /\ c \in 1 .. k - 1 /\ IsComma(text, c + 1)
      BY <1>2, <1>12, <2>2 DEF IsPiece
    <3>2. c # k - 1
      <4>1. c = k - 1 => c + 1 = k
        BY <1>2
      <4> QED BY <3>1, <4>1
    <3>3. IsPiece(text, k - 1, b, c)
      BY <1>12, <3>1 DEF IsPiece
    <3>4. PICK i \in 1 .. m : from[i] = b /\ to[i] = c
      BY <1>1, <3>1, <3>3 DEF PiecesAre, m
    <3>5. i # 1
      BY <1>5, <3>2, <3>4
    <3> QED BY <1>9, <3>4, <3>5
  <2> QED BY <2>1, <2>2
<1>13. ASSUME NEW i \in 1 .. m, NEW j \in 1 .. m, i < j PROVE t[j] < from[i]
  <2>1. j # 1
    BY <1>2, <1>13
  <2> QED BY <1>3, <1>9, <1>13, <2>1
<1>14. PiecesAre(text, k, new, from, t)
  <2>1. \A b \in 1 .. k : \A c \in 1 .. k : IsPiece(text, k, b, c) => \E i \in 1 .. m : from[i] = b /\ t[i] = c
    BY <1>12
  <2>2. \A i, j \in 1 .. m : i < j => t[j] < from[i]
    BY <1>13
  <2> QED BY <1>8, <1>11, <2>1, <2>2 DEF PiecesAre
<1>15. Listed(text, k, new)
  BY <1>8, <1>9, <1>14 DEF Listed
<1> QED BY <1>8, <1>15 DEF new, e, S

\* The lists that strtok makes of the fronts of a text.
Lists(text) ==
  CHOOSE list : list =
    [k \in 0 .. Len(text) |-> IF k = 0 THEN <<>> ELSE CutAt(text, k, list[k - 1])]

LEMMA CutType ==
  ASSUME NEW text \in Seq(Token), NEW k \in 1 .. Len(text), NEW list \in Seq(Seq(Token))
  PROVE  CutAt(text, k, list) \in Seq(Seq(Token))
<1> DEFINE S == Seq(Token)
<1>1. text[k] \in Token /\ <<text[k]>> \in S /\ Len(list) \in Nat
  BY LenProperties
<1>2. <<<<text[k]>>>> \in Seq(S) /\ list \in Seq(S)
  BY <1>1
<1>3. [list EXCEPT ![1] = Append(@, text[k])] \in Seq(S)
  <2> DEFINE e == Append(list[1], text[k])
             new == [list EXCEPT ![1] = e]
  <2>1. CASE list = <<>>
    <3>1. DOMAIN list = {}
      BY <2>1
    <3>2. new = list
      BY <1>2, <3>1, LenProperties
    <3> QED BY <1>2, <3>2
  <2>2. CASE list # <<>>
    <3>1. 1 \in 1 .. Len(list)
      BY <1>1, <2>2, EmptySeq
    <3>2. list[1] \in S
      BY <3>1, LenProperties
    <3>3. e \in S
      BY <1>1, <3>2, AppendProperties
    <3> HIDE DEF e, S
    <3>4. new \in Seq(S)
      BY <1>2, <3>1, <3>3, ExceptSeq
    <3> QED BY <3>4 DEF e
  <2> QED BY <2>1, <2>2
<1>4. <<<<text[k]>>>> \o list \in Seq(S)
  <2> DEFINE one == <<<<text[k]>>>>
  <2>1. one \in Seq(S)
    BY <1>2
  <2> HIDE DEF S, one
  <2>2. one \o list \in Seq(S)
    BY <1>2, <2>1, ConcatProperties
  <2> QED BY <2>2 DEF one
<1> HIDE DEF S
<1> QED BY <1>2, <1>3, <1>4 DEF CutAt, S

LEMMA ListsStep ==
  ASSUME NEW text \in Seq(Token)
  PROVE  /\ Lists(text)[0] = <<>>
         /\ \A k \in 1 .. Len(text) : Lists(text)[k] = CutAt(text, k, Lists(text)[k - 1])
         /\ strtok(text) = Lists(text)[Len(text)]
<1> DEFINE n == Len(text)
           D == Seq(Seq(Token))
           none == <<>>
           Unfold(list) == [k \in 0 .. n |-> IF k = 0 THEN <<>> ELSE CutAt(text, k, list[k - 1])]
           step == [k \in 1 .. n |-> [list \in D |-> CutAt(text, k, list)]]
<1>1. n \in Nat /\ none \in D
  BY LenProperties, EmptySeq
<1>2. step \in [1 .. n -> [D -> D]]
  <2>1. \A k \in 1 .. n : \A list \in D : CutAt(text, k, list) \in D
    BY CutType
  <2> HIDE DEF D, n
  <2> QED BY <2>1
<1> HIDE DEF n, D, none
<1>3. PICK f \in [0 .. n -> D] : f[0] = none /\ \A i \in 1 .. n : f[i] = step[i][f[i - 1]]
  <2> HIDE DEF step
  <2>1. Iterates(n, D, none, step)
    BY <1>1, <1>2, Iteration
  <2> QED BY <2>1 DEF Iterates
<1>4. ASSUME NEW i \in 1 .. n PROVE f[i] = CutAt(text, i, f[i - 1])
  <2>1. i - 1 \in 0 .. n
    BY <1>1
  <2>2. f[i - 1] \in D
    BY <1>3, <2>1
  <2> QED BY <1>3, <2>2
<1>5. f = Unfold(f)
  <2>1. ASSUME NEW k \in 0 .. n PROVE f[k] = IF k = 0 THEN <<>> ELSE CutAt(text, k, f[k - 1])
    <3>1. k # 0 => k \in 1 .. n
      BY <1>1
    <3> QED BY <1>3, <1>4, <3>1 DEF none
  <2> QED BY <2>1
<1> DEFINE h == Lists(text)
<1>6. h = Unfold(h)
  <2> HIDE DEF Unfold
  <2>1. h = CHOOSE list : list = Unfold(list)
    BY DEF Lists, Unfold, n
  <2> QED BY <1>5, <2>1
<1> HIDE DEF h
<1>7. \A k \in 0 .. n : h[k] = IF k = 0 THEN <<>> ELSE CutAt(text, k, h[k - 1])
  BY <1>6
<1>8. h[0] = <<>> /\ \A k \in 1 .. n : h[k] = CutAt(text, k, h[k - 1])
  <2>1. 0 \in 0 .. n /\ \A k \in 1 .. n : k \in 0 .. n /\ k # 0
    BY <1>1
  <2> QED BY <1>7, <2>1
<1>9. strtok(text) = Lists(text)[Len(text)]
  BY DEF strtok, Lists, CutAt, IsComma
<1> QED BY <1>8, <1>9 DEF h, n

\* strtok's list holds the pieces between the commas of every text, each once.
THEOREM NodesListed ==
  ASSUME NEW text \in Seq(Token)
  PROVE  ListsPieces(strtok(text), text)
<1> DEFINE n == Len(text)
           h == Lists(text)
           P == {k \in 0 .. n : h[k] \in Seq(Seq(Token)) /\ Listed(text, k, h[k])}
<1>1. n \in Nat
  BY LenProperties
<1>2. h[0] = <<>> /\ (\A k \in 1 .. n : h[k] = CutAt(text, k, h[k - 1])) /\ strtok(text) = h[n]
  BY ListsStep
<1> HIDE DEF h, n
<1>3. 0 \in P
  <2> DEFINE none == <<>>
             from == [i \in 1 .. Len(none) |-> 1]
  <2>1. none \in Seq(Seq(Token)) /\ Len(none) = 0
    BY EmptySeq
  <2>2. 1 .. Len(none) = {} /\ 1 .. 0 = {}
    BY <2>1
  <2>3. from \in [1 .. Len(none) -> 1 .. Len(text)]
    BY <2>2
  <2> HIDE DEF none, from
  <2>4. PiecesAre(text, 0, none, from, from)
    BY <2>2 DEF PiecesAre
  <2>5. Listed(text, 0, none)
    BY <2>3, <2>4 DEF Listed
  <2>6. h[0] = none /\ 0 \in 0 .. n
    BY <1>1, <1>2 DEF none
  <2> QED BY <2>1, <2>5, <2>6
<1>4. ASSUME NEW k \in 1 .. n, k - 1 \in P PROVE k \in P
  <2> DEFINE list == h[k - 1]
  <2>1. h[k] = CutAt(text, k, list) /\ list \in Seq(Seq(Token)) /\ Listed(text, k - 1, list) /\ k \in 1 .. Len(text)
    BY <1>2, <1>4 DEF n
  <2> HIDE DEF list
  <2>2. h[k] \in Seq(Seq(Token))
    BY <2>1, CutType
  <2>3. Listed(text, k, CutAt(text, k, list))
    <3>1. CASE IsComma(text, k)
      BY <2>1, <3>1, CutComma DEF CutAt
    <3>2. CASE ~ IsComma(text, k) /\ (k = 1 \/ IsComma(text, k - 1))
      BY <2>1, <3>2, CutNew DEF CutAt
    <3>3. CASE ~ IsComma(text, k) /\ k # 1 /\ ~ IsComma(text, k - 1)
      BY <2>1, <3>3, CutGrows DEF CutAt
    <3> QED BY <3>1, <3>2, <3>3
  <2>4. k \in 0 .. n
    BY <1>1
  <2> QED BY <2>1, <2>2, <2>3, <2>4
<1>5. n \in P
  <2> HIDE DEF P
  <2>1. \A i \in 0 .. n : i \in P
    BY <1>1, <1>3, <1>4, Ladder
  <2> QED BY <1>1, <2>1
<1> DEFINE list == h[n]
<1>6. list \in Seq(Seq(Token)) /\ Listed(text, n, list)
  BY <1>5
<1> HIDE DEF list
<1>7. PICK from, to \in [1 .. Len(list) -> 1 .. n] : PiecesAre(text, n, list, from, to)
  BY <1>6 DEF Listed, n
<1>8. DOMAIN list = 1 .. Len(list) /\ Len(list) \in Nat
  BY <1>6, LenProperties
<1>9. \A p : p \in Pieces(text) <=> \E a, b \in 1 .. n : p = <<a, b>> /\ IsPiece(text, n, a, b)
  <2>1. \A a, b \in 1 .. n : IsPiece(text, n, a, b) <=>
          /\ a <= b /\ \A k \in a .. b : text[k] # ","
          /\ (a = 1 \/ text[a - 1] = ",") /\ (b = n \/ text[b + 1] = ",")
    <3>1. \A a, b \in 1 .. n : IsPiece(text, n, a, b) <=>
            /\ a <= b /\ \A k \in a .. b : ~ IsComma(text, k)
            /\ (a = 1 \/ IsComma(text, a - 1)) /\ (b = n \/ IsComma(text, b + 1))
      BY <1>1 DEF IsPiece
    <3> QED BY <3>1 DEF IsComma
  <2>2. Pieces(text) = {p \in (1 .. n) \X (1 .. n) : IsPiece(text, n, p[1], p[2])}
    <3>1. \A p \in (1 .. n) \X (1 .. n) : p[1] \in 1 .. n /\ p[2] \in 1 .. n
      OBVIOUS
    <3> QED BY <2>1, <3>1 DEF Pieces, n
  <2> QED BY <2>2
<1> DEFINE ends == [i \in DOMAIN list |-> <<from[i], to[i]>>]
<1>10. \A i \in DOMAIN list : ends[i] = <<from[i], to[i]>> /\ ends[i][1] = from[i] /\ ends[i][2] = to[i]
  OBVIOUS
<1>11. ends \in [DOMAIN list -> Pieces(text)]
  <2>1. ASSUME NEW i \in DOMAIN list PROVE <<from[i], to[i]>> \in Pieces(text)
    <3>1. from[i] \in 1 .. n /\ to[i] \in 1 .. n /\ IsPiece(text, n, from[i], to[i])
      BY <1>7, <1>8 DEF PiecesAre
    <3> QED BY <1>9, <3>1
  <2> QED BY <2>1
<1> HIDE DEF ends
<1>12. \A p \in Pieces(text) : \E i \in DOMAIN list : ends[i] = p
  <2> SUFFICES ASSUME NEW p \in Pieces(text) PROVE \E i \in DOMAIN list : ends[i] = p
    OBVIOUS
  <2>1. PICK a, b \in 1 .. n : p = <<a, b>> /\ IsPiece(text, n, a, b)
    BY <1>9
  <2>2. PICK i \in 1 .. Len(list) : from[i] = a /\ to[i] = b
    BY <1>7, <2>1 DEF PiecesAre
  <2> QED BY <1>8, <1>10, <2>1, <2>2
<1>13. \A i, j \in DOMAIN list : i < j => ends[j][2] < ends[i][1]
  BY <1>7, <1>8, <1>10 DEF PiecesAre
<1>14. \A i \in DOMAIN list : list[i] = SubSeq(text, ends[i][1], ends[i][2])
  BY <1>7, <1>8, <1>10 DEF PiecesAre
<1>15. ListsPieces(list, text)
  BY <1>11, <1>12, <1>13, <1>14 DEF ListsPieces
<1> QED BY <1>2, <1>15 DEF list

-----------------------------------------------------------------------------
(* Lines that go on.                                                       *)

\* The text of a line, where the text of the next one is "rest".
JoinedLine(own, rest) == IF GoesOn(own) THEN Front(own) \o rest ELSE own

LEMMA JoinedType ==
  ASSUME NEW own \in Seq(Token), NEW rest \in Seq(Token)
  PROVE  JoinedLine(own, rest) \in Seq(Token)
<1>1. CASE GoesOn(own)
  <2>1. Front(own) \in Seq(Token)
    <3>1. own # <<>>
      BY <1>1 DEF GoesOn
    <3> QED BY <3>1, FrontType
  <2>2. Front(own) \o rest \in Seq(Token)
    BY <2>1, ConcatProperties
  <2> QED BY <1>1, <2>2 DEF JoinedLine
<1>2. CASE ~ GoesOn(own)
  BY <1>2 DEF JoinedLine
<1> QED BY <1>1, <1>2

LEMMA WholeStep ==
  ASSUME NEW f \in Files
  PROVE  /\ Whole(f)[Len(f) + 1] = <<>>
         /\ \A i \in 1 .. Len(f) : Whole(f)[i] = JoinedLine(WithoutEnd(f[i]), Whole(f)[i + 1])
         /\ \A i \in 1 .. Len(f) + 1 : Whole(f)[i] \in Seq(Token)
<1> DEFINE n == Len(f)
           D == Seq(Token)
           none == <<>>
           Unfold(text) == [i \in 1 .. n + 1 |-> IF i > n THEN none ELSE JoinedLine(WithoutEnd(f[i]), text[i + 1])]
           step == [j \in 1 .. n |-> [rest \in D |-> JoinedLine(WithoutEnd(f[n + 1 - j]), rest)]]
<1>1. n \in Nat /\ none \in D /\ \A i \in 1 .. n : f[i] \in D
  BY LineType, EmptySeq
<1>2. \A i \in 1 .. n : WithoutEnd(f[i]) \in D
  BY <1>1, EndType
<1>3. \A i \in 1 .. n : \A rest \in D : JoinedLine(WithoutEnd(f[i]), rest) \in D
  BY <1>2, JoinedType
<1> HIDE DEF n, D, none
<1>4. \A j \in 1 .. n : n + 1 - j \in 1 .. n
  BY <1>1
<1>5. step \in [1 .. n -> [D -> D]]
  BY <1>3, <1>4
<1>6. PICK g \in [0 .. n -> D] : g[0] = none /\ \A j \in 1 .. n : g[j] = step[j][g[j - 1]]
  <2> HIDE DEF step
  <2>1. Iterates(n, D, none, step)
    BY <1>1, <1>5, Iteration
  <2> QED BY <2>1 DEF Iterates
<1> DEFINE w == [i \in 1 .. n + 1 |-> g[n + 1 - i]]
<1>7. \A i \in 1 .. n + 1 : n + 1 - i \in 0 .. n
  BY <1>1
<1>8. w = Unfold(w) /\ \A i \in 1 .. n + 1 : w[i] \in D
  <2>1. ASSUME NEW i \in 1 .. n + 1 PROVE w[i] = IF i > n THEN none ELSE JoinedLine(WithoutEnd(f[i]), w[i + 1])
    <3>1. CASE i > n
      <4>1. i = n + 1 /\ n + 1 - i = 0
        BY <1>1, <3>1
      <4> QED BY <1>6, <3>1, <4>1
    <3>2. CASE ~ (i > n)
      <4> DEFINE j == n + 1 - i
      <4>1. j \in 1 .. n /\ n + 1 - j = i /\ j - 1 = n + 1 - (i + 1) /\ j - 1 \in 0 .. n /\ i + 1 \in 1 .. n + 1
        BY <1>1, <3>2
      <4> HIDE DEF j
      <4>2. g[j - 1] \in D
        BY <4>1
      <4>3. g[j] = JoinedLine(WithoutEnd(f[n + 1 - j]), g[j - 1])
        BY <1>6, <4>1, <4>2
      <4>4. w[i + 1] = g[j - 1] /\ w[i] = g[j]
        BY <4>1 DEF j
      <4> QED BY <3>2, <4>1, <4>3, <4>4
    <3> QED BY <3>1, <3>2
  <2>2. \A i \in 1 .. n + 1 : w[i] \in D
    BY <1>7
  <2> QED BY <2>1, <2>2
<1> HIDE DEF w
<1> DEFINE h == Whole(f)
<1>9. h = Unfold(h)
  <2> HIDE DEF Unfold
  <2>1. h = CHOOSE text : text = Unfold(text)
    BY DEF Whole, JoinedLine, Unfold, n, none
  <2> QED BY <1>8, <2>1
<1> HIDE DEF h
<1>10. \A i \in 1 .. n + 1 : h[i] = IF i > n THEN none ELSE JoinedLine(WithoutEnd(f[i]), h[i + 1])
  BY <1>9
<1>11. h[n + 1] = none /\ \A i \in 1 .. n : h[i] = JoinedLine(WithoutEnd(f[i]), h[i + 1])
  <2>1. n + 1 \in 1 .. n + 1 /\ n + 1 > n /\ \A i \in 1 .. n : i \in 1 .. n + 1 /\ ~ (i > n)
    BY <1>1
  <2> QED BY <1>10, <2>1
<1> DEFINE P == {j \in 0 .. n : h[n + 1 - j] \in D}
<1>12. 0 \in P
  <2>1. 0 \in 0 .. n /\ n + 1 - 0 = n + 1
    BY <1>1
  <2> QED BY <1>1, <1>11, <2>1
<1>13. ASSUME NEW j \in 1 .. n, j - 1 \in P PROVE j \in P
  <2>1. j \in 0 .. n /\ n + 1 - j \in 1 .. n /\ n + 1 - (j - 1) = (n + 1 - j) + 1
    BY <1>1
  <2>2. h[(n + 1 - j) + 1] \in D
    BY <1>13, <2>1
  <2> QED BY <1>3, <1>11, <2>1, <2>2
<1>14. \A j \in 0 .. n : h[n + 1 - j] \in D
  <2> HIDE DEF P
  <2>1. \A j \in 0 .. n : j \in P
    BY <1>1, <1>12, <1>13, Ladder
  <2> QED BY <2>1 DEF P
<1>15. ASSUME NEW i \in 1 .. n + 1 PROVE h[i] \in D
  <2>1. n + 1 - i \in 0 .. n /\ n + 1 - (n + 1 - i) = i
    BY <1>1
  <2> QED BY <1>14, <2>1
<1> QED BY <1>11, <1>15 DEF h, n, D, none

\* Two pieces of a text, one behind the other.
LEMMA TwoPieces ==
  ASSUME NEW s \in Seq(Token), NEW t \in Seq(Token), NEW b \in 0 .. Len(t)
  PROVE  SubSeq(s \o t, 1, Len(s) + b) = s \o SubSeq(t, 1, b)
<1> DEFINE st == s \o t
           u == SubSeq(t, 1, b)
           m == Len(s)
           one == SubSeq(st, 1, m + b)
<1>1. /\ st \in Seq(Token) /\ Len(st) = m + Len(t) /\ m \in Nat /\ Len(t) \in Nat
      /\ (\A i \in 1 .. m : st[i] = s[i]) /\ \A i \in 1 .. Len(t) : st[m + i] = t[i]
  BY ConcatBytes
<1>2. 1 \in 1 .. Len(t) + 1 /\ b \in 1 - 1 .. Len(t) /\ b - 1 + 1 = b
  BY <1>1
<1>3. u \in Seq(Token) /\ Len(u) = b - 1 + 1 /\ \A i \in 1 .. b - 1 + 1 : u[i] = t[1 + i - 1]
  BY <1>2, PieceOf
<1> HIDE DEF u, st
<1>4. 1 \in 1 .. Len(st) + 1 /\ m + b \in 1 - 1 .. Len(st) /\ (m + b) - 1 + 1 = m + b
  BY <1>1
<1>5. one \in Seq(Token) /\ Len(one) = (m + b) - 1 + 1 /\ \A i \in 1 .. (m + b) - 1 + 1 : one[i] = st[1 + i - 1]
  <2> HIDE DEF m
  <2> QED BY <1>1, <1>4, PieceOf
<1> HIDE DEF one
<1> DEFINE two == s \o u
<1>6. /\ two \in Seq(Token) /\ Len(two) = m + Len(u)
      /\ (\A i \in 1 .. m : two[i] = s[i]) /\ \A i \in 1 .. Len(u) : two[m + i] = u[i]
  <2>1. u \in Seq(Token)
    BY <1>3
  <2> QED BY <2>1, ConcatBytes
<1> HIDE DEF two, m
<1>7. Len(u) = b /\ Len(one) = m + b /\ Len(two) = m + b
  BY <1>2, <1>3, <1>4, <1>5, <1>6
<1>8. ASSUME NEW i \in 1 .. Len(one) PROVE one[i] = two[i]
  <2>1. i \in 1 .. m + b /\ 1 + i - 1 = i /\ i \in 1 .. (m + b) - 1 + 1
    BY <1>1, <1>4, <1>7
  <2>2. one[i] = st[i]
    BY <1>5, <2>1
  <2>3. CASE i <= m
    <3>1. i \in 1 .. m
      BY <1>1, <2>1, <2>3
    <3> QED BY <1>1, <1>6, <2>2, <3>1
  <2>4. CASE ~ (i <= m)
    <3> DEFINE k == i - m
    <3>1. k \in 1 .. b /\ m + k = i /\ 1 + k - 1 = k /\ k \in 1 .. Len(t) /\ k \in 1 .. b - 1 + 1
      BY <1>1, <1>2, <2>1, <2>4
    <3> HIDE DEF k
    <3>2. two[m + k] = u[k] /\ st[m + k] = t[k] /\ u[k] = t[k]
      BY <1>1, <1>3, <1>6, <1>7, <3>1
    <3> QED BY <2>2, <3>1, <3>2
  <2> QED BY <2>3, <2>4
<1>9. one = two
  BY <1>5, <1>6, <1>7, <1>8, SeqEqual
<1> QED BY <1>9 DEF one, two, st, u, m

\* A line read behind those that go on in it loses the blanks at its own end.
LEMMA EndOfJoined ==
  ASSUME NEW s \in Seq(Token), NEW raw \in Seq(Token)
  PROVE  WithoutEnd(s \o raw) = IF WithoutEnd(raw) = <<>> THEN WithoutEnd(s) ELSE s \o WithoutEnd(raw)
<1> DEFINE own == WithoutEnd(raw)
           t == s \o raw
           m == Len(s)
<1>1. /\ t \in Seq(Token) /\ Len(t) = m + Len(raw) /\ m \in Nat /\ Len(raw) \in Nat
      /\ (\A i \in 1 .. m : t[i] = s[i]) /\ \A i \in 1 .. Len(raw) : t[m + i] = raw[i]
  BY ConcatBytes
<1>2. PICK b \in 0 .. Len(raw) : WordEnds(raw, b) /\ own = SubSeq(raw, 1, b)
  BY EndExists
<1>3. 1 \in 1 .. Len(raw) + 1 /\ b \in 1 - 1 .. Len(raw) /\ b - 1 + 1 = b
  BY <1>1
<1>4. own \in Seq(Token) /\ Len(own) = b
  BY <1>2, <1>3, PieceOf
<1>5. own = <<>> <=> b = 0
  BY <1>4, EmptySeq
<1> HIDE DEF own, t, m
<1>6. CASE b # 0
  <2>1. \A k \in m + b + 1 .. Len(t) : t[k] \in Blanks
    <3> SUFFICES ASSUME NEW k \in m + b + 1 .. Len(t) PROVE t[k] \in Blanks
      OBVIOUS
    <3> DEFINE i == k - m
    <3>1. i \in b + 1 .. Len(raw) /\ i \in 1 .. Len(raw) /\ m + i = k
      BY <1>1
    <3> HIDE DEF i
    <3> QED BY <1>1, <1>2, <3>1 DEF WordEnds
  <2>2. m + b \in 0 .. Len(t) /\ m + b > 0 /\ b \in 1 .. Len(raw) /\ b > 0
    BY <1>1, <1>6
  <2>3. t[m + b] \notin Blanks
    BY <1>1, <1>2, <2>2 DEF WordEnds
  <2>4. WithoutEnd(t) = SubSeq(t, 1, m + b)
    BY <1>1, <2>1, <2>2, <2>3, WithoutEndIs
  <2>5. SubSeq(t, 1, m + b) = s \o own
    BY <1>2, TwoPieces DEF t, m
  <2> QED BY <1>5, <1>6, <2>4, <2>5 DEF own, t
<1>7. CASE b = 0
  <2>1. PICK c \in 0 .. m : WordEnds(s, c) /\ WithoutEnd(s) = SubSeq(s, 1, c)
    BY EndExists DEF m
  <2>2. \A k \in c + 1 .. Len(t) : t[k] \in Blanks
    <3> SUFFICES ASSUME NEW k \in c + 1 .. Len(t) PROVE t[k] \in Blanks
      OBVIOUS
    <3>1. CASE k <= m
      <4>1. k \in 1 .. m /\ k \in c + 1 .. m
        BY <1>1, <3>1
      <4> QED BY <1>1, <2>1, <4>1 DEF WordEnds, m
    <3>2. CASE ~ (k <= m)
      <4> DEFINE i == k - m
      <4>1. i \in 1 .. Len(raw) /\ m + i = k /\ i \in b + 1 .. Len(raw)
        BY <1>1, <1>7, <3>2
      <4> HIDE DEF i
      <4> QED BY <1>1, <1>2, <4>1 DEF WordEnds
    <3> QED BY <3>1, <3>2
  <2>3. c \in 0 .. Len(t) /\ (c > 0 => c \in 1 .. m)
    BY <1>1
  <2>4. c > 0 => t[c] \notin Blanks
    BY <1>1, <2>1, <2>3 DEF WordEnds
  <2>5. WithoutEnd(t) = SubSeq(t, 1, c)
    BY <1>1, <2>2, <2>3, <2>4, WithoutEndIs
  <2>6. SubSeq(t, 1, c) = SubSeq(s, 1, c)
    <3> DEFINE one == SubSeq(t, 1, c)
               two == SubSeq(s, 1, c)
    <3>1. /\ 1 \in 1 .. Len(t) + 1 /\ c \in 1 - 1 .. Len(t) /\ 1 \in 1 .. Len(s) + 1 /\ c \in 1 - 1 .. Len(s)
          /\ c - 1 + 1 = c /\ \A i \in 1 .. c : 1 + i - 1 = i /\ i \in 1 .. m
      BY <1>1 DEF m
    <3>2. one \in Seq(Token) /\ Len(one) = c - 1 + 1 /\ \A i \in 1 .. c - 1 + 1 : one[i] = t[1 + i - 1]
      BY <1>1, <3>1, PieceOf
    <3>3. two \in Seq(Token) /\ Len(two) = c - 1 + 1 /\ \A i \in 1 .. c - 1 + 1 : two[i] = s[1 + i - 1]
      BY <3>1, PieceOf
    <3> HIDE DEF one, two
    <3>4. Len(one) = c /\ Len(two) = c /\ \A i \in 1 .. c : one[i] = two[i]
      BY <1>1, <3>1, <3>2, <3>3
    <3>5. one = two
      BY <3>2, <3>3, <3>4, SeqEqual
    <3> QED BY <3>5 DEF one, two
  <2> QED BY <1>5, <1>7, <2>1, <2>5, <2>6 DEF own, t
<1> QED BY <1>6, <1>7

LEMMA FrontOfJoined ==
  ASSUME NEW s \in Seq(Token), NEW t \in Seq(Token), t # <<>>
  PROVE  /\ Front(s \o t) = s \o Front(t)
         /\ GoesOn(s \o t) <=> GoesOn(t)
<1> DEFINE st == s \o t
           n == Len(t)
           m == Len(s)
<1>1. /\ st \in Seq(Token) /\ Len(st) = m + n /\ m \in Nat /\ n \in Nat
      /\ \A i \in 1 .. n : st[m + i] = t[i]
  BY ConcatBytes
<1>2. n \in Nat \ {0}
  BY EmptySeq
<1>3. SubSeq(st, 1, m + (n - 1)) = s \o SubSeq(t, 1, n - 1)
  <2>1. n - 1 \in 0 .. Len(t)
    BY <1>2
  <2> QED BY <2>1, TwoPieces
<1> HIDE DEF st, n, m
<1>4. Front(st) = s \o Front(t)
  <2>1. m + (n - 1) = Len(st) - 1
    BY <1>1, <1>2
  <2> QED BY <1>3, <2>1 DEF Front, n
<1>5. Last(st) = Last(t) /\ st # <<>>
  <2>1. n \in 1 .. n /\ m + n = Len(st) /\ Len(st) # 0
    BY <1>1, <1>2
  <2>2. st[m + n] = t[n]
    BY <1>1, <2>1
  <2>3. st # <<>>
    BY <2>1, EmptySeq
  <2> QED BY <2>1, <2>2, <2>3 DEF Last, n
<1> QED BY <1>4, <1>5 DEF GoesOn, st

LEMMA EndTwice ==
  ASSUME NEW text \in Seq(Token)
  PROVE  /\ WithoutEnd(WithoutEnd(text)) = WithoutEnd(text)
         /\ strstrip(WithoutEnd(text)) = strstrip(text)
<1> DEFINE t == WithoutEnd(text)
<1>1. PICK b \in 0 .. Len(text) : WordEnds(text, b) /\ t = SubSeq(text, 1, b)
  BY EndExists
<1>2. Len(text) \in Nat
  BY LenProperties
<1>3. 1 \in 1 .. Len(text) + 1 /\ b \in 1 - 1 .. Len(text) /\ b - 1 + 1 = b /\ \A i \in 1 .. b : 1 + i - 1 = i
  BY <1>2
<1>4. t \in Seq(Token) /\ Len(t) = b - 1 + 1 /\ \A i \in 1 .. b - 1 + 1 : t[i] = text[1 + i - 1]
  BY <1>1, <1>3, PieceOf
<1> HIDE DEF t
<1>5. Len(t) = b /\ b \in 0 .. Len(t) /\ (b > 0 => t[b] \notin Blanks) /\ \A k \in b + 1 .. Len(t) : t[k] \in Blanks
  <2>1. Len(t) = b /\ b \in 0 .. Len(t)
    BY <1>2, <1>3, <1>4
  <2>2. b > 0 => t[b] = text[b]
    <3>1. b > 0 => b \in 1 .. b
      BY <1>2
    <3> QED BY <1>3, <1>4, <3>1
  <2>3. b + 1 .. Len(t) = {}
    BY <1>2, <2>1
  <2> QED BY <1>1, <2>1, <2>2, <2>3 DEF WordEnds
<1>6. WithoutEnd(t) = SubSeq(t, 1, b)
  BY <1>4, <1>5, WithoutEndIs
<1>7. SubSeq(t, 1, b) = t
  BY <1>4, <1>5, SubSeqFull
<1>8. WithoutEnd(t) = t
  BY <1>6, <1>7
<1> QED BY <1>8 DEF strstrip, t

\* Line h is the first of those that are in the buffer, or the next to be read.
Open(h) ==
  /\ h \in 1 .. line + 1 /\ ~ Continues(file, h)
  /\ \A j \in h .. line : GoesOn(WithoutEnd(file[j]))
  /\ Whole(file)[h] = pending \o Whole(file)[line + 1]
  /\ ~ GoesOn(WithoutEnd(pending))

\* What the buffer holds once a line has been read behind what was in it.
LEMMA BufferIs ==
  ASSUME LoadType, line < Len(file), NEW h, Open(h)
  PROVE  LET own == WithoutEnd(file[line + 1])
             text == Buffer(file[line + 1])
         IN /\ GoesOn(text) <=> GoesOn(own)
            /\ own = <<>> => text = WithoutEnd(pending)
            /\ own # <<>> => text = pending \o own
            /\ GoesOn(own) => own # <<>> /\ Front(text) = pending \o Front(own)
<1> DEFINE raw == file[line + 1]
           own == WithoutEnd(raw)
           text == Buffer(raw)
<1>1. raw \in Seq(Token) /\ pending \in Seq(Token) /\ ~ GoesOn(WithoutEnd(pending))
  BY BufferType DEF LoadType, Open
<1>2. own \in Seq(Token)
  BY <1>1, EndType
<1>3. text = IF own = <<>> THEN WithoutEnd(pending) ELSE pending \o own
  BY <1>1, EndOfJoined DEF Buffer
<1>4. GoesOn(own) => own # <<>>
  BY DEF GoesOn
<1> HIDE DEF raw, own, text
<1>5. CASE own = <<>>
  BY <1>1, <1>3, <1>4, <1>5 DEF raw, own, text
<1>6. CASE own # <<>>
  <2>1. Front(pending \o own) = pending \o Front(own) /\ (GoesOn(pending \o own) <=> GoesOn(own))
    BY <1>1, <1>2, <1>6, FrontOfJoined
  <2>2. text = pending \o own
    BY <1>3, <1>6
  <2> QED BY <1>6, <2>1, <2>2 DEF raw, own, text
<1> QED BY <1>5, <1>6

\* A line that goes on is put in front of the next one.
LEMMA OpenStays ==
  ASSUME LoadType, line < Len(file), NEW h, Open(h), GoesOn(WithoutEnd(file[line + 1]))
  PROVE  LET text == Buffer(file[line + 1])
         IN /\ Whole(file)[h] = Front(text) \o Whole(file)[line + 2]
            /\ ~ GoesOn(WithoutEnd(Front(text)))
<1> DEFINE own == WithoutEnd(file[line + 1])
           rest == Whole(file)[line + 2]
           fo == Front(own)
           text == Buffer(file[line + 1])
<1>1. own # <<>> /\ Front(text) = pending \o fo
  BY BufferIs
<1>2. line \in Nat /\ Len(file) \in Nat /\ line + 1 \in 1 .. Len(file) /\ (line + 1) + 1 = line + 2 /\ line + 2 \in 1 .. Len(file) + 1
  BY LineType DEF LoadType
<1>3. pending \in Seq(Token) /\ file \in Files /\ own \in Seq(Token)
  BY BufferType, EndType DEF LoadType
<1>4. fo \in Seq(Token) /\ rest \in Seq(Token)
  <2>1. rest \in Seq(Token)
    BY <1>2, <1>3, WholeStep
  <2>2. fo \in Seq(Token)
    <3> HIDE DEF own
    <3> QED BY <1>1, <1>3, FrontType
  <2> QED BY <2>1, <2>2
<1>5. Whole(file)[line + 1] = fo \o rest
  <2>1. Whole(file)[line + 1] = JoinedLine(own, Whole(file)[(line + 1) + 1])
    BY <1>2, <1>3, WholeStep
  <2> QED BY <1>2, <2>1 DEF JoinedLine
<1>6. Whole(file)[h] = pending \o (fo \o rest)
  BY <1>5 DEF Open
<1>7. pending \o (fo \o rest) = (pending \o fo) \o rest
  <2> HIDE DEF fo, rest
  <2> QED BY <1>3, <1>4, ConcatAssociative, SMTT(30)
<1>8. ~ GoesOn(WithoutEnd(pending \o fo))
  <2>1. ~ GoesOn(WithoutEnd(fo))
    <3>1. line + 1 \in DOMAIN file
      BY <1>2, <1>3, LineType, LenProperties
    <3> QED BY <1>3, <3>1, StartupAssumption
  <2> DEFINE end == WithoutEnd(fo)
  <2>2. end \in Seq(Token)
    BY <1>4, EndType
  <2>3. WithoutEnd(pending \o fo) = IF end = <<>> THEN WithoutEnd(pending) ELSE pending \o end
    <3> HIDE DEF fo
    <3> QED BY <1>3, <1>4, EndOfJoined
  <2> HIDE DEF end
  <2>4. CASE end = <<>>
    BY <2>3, <2>4 DEF Open
  <2>5. CASE end # <<>>
    <3>1. GoesOn(pending \o end) <=> GoesOn(end)
      BY <1>3, <2>2, <2>5, FrontOfJoined
    <3> QED BY <2>1, <2>3, <2>5, <3>1 DEF end
  <2> QED BY <2>4, <2>5
<1> QED BY <1>1, <1>6, <1>7, <1>8

\* The last of the lines that go on: what is parsed is what the whole says.
LEMMA OpenEnds ==
  ASSUME LoadType, line < Len(file), NEW h, Open(h), ~ GoesOn(WithoutEnd(file[line + 1]))
  PROVE  /\ strstrip(Buffer(file[line + 1])) = strstrip(Whole(file)[h])
         /\ ~ TooLong(file[line + 1]) => Size(Whole(file)[h]) + 1 < ASCIILINESZ
         /\ h \in Heads(file) /\ h \in 1 .. line + 1
         /\ \A i \in Heads(file) : i < line + 2 <=> (i < h \/ i = h)
<1> DEFINE raw == file[line + 1]
           own == WithoutEnd(raw)
           text == Buffer(raw)
<1>1. line \in Nat /\ Len(file) \in Nat /\ line + 1 \in 1 .. Len(file) /\ DOMAIN file = 1 .. Len(file)
  BY LineType, LenProperties DEF LoadType
<1>2. pending \in Seq(Token) /\ file \in Files /\ raw \in Seq(Token) /\ own \in Seq(Token)
  BY BufferType, EndType DEF LoadType
<1>3. Whole(file)[h] = pending \o own
  <2>1. Whole(file)[line + 1] = JoinedLine(own, Whole(file)[(line + 1) + 1])
    BY <1>1, <1>2, WholeStep
  <2> QED BY <2>1 DEF JoinedLine, Open
<1>4. (own = <<>> => text = WithoutEnd(pending)) /\ (own # <<>> => text = pending \o own)
  BY BufferIs
<1>5. strstrip(text) = strstrip(pending \o own)
  <2> HIDE DEF own, text
  <2>1. CASE own = <<>>
    <3>1. pending \o own = pending
      BY <1>2, <2>1, ConcatEmptySeq
    <3>2. strstrip(WithoutEnd(pending)) = strstrip(pending)
      BY <1>2, EndTwice
    <3> QED BY <1>4, <2>1, <3>1, <3>2
  <2>2. CASE own # <<>>
    BY <1>4, <2>2
  <2> QED BY <2>1, <2>2
<1>6. ASSUME ~ TooLong(raw) PROVE Size(pending \o own) + 1 < ASCIILINESZ
  <2> DEFINE all == pending \o raw
             m == Len(pending)
  <2>1. PICK b \in 0 .. Len(raw) : own = SubSeq(raw, 1, b)
    BY <1>2, EndExists
  <2>2. pending \o own = SubSeq(all, 1, m + b)
    BY <1>2, <2>1, TwoPieces
  <2>3. all \in Seq(Token) /\ Len(all) = m + Len(raw) /\ m \in Nat /\ Len(raw) \in Nat
    <3> HIDE DEF raw
    <3> QED BY <1>2, ConcatBytes
  <2>4. ~ (Size(all) + 1 >= ASCIILINESZ) /\ ASCIILINESZ \in Nat
    BY <1>6, StartupAssumption DEF TooLong
  <2> HIDE DEF all, m, raw, own
  <2>5. 0 \in 0 .. Len(all) /\ m + b \in 0 .. Len(all) /\ 0 + 1 = 1
    BY <2>3
  <2>6. Size(all) \in Nat /\ Size(SubSeq(all, 0 + 1, m + b)) \in Nat /\ Size(SubSeq(all, 0 + 1, m + b)) <= Size(all)
    BY <2>3, <2>5, PieceSmaller
  <2>7. Size(pending \o own) \in Nat /\ Size(pending \o own) <= Size(all)
    BY <2>2, <2>5, <2>6
  <2> QED BY <2>4, <2>6, <2>7
<1>7. h \in 1 .. line + 1 /\ ~ Continues(file, h) /\ \A j \in h .. line : GoesOn(WithoutEnd(file[j]))
  BY DEF Open
<1>8. h \in Heads(file)
  <2>1. line + 1 \in h .. Len(file) /\ h \in 1 .. Len(file)
    BY <1>1, <1>7
  <2> QED BY <1>1, <1>7, <2>1 DEF Heads
<1>9. ASSUME NEW i \in Heads(file) PROVE i < line + 2 <=> (i < h \/ i = h)
  <2>1. i \in 1 .. Len(file) /\ ~ Continues(file, i)
    BY <1>1 DEF Heads
  <2>2. ASSUME i \in h + 1 .. line + 1 PROVE FALSE
    <3>1. i - 1 \in h .. line /\ i > 1
      BY <1>1, <1>7, <2>2
    <3>2. Continues(file, i)
      BY <1>7, <3>1 DEF Continues
    <3> QED BY <2>1, <3>2
  <2> QED BY <1>1, <1>7, <2>1, <2>2
<1> QED BY <1>3, <1>5, <1>6, <1>7, <1>8, <1>9

-----------------------------------------------------------------------------
(* What is in the dictionary comes from the file.                          *)

\* dictionary_set leaves a slot as it is, or puts the key and the value there, or
\* NULL for them.
LEMMA SetSlots ==
  ASSUME NEW d, IsDict(d), NEW key \in Key, NEW val \in TextOrNone, NEW fails
  PROVE  LET after == dictionary_set(d, key, val, fails).dict
         IN \A i \in DOMAIN after.slot :
              \/ i \in DOMAIN d.slot /\ after.slot[i] = d.slot[i]
              \/ after.slot[i].key \in {None, key} /\ after.slot[i].val \in {None, val}
<1>1. PICK m \in Nat \ {0} : d \in Dicts(m)
  BY DEF IsDict
<1>2. SizeOf(d) = m /\ d.n \in 0 .. m /\ d.slot \in [0 .. m - 1 -> Slots] /\ IsPair(d)
  BY <1>1, DictSize DEF Dicts, IsPair
<1> DEFINE k == IF "key" \in fails THEN None ELSE key
           v == IF "val" \in fails THEN None ELSE val
           full == d.n = SizeOf(d)
           room == IF full THEN dictionary_grow(d) ELSE d
           found == Matches(d, key)
           new == [key |-> k, val |-> v, hash |-> Hash(key)]
           Fits(after) ==
             \A i \in DOMAIN after.slot :
               \/ i \in DOMAIN d.slot /\ after.slot[i] = d.slot[i]
               \/ after.slot[i].key \in {None, key} /\ after.slot[i].val \in {None, val}
<1>3. v \in {None, val} /\ new.key \in {None, key} /\ new.val \in {None, val}
  OBVIOUS
<1>4. IsPair(room) /\ \E mm \in Nat : room.slot \in [0 .. mm - 1 -> Slots]
  <2>1. CASE full
    <3>1. room \in Dicts(2 * m) /\ 2 * m \in Nat
      BY <1>1, <2>1, GrownDict
    <3> QED BY <3>1 DEF Dicts, IsPair
  <2>2. CASE ~ full
    BY <1>2, <2>2
  <2> QED BY <2>1, <2>2
<1>5. Fits(room)
  <2>1. CASE full
    <3> DEFINE slot == [i \in 0 .. 2 * m - 1 |-> IF i < m THEN d.slot[i] ELSE Empty]
    <3>1. room = [d EXCEPT !.slot = slot]
      BY <1>2, <2>1 DEF dictionary_grow
    <3>2. room.slot = slot
      <4> HIDE DEF slot, room
      <4>1. room = [n |-> d.n, slot |-> slot]
        BY <1>2, <3>1, SlotChanged
      <4> QED BY <4>1
    <3>3. \A i \in 0 .. 2 * m - 1 : (i < m => i \in DOMAIN d.slot /\ slot[i] = d.slot[i]) /\ (~ (i < m) => slot[i] = Empty)
      BY <1>2
    <3>4. DOMAIN slot = 0 .. 2 * m - 1 /\ Empty.key = None /\ Empty.val = None
      BY DEF Empty
    <3> HIDE DEF slot, room
    <3> QED BY <3>2, <3>3, <3>4
  <2>2. CASE ~ full
    BY <2>2
  <2> QED BY <2>1, <2>2
<1> HIDE DEF room, new, v
<1>6. ASSUME NEW j \in found PROVE Fits([d EXCEPT !.slot[j].val = v])
  <2> DEFINE slot == [d.slot EXCEPT ![j].val = v]
             after == [d EXCEPT !.slot[j].val = v]
  <2>1. j \in DOMAIN d.slot /\ d.slot[j].key = key /\ d.slot[j] \in Slots
    BY <1>2 DEF Matches
  <2>2. slot[j].key = key /\ slot[j].val = v /\ DOMAIN slot = DOMAIN d.slot
        /\ \A i \in DOMAIN d.slot : i # j => slot[i] = d.slot[i]
    BY <1>2, <2>1 DEF Slots
  <2>3. after = [n |-> d.n, slot |-> slot]
    BY <1>2, ValueChanged
  <2> HIDE DEF slot, after
  <2>4. after.slot = slot
    BY <2>3
  <2>5. Fits(after)
    BY <1>3, <2>2, <2>4
  <2> QED BY <2>5 DEF after
<1>7. ASSUME NEW j PROVE Fits([room EXCEPT !.slot[j] = new, !.n = @ + 1])
  <2> DEFINE slot == [room.slot EXCEPT ![j] = new]
             after == [room EXCEPT !.slot[j] = new, !.n = @ + 1]
  <2>1. DOMAIN slot = DOMAIN room.slot /\ \A i \in DOMAIN slot : slot[i] = room.slot[i] \/ slot[i] = new
    BY <1>4
  <2>2. after = [n |-> room.n + 1, slot |-> slot]
    BY <1>4, SlotAdded
  <2> HIDE DEF slot, after
  <2>3. after.slot = slot
    BY <2>2
  <2>4. Fits(after)
    BY <1>3, <1>5, <2>1, <2>3
  <2> QED BY <2>4 DEF after
<1>8. Fits(d)
  OBVIOUS
<1>9. found # {} => Min(found) \in found
  <2>1. found \subseteq 0 .. m
    BY <1>2 DEF Matches
  <2> HIDE DEF found
  <2> QED BY <2>1, MinProperties
<1> DEFINE after == dictionary_set(d, key, val, fails).dict
<1>10. \/ found # {} /\ after = [d EXCEPT !.slot[Min(found)].val = v]
       \/ after = d
       \/ after = [room EXCEPT !.slot[FirstEmpty(room)] = new, !.n = @ + 1]
  BY DEF dictionary_set, room, new, v
<1> HIDE DEF after, found, Fits
<1>11. Fits(after)
  BY <1>6, <1>7, <1>8, <1>9, <1>10
<1> QED BY <1>11 DEF Fits, after

\* A value in the file's dictionary is one that the file gives that name.
Stems(key, val) ==
  \/ val = None
  \/ \E e \in Entries[file] : \E s \in Seq(Token) : key = s \o <<":">> \o e.name /\ val = e.value

AllStem(d) == \A i \in DOMAIN d.slot : d.slot[i].key # None => Stems(d.slot[i].key, d.slot[i].val)

LEMMA SetStems ==
  ASSUME NEW d, IsDict(d), AllStem(d), NEW key \in Key, NEW val \in TextOrNone, Stems(key, val), NEW fails
  PROVE  AllStem(dictionary_set(d, key, val, fails).dict)
<1> DEFINE after == dictionary_set(d, key, val, fails).dict
<1>1. \A i \in DOMAIN after.slot :
        \/ i \in DOMAIN d.slot /\ after.slot[i] = d.slot[i]
        \/ after.slot[i].key \in {None, key} /\ after.slot[i].val \in {None, val}
  BY SetSlots
<1>2. Stems(key, None)
  BY DEF Stems
<1> HIDE DEF after
<1>3. AllStem(after)
  BY <1>1, <1>2 DEF AllStem
<1> QED BY <1>3 DEF after

\* Lines that differ only in the blanks around them say the same.
LEMMA SameLine ==
  ASSUME NEW a, NEW b, strstrip(a) = strstrip(b)
  PROVE  /\ IsNote(a) <=> IsNote(b)
         /\ IsSection(a) <=> IsSection(b)
         /\ IsEntry(a) <=> IsEntry(b)
         /\ SectionName(a) = SectionName(b) /\ KeyName(a) = KeyName(b) /\ ValueIn(a) = ValueIn(b)
<1>1. IsNote(a) <=> IsNote(b)
  BY DEF IsNote
<1>2. IsSection(a) <=> IsSection(b)
  BY DEF IsSection
<1>3. IsEntry(a) <=> IsEntry(b)
  BY DEF IsEntry
<1>4. SectionName(a) = SectionName(b) /\ KeyName(a) = KeyName(b) /\ ValueIn(a) = ValueIn(b)
  BY DEF SectionName, KeyName, ValueIn
<1> QED BY <1>1, <1>2, <1>3, <1>4

LEMMA NoLine == IsNote(<<>>) /\ ~ IsSection(<<>>) /\ ~ IsEntry(<<>>)
<1> DEFINE none == <<>>
<1>1. none \in Seq(Token) /\ Stripped(none)
  BY EmptySeq DEF Stripped
<1>2. strstrip(none) = none
  BY <1>1, StripStays
<1> QED BY <1>2 DEF IsNote, IsSection, IsEntry

LEMMA EntriesOf ==
  ASSUME NEW f \in Files, NEW i \in Heads(f)
  PROVE  /\ IsEntry(Whole(f)[i]) =>
              [line |-> i, key |-> SectionAt(f, i) \o <<":">> \o KeyName(Whole(f)[i]), name |-> KeyName(Whole(f)[i]),
               value |-> ValueIn(Whole(f)[i])] \in Entries[f]
         /\ IsSection(Whole(f)[i]) =>
              [line |-> i, key |-> SectionName(Whole(f)[i]), name |-> <<>>, value |-> None] \in Entries[f]
BY DEF Entries

\* An entry of the file is one of its lines.
LEMMA EntryOf ==
  ASSUME NEW f \in Files, NEW e \in Entries[f]
  PROVE  /\ e.line \in Heads(f)
         /\ \/ /\ IsEntry(Whole(f)[e.line]) /\ e.key = SectionAt(f, e.line) \o <<":">> \o KeyName(Whole(f)[e.line])
               /\ e.value = ValueIn(Whole(f)[e.line])
            \/ IsSection(Whole(f)[e.line]) /\ e.key = SectionName(Whole(f)[e.line]) /\ e.value = None
<1> DEFINE Line(i) == [line |-> i, key |-> SectionAt(f, i) \o <<":">> \o KeyName(Whole(f)[i]), name |-> KeyName(Whole(f)[i]),
                       value |-> ValueIn(Whole(f)[i])]
           Header(i) == [line |-> i, key |-> SectionName(Whole(f)[i]), name |-> <<>>, value |-> None]
<1>1. (\E i \in Heads(f) : IsEntry(Whole(f)[i]) /\ e = Line(i)) \/ (\E i \in Heads(f) : IsSection(Whole(f)[i]) /\ e = Header(i))
  BY DEF Entries
<1>2. ASSUME NEW i \in Heads(f), IsEntry(Whole(f)[i]), e = Line(i)
      PROVE  /\ e.line = i /\ e.key = SectionAt(f, i) \o <<":">> \o KeyName(Whole(f)[i])
             /\ e.value = ValueIn(Whole(f)[i])
  BY <1>2
<1>3. ASSUME NEW i \in Heads(f), IsSection(Whole(f)[i]), e = Header(i)
      PROVE  e.line = i /\ e.key = SectionName(Whole(f)[i]) /\ e.value = None
  BY <1>3
<1> HIDE DEF Line, Header
<1>4. CASE \E i \in Heads(f) : IsEntry(Whole(f)[i]) /\ e = Line(i)
  <2>1. PICK i \in Heads(f) : IsEntry(Whole(f)[i]) /\ e = Line(i)
    BY <1>4
  <2>2. e.line = i /\ e.key = SectionAt(f, i) \o <<":">> \o KeyName(Whole(f)[i]) /\ e.value = ValueIn(Whole(f)[i])
    BY <1>2, <2>1
  <2> QED BY <2>1, <2>2
<1>5. CASE \E i \in Heads(f) : IsSection(Whole(f)[i]) /\ e = Header(i)
  <2>1. PICK i \in Heads(f) : IsSection(Whole(f)[i]) /\ e = Header(i)
    BY <1>5
  <2>2. e.line = i /\ e.key = SectionName(Whole(f)[i]) /\ e.value = None
    BY <1>3, <2>1
  <2> QED BY <2>1, <2>2
<1> QED BY <1>1, <1>4, <1>5

\* The key and the value that are stored.
LEMMA Stored ==
  ASSUME LoadType, NEW read \in Seq(Token), NEW fails
  PROVE  LET found == iniparser_line(read, section)
             after == StoreLine(found, fails)
         IN /\ IsSection(read) => /\ after = dictionary_set(dict, found.section, None, fails)
                                  /\ found.section \in Key /\ found.section \in Seq(Token)
            /\ IsEntry(read) => /\ after = dictionary_set(dict, section \o <<":">> \o KeyName(read), ValueIn(read), fails)
                                /\ section \o <<":">> \o KeyName(read) \in Key /\ ValueIn(read) \in TextOrNone
                                /\ found.section = section
            /\ ~ IsSection(read) /\ ~ IsEntry(read) => after = [rc |-> "ok", dict |-> dict] /\ found.section = section
            /\ found.status = "error" <=> ~ IsNote(read) /\ ~ IsSection(read) /\ ~ IsEntry(read)
<1> DEFINE found == iniparser_line(read, section)
           after == StoreLine(found, fails)
<1>1. section \in Seq(Token)
  BY DEF LoadType
<1>2. LineReads(read, section, found)
  BY <1>1, LineRead
<1>3. /\ IsEntry(read) => ~ IsSection(read) /\ ~ IsNote(read)
      /\ IsSection(read) => ~ IsNote(read)
  BY Kinds
<1> HIDE DEF found
<1>4. /\ IsNote(read) <=> found.status \in {"empty", "comment"}
      /\ IsSection(read) <=> found.status = "section"
      /\ IsEntry(read) <=> found.status = "value"
      /\ found.status \in {"empty", "comment", "section", "value", "error"}
      /\ ~ IsSection(read) => found.section = section
      /\ IsEntry(read) => found.key = KeyName(read) /\ found.value = ValueIn(read)
      /\ found.section \in Seq(Token) /\ found.key \in Seq(Token) /\ found.value \in Seq(Token)
  BY <1>2 DEF LineReads
<1>5. found.section \in Key /\ section \in Key
  <2>1. Seq(Token) \subseteq Key
    BY SeqMonotonic DEF Key
  <2> QED BY <1>1, <1>4, <2>1
<1>6. IsEntry(read) => section \o <<":">> \o KeyName(read) \in Key
  <2> SUFFICES ASSUME IsEntry(read) PROVE section \o <<":">> \o KeyName(read) \in Key
    OBVIOUS
  <2> DEFINE S == Token \cup {":"}
             name == KeyName(read)
             colon == <<":">>
  <2>1. Seq(Token) \subseteq Seq(S)
    BY SeqMonotonic
  <2>2. section \in Seq(S) /\ name \in Seq(S) /\ colon \in Seq(S)
    BY <1>1, <1>4, <2>1
  <2> HIDE DEF S, name, colon
  <2>3. section \o colon \in Seq(S)
    BY <2>2, ConcatProperties
  <2>4. (section \o colon) \o name \in Seq(S)
    BY <2>2, <2>3, ConcatProperties
  <2> QED BY <2>4 DEF Key, S, name, colon
<1>7. IsSection(read) => after = dictionary_set(dict, found.section, None, fails)
  BY <1>4 DEF StoreLine
<1>8. IsEntry(read) => after = dictionary_set(dict, found.section \o <<":">> \o found.key, found.value, fails)
  BY <1>4 DEF StoreLine
<1>9. ~ IsSection(read) /\ ~ IsEntry(read) => after = [rc |-> "ok", dict |-> dict]
  BY <1>4 DEF StoreLine
<1> HIDE DEF after
<1>10. found.status = "error" <=> ~ IsNote(read) /\ ~ IsSection(read) /\ ~ IsEntry(read)
  BY <1>4
<1>11. IsEntry(read) => ValueIn(read) \in TextOrNone
  BY <1>4 DEF TextOrNone
<1> QED BY <1>3, <1>4, <1>5, <1>6, <1>7, <1>8, <1>9, <1>10, <1>11 DEF found, after

LEMMA StoreStems ==
  ASSUME LoadType, AllStem(dict), NEW h \in Heads(file), NEW read \in Seq(Token),
         read # <<>> => strstrip(read) = strstrip(Whole(file)[h]), NEW fails
  PROVE  AllStem(StoreLine(iniparser_line(read, section), fails).dict)
<1> DEFINE found == iniparser_line(read, section)
           after == StoreLine(found, fails)
           key == section \o <<":">> \o KeyName(read)
           val == ValueIn(read)
<1>1. /\ IsSection(read) => after = dictionary_set(dict, found.section, None, fails) /\ found.section \in Key
      /\ IsEntry(read) => after = dictionary_set(dict, key, val, fails) /\ key \in Key /\ val \in TextOrNone
      /\ ~ IsSection(read) /\ ~ IsEntry(read) => after = [rc |-> "ok", dict |-> dict]
  BY Stored
<1>2. IsDict(dict) /\ file \in Files /\ section \in Seq(Token) /\ None \in TextOrNone
  BY DEF LoadType, TextOrNone
<1>3. ASSUME IsEntry(read) PROVE Stems(key, val)
  <2>1. strstrip(read) = strstrip(Whole(file)[h])
    BY <1>3, NoLine
  <2>2. IsEntry(Whole(file)[h]) /\ KeyName(read) = KeyName(Whole(file)[h]) /\ val = ValueIn(Whole(file)[h])
    BY <1>3, <2>1, SameLine
  <2>3. PICK e \in Entries[file] : e.name = KeyName(read) /\ e.value = val
    BY <1>2, <2>2, EntriesOf
  <2> HIDE DEF val
  <2> QED BY <1>2, <2>3 DEF Stems
<1> HIDE DEF found, key, val, after
<1>4. CASE IsSection(read)
  <2>1. Stems(found.section, None)
    BY DEF Stems
  <2>2. AllStem(dictionary_set(dict, found.section, None, fails).dict)
    BY <1>1, <1>2, <1>4, <2>1, SetStems
  <2> QED BY <1>1, <1>4, <2>2 DEF after, found
<1>5. CASE IsEntry(read)
  <2>1. AllStem(dictionary_set(dict, key, val, fails).dict)
    BY <1>1, <1>2, <1>3, <1>5, SetStems
  <2> QED BY <1>1, <1>5, <2>1 DEF after, found
<1>6. CASE ~ IsSection(read) /\ ~ IsEntry(read)
  <2>1. after.dict = dict
    BY <1>1, <1>6
  <2> QED BY <2>1 DEF after, found
<1> QED BY <1>4, <1>5, <1>6

\* One turn of the loop, where the line is the last of those that go on.
LEMMA LineLoaded ==
  ASSUME LoadType, LoadLine, ~ GoesOn(Buffer(file[line + 1]))
  PROVE  \E fails \in SUBSET {"copy", "grow", "key", "val"} : \E read \in Seq(Token) :
           /\ read # <<>> => read = Buffer(file[line + 1])
           /\ fails = {} => read = Buffer(file[line + 1])
           /\ failures' = failures + Cardinality(fails)
           /\ section' = iniparser_line(read, section).section
           /\ errs' = (errs \/ iniparser_line(read, section).status = "error")
           /\ dict' = StoreLine(iniparser_line(read, section), fails).dict
           /\ at' = IF StoreLine(iniparser_line(read, section), fails).rc = "error" THEN "loaded" ELSE at
           /\ pending' = <<>> /\ line' = line + 1 /\ file' = file
<1> DEFINE text == Buffer(file[line + 1])
           read(fails) == IF "copy" \in fails THEN <<>> ELSE text
<1>1. text \in Seq(Token) /\ <<>> \in Seq(Token)
  BY BufferType, EmptySeq DEF LoadLine
<1>2. PICK fails \in SUBSET {"copy", "grow", "key", "val"} :
        /\ failures' = failures + Cardinality(fails)
        /\ section' = iniparser_line(read(fails), section).section
        /\ errs' = (errs \/ iniparser_line(read(fails), section).status = "error")
        /\ dict' = StoreLine(iniparser_line(read(fails), section), fails).dict
        /\ at' = IF StoreLine(iniparser_line(read(fails), section), fails).rc = "error" THEN "loaded" ELSE at
  BY DEF LoadLine
<1>3. pending' = <<>> /\ line' = line + 1 /\ file' = file
  BY DEF LoadLine
<1>4. read(fails) \in Seq(Token) /\ (read(fails) # <<>> => read(fails) = text) /\ (fails = {} => read(fails) = text)
  BY <1>1
<1> HIDE DEF read, text
<1> QED BY <1>2, <1>3, <1>4 DEF text

-----------------------------------------------------------------------------
(* Without a failure the dictionary keeps what was set last.               *)

\* Behind its n entries the table is empty.
FilledDict(d) == IsDict(d) /\ \A i \in DOMAIN d.slot : i >= d.n => d.slot[i].key = None

Has(d, k) == Matches(d, k) # {}
Val(d, k) == d.slot[Min(Matches(d, k))].val

\* The dictionary after it has been set to give a value for a key.
Providing(after, d, key, val) ==
  /\ FilledDict(after)
  /\ \A k : /\ Has(after, k) <=> k = key \/ Has(d, k)
            /\ k = key => Val(after, k) = val
            /\ k # key /\ Has(d, k) => Val(after, k) = Val(d, k)

\* Dictionaries are searched alike if they have the same keys at the same places.
SameSlot(a, b) == a.key = b.key /\ a.hash = b.hash

LEMMA MinMatches ==
  ASSUME NEW d, IsDict(d), NEW k, Has(d, k)
  PROVE  Min(Matches(d, k)) \in Matches(d, k) /\ Matches(d, k) \subseteq DOMAIN d.slot
<1>1. PICK m \in Nat \ {0} : DOMAIN d.slot = 0 .. m - 1
  BY DictSize DEF IsDict
<1>2. Matches(d, k) \subseteq 0 .. m /\ Matches(d, k) \subseteq DOMAIN d.slot
  BY <1>1 DEF Matches
<1> QED BY <1>2, MinProperties DEF Has

\* An entry that is there gets the value.
LEMMA SetFound ==
  ASSUME NEW d, FilledDict(d), NEW key \in Key, NEW val \in TextOrNone, Has(d, key)
  PROVE  /\ dictionary_set(d, key, val, {}) = [rc |-> "ok", dict |-> [d EXCEPT !.slot[Min(Matches(d, key))].val = val]]
         /\ Providing([d EXCEPT !.slot[Min(Matches(d, key))].val = val], d, key, val)
<1>1. PICK m \in Nat \ {0} : d \in Dicts(m)
  BY DEF FilledDict, IsDict
<1>2. d.n \in 0 .. m /\ d.slot \in [0 .. m - 1 -> Slots] /\ IsPair(d) /\ DOMAIN d.slot = 0 .. m - 1
  BY <1>1, DictSize DEF Dicts, IsPair
<1> DEFINE j == Min(Matches(d, key))
           slot == [d.slot EXCEPT ![j].val = val]
           after == [d EXCEPT !.slot[j].val = val]
<1>3. j \in Matches(d, key)
  BY MinMatches DEF FilledDict
<1>4. j \in 0 .. m - 1 /\ d.slot[j].key = key /\ d.slot[j].key # None /\ d.slot[j] \in Slots
  BY <1>2, <1>3 DEF Matches
<1>5. d.n > 0
  BY <1>2, <1>4 DEF FilledDict
<1>6. dictionary_set(d, key, val, {}).dict = after /\ dictionary_set(d, key, val, {}) = [rc |-> "ok", dict |-> after]
  BY <1>5 DEF dictionary_set, Has
<1>7. after = [n |-> d.n, slot |-> slot]
  BY <1>2, ValueChanged
<1>8. /\ DOMAIN slot = DOMAIN d.slot /\ slot[j].val = val
      /\ \A i \in DOMAIN slot : SameSlot(slot[i], d.slot[i]) /\ (i # j => slot[i] = d.slot[i])
  BY <1>2, <1>4 DEF Slots, SameSlot
<1>9. IsDict(after)
  BY <1>6, DictSet DEF FilledDict
<1> HIDE DEF slot, after, j
<1>10. after.slot = slot /\ after.n = d.n
  BY <1>7
<1>11. FilledDict(after)
  BY <1>8, <1>9, <1>10 DEF FilledDict, SameSlot
<1>12. ASSUME NEW k PROVE Matches(after, k) = Matches(d, k)
  BY <1>8, <1>10 DEF Matches, SameSlot
<1>13. ASSUME NEW k PROVE /\ Has(after, k) <=> k = key \/ Has(d, k)
                          /\ k = key => Val(after, k) = val
                          /\ k # key /\ Has(d, k) => Val(after, k) = Val(d, k)
  <2>1. Has(after, k) <=> Has(d, k)
    BY <1>12 DEF Has
  <2>2. Val(after, k) = slot[Min(Matches(d, k))].val
    BY <1>10, <1>12 DEF Val
  <2>3. k = key => Val(after, k) = val
    BY <1>8, <2>2 DEF j
  <2>4. k # key /\ Has(d, k) => Val(after, k) = Val(d, k)
    <3> SUFFICES ASSUME k # key, Has(d, k) PROVE Val(after, k) = Val(d, k)
      OBVIOUS
    <3>1. Min(Matches(d, k)) \in Matches(d, k) /\ Min(Matches(d, k)) \in DOMAIN d.slot
      BY MinMatches DEF FilledDict
    <3>2. d.slot[Min(Matches(d, k))].key = k
      BY <3>1 DEF Matches
    <3>3. Min(Matches(d, k)) # j
      BY <1>4, <3>2
    <3> QED BY <1>8, <2>2, <3>1, <3>3 DEF Val
  <2> QED BY <2>1, <2>3, <2>4
<1>14. Providing(after, d, key, val)
  BY <1>11, <1>13 DEF Providing
<1> QED BY <1>6, <1>14 DEF after, j

\* "Start at d->n": the place behind the entries is empty.
LEMMA NextEmpty ==
  ASSUME NEW m \in Nat \ {0}, NEW d \in Dicts(m), d.n < m, d.slot[d.n].key = None
  PROVE  FirstEmpty(d) = d.n
<1>1. SizeOf(d) = m /\ DOMAIN d.slot = 0 .. m - 1 /\ d.n \in 0 .. m
  BY DictSize
<1> DEFINE At(k) == (d.n + k) % m
           E == {k \in 0 .. m - 1 : d.slot[At(k)].key = None}
<1>2. At(0) = d.n
  <2>1. \A a \in Nat : a < m => (a + 0) % m = a
    OBVIOUS
  <2> QED BY <1>1, <2>1
<1>3. 0 \in E
  <2>1. 0 \in 0 .. m - 1
    OBVIOUS
  <2> HIDE DEF At
  <2> QED BY <1>2, <2>1
<1>4. FirstEmpty(d) = At(Min(E))
  BY <1>1 DEF FirstEmpty
<1>5. Min(E) = 0
  <2>1. (\A x \in E : x \in Int) /\ \A x \in E : 0 <= x
    OBVIOUS
  <2> HIDE DEF E
  <2> QED BY <1>3, <2>1, MinIs
<1> HIDE DEF E, At
<1> QED BY <1>2, <1>4, <1>5

\* A table that is full grows by as many empty places.
LEMMA RoomFor ==
  ASSUME NEW d, FilledDict(d)
  PROVE  LET room == IF d.n = SizeOf(d) THEN dictionary_grow(d) ELSE d
         IN /\ FirstEmpty(room) = d.n /\ room.n = d.n /\ IsPair(room)
            /\ \E m \in Nat \ {0} : room \in Dicts(m) /\ d.n < m
            /\ \A i \in DOMAIN d.slot : i \in DOMAIN room.slot /\ room.slot[i] = d.slot[i]
            /\ \A i \in DOMAIN room.slot : i \notin DOMAIN d.slot => room.slot[i].key = None
            /\ \A i \in DOMAIN room.slot : i >= d.n => room.slot[i].key = None
<1> DEFINE room == IF d.n = SizeOf(d) THEN dictionary_grow(d) ELSE d
<1>1. PICK m \in Nat \ {0} : d \in Dicts(m)
  BY DEF FilledDict, IsDict
<1>2. SizeOf(d) = m /\ d.n \in 0 .. m /\ d.slot \in [0 .. m - 1 -> Slots] /\ IsPair(d) /\ DOMAIN d.slot = 0 .. m - 1
  BY <1>1, DictSize DEF Dicts, IsPair
<1>3. CASE d.n = SizeOf(d)
  <2> DEFINE slot == [i \in 0 .. 2 * m - 1 |-> IF i < m THEN d.slot[i] ELSE Empty]
  <2>1. room \in Dicts(2 * m) /\ room.n = d.n /\ 2 * m \in Nat \ {0} /\ d.n < 2 * m
    BY <1>1, <1>2, <1>3, GrownDict
  <2>2. room.slot = slot
    <3>1. room = [d EXCEPT !.slot = slot]
      BY <1>2, <1>3 DEF dictionary_grow
    <3> HIDE DEF slot, room
    <3>2. room = [n |-> d.n, slot |-> slot]
      BY <1>2, <3>1, SlotChanged
    <3> QED BY <3>2
  <2>3. /\ \A i \in 0 .. 2 * m - 1 : (i < m => slot[i] = d.slot[i]) /\ (~ (i < m) => slot[i].key = None)
        /\ DOMAIN slot = 0 .. 2 * m - 1
    BY DEF Empty
  <2> HIDE DEF slot, room
  <2>4. \A i \in DOMAIN d.slot : i \in DOMAIN room.slot /\ room.slot[i] = d.slot[i]
    <3>1. \A i \in 0 .. m - 1 : i \in 0 .. 2 * m - 1 /\ i < m
      OBVIOUS
    <3> QED BY <1>2, <2>2, <2>3, <3>1
  <2>5. \A i \in DOMAIN room.slot : (i \notin DOMAIN d.slot \/ i >= d.n) => room.slot[i].key = None
    <3>1. \A i \in 0 .. 2 * m - 1 : (i \notin 0 .. m - 1 \/ i >= m) => ~ (i < m)
      OBVIOUS
    <3>2. d.n = m
      BY <1>2, <1>3
    <3> QED BY <1>2, <2>2, <2>3, <3>1, <3>2
  <2>6. FirstEmpty(room) = d.n
    <3>1. d.n \in DOMAIN room.slot /\ d.n >= d.n
      BY <1>2, <2>1, <2>2, <2>3
    <3>2. room.slot[room.n].key = None /\ room.n < 2 * m
      BY <2>1, <2>5, <3>1
    <3> QED BY <2>1, <3>2, NextEmpty
  <2>7. IsPair(room)
    BY <2>1 DEF Dicts, IsPair
  <2> QED BY <2>1, <2>4, <2>5, <2>6, <2>7 DEF room
<1>4. CASE d.n # SizeOf(d)
  <2>1. room = d /\ d.n < m /\ d.n \in 0 .. m - 1
    BY <1>2, <1>4
  <2>2. \A i \in DOMAIN d.slot : i >= d.n => d.slot[i].key = None
    BY DEF FilledDict
  <2>3. d.slot[d.n].key = None
    BY <1>2, <2>1, <2>2
  <2>4. FirstEmpty(d) = d.n
    BY <1>1, <2>1, <2>3, NextEmpty
  <2> QED BY <1>1, <1>2, <2>1, <2>2, <2>4
<1> QED BY <1>3, <1>4

\* A key that is not there gets the place behind the entries.
LEMMA SetNew ==
  ASSUME NEW d, FilledDict(d), NEW key \in Key, NEW val \in TextOrNone, ~ Has(d, key)
  PROVE  /\ dictionary_set(d, key, val, {}).rc = "ok"
         /\ Providing(dictionary_set(d, key, val, {}).dict, d, key, val)
<1> DEFINE room == IF d.n = SizeOf(d) THEN dictionary_grow(d) ELSE d
           new == [key |-> key, val |-> val, hash |-> Hash(key)]
           slot == [room.slot EXCEPT ![d.n] = new]
           after == [room EXCEPT !.slot[d.n] = new, !.n = @ + 1]
           n == d.n
<1>1. FirstEmpty(room) = n /\ room.n = n /\ IsPair(room)
  BY RoomFor
<1>2. PICK m \in Nat \ {0} : room \in Dicts(m) /\ n < m
  BY RoomFor
<1>3. /\ \A i \in DOMAIN d.slot : i \in DOMAIN room.slot /\ room.slot[i] = d.slot[i]
      /\ \A i \in DOMAIN room.slot : i \notin DOMAIN d.slot => room.slot[i].key = None
      /\ \A i \in DOMAIN room.slot : i >= n => room.slot[i].key = None
  BY RoomFor
<1>4. dictionary_set(d, key, val, {}) = [rc |-> "ok", dict |-> [room EXCEPT !.slot[FirstEmpty(room)] = new, !.n = @ + 1]]
  BY DEF dictionary_set, Has
<1>5. dictionary_set(d, key, val, {}).rc = "ok" /\ dictionary_set(d, key, val, {}).dict = after
  <2> HIDE DEF room, new
  <2> QED BY <1>1, <1>4
<1>6. IsDict(after)
  BY <1>5, DictSet DEF FilledDict
<1> HIDE DEF room
<1>7. after = [n |-> n + 1, slot |-> slot]
  <2>1. IsPair(room)
    BY <1>1
  <2> HIDE DEF new
  <2>2. after = [n |-> room.n + 1, slot |-> slot]
    BY <2>1, SlotAdded
  <2> HIDE DEF after, slot
  <2> QED BY <1>1, <2>2
<1>8. n \in 0 .. m - 1 /\ DOMAIN room.slot = 0 .. m - 1
  BY <1>1, <1>2, DictSize
<1>9. DOMAIN slot = 0 .. m - 1 /\ slot[n] = new /\ \A i \in DOMAIN slot : i # n => slot[i] = room.slot[i]
  BY <1>8
<1>10. new.key = key /\ new.val = val /\ new.hash = Hash(key)
  OBVIOUS
<1>11. key # None
  BY StartupAssumption DEF Key
<1> HIDE DEF slot, after, new, n
<1>12. after.slot = slot /\ after.n = n + 1
  BY <1>7
<1>13. FilledDict(after)
  <2>1. \A i \in 0 .. m - 1 : i >= n + 1 => i >= n /\ i # n
    BY <1>8
  <2> QED BY <1>3, <1>6, <1>8, <1>9, <1>12, <2>1 DEF FilledDict
<1>14. ASSUME NEW k, k # key PROVE Matches(after, k) = Matches(d, k)
  <2>1. ASSUME NEW i \in Matches(after, k) PROVE i \in Matches(d, k)
    <3>1. i \in DOMAIN slot /\ slot[i].key = k /\ slot[i].key # None /\ slot[i].hash = Hash(k)
      BY <1>12, <2>1 DEF Matches
    <3>2. i # n
      BY <1>9, <1>10, <1>14, <3>1
    <3>3. slot[i] = room.slot[i] /\ i \in DOMAIN room.slot
      BY <1>8, <1>9, <3>1, <3>2
    <3>4. i \in DOMAIN d.slot
      BY <1>3, <3>1, <3>3
    <3> QED BY <1>3, <3>1, <3>3, <3>4 DEF Matches
  <2>2. ASSUME NEW i \in Matches(d, k) PROVE i \in Matches(after, k)
    <3>1. i \in DOMAIN d.slot /\ d.slot[i].key = k /\ d.slot[i].key # None /\ d.slot[i].hash = Hash(k)
      BY <2>2 DEF Matches
    <3>2. room.slot[i] = d.slot[i] /\ i \in DOMAIN room.slot
      BY <1>3, <3>1
    <3>3. i # n
      <4>1. n >= n
        BY <1>8
      <4> QED BY <1>3, <1>8, <3>1, <3>2, <4>1
    <3>4. slot[i] = d.slot[i] /\ i \in DOMAIN slot
      BY <1>8, <1>9, <3>2, <3>3
    <3> QED BY <1>12, <3>1, <3>4 DEF Matches
  <2> QED BY <2>1, <2>2
<1>15. Matches(after, key) = {n}
  <2>1. n \in Matches(after, key)
    BY <1>8, <1>9, <1>10, <1>11, <1>12 DEF Matches
  <2>2. ASSUME NEW i \in Matches(after, key) PROVE i = n
    <3> SUFFICES ASSUME i # n PROVE FALSE
      OBVIOUS
    <3>1. i \in DOMAIN slot /\ slot[i].key = key /\ slot[i].hash = Hash(key)
      BY <1>12, <2>2 DEF Matches
    <3>2. slot[i] = room.slot[i] /\ i \in DOMAIN room.slot
      BY <1>8, <1>9, <3>1
    <3>3. i \in DOMAIN d.slot
      BY <1>3, <1>11, <3>1, <3>2
    <3>4. i \in Matches(d, key)
      BY <1>3, <1>11, <3>1, <3>2, <3>3 DEF Matches
    <3> QED BY <3>4 DEF Has
  <2> QED BY <2>1, <2>2
<1>16. Min(Matches(after, key)) = n
  <2> DEFINE S == {n}
  <2>1. (\A x \in S : x \in Int) /\ n \in S /\ \A x \in S : n <= x
    BY <1>8
  <2> HIDE DEF S
  <2>2. Min(S) = n
    BY <2>1, MinIs
  <2> QED BY <1>15, <2>2 DEF S
<1>17. ASSUME NEW k PROVE /\ Has(after, k) <=> k = key \/ Has(d, k)
                          /\ k = key => Val(after, k) = val
                          /\ k # key /\ Has(d, k) => Val(after, k) = Val(d, k)
  <2>1. CASE k = key
    <3>1. Has(after, k)
      BY <1>15, <2>1 DEF Has
    <3>2. Val(after, k) = val
      BY <1>9, <1>10, <1>12, <1>16, <2>1 DEF Val
    <3> QED BY <2>1, <3>1, <3>2
  <2>2. CASE k # key
    <3>1. Matches(after, k) = Matches(d, k)
      BY <1>14, <2>2
    <3>2. Has(after, k) <=> Has(d, k)
      BY <3>1 DEF Has
    <3>3. ASSUME Has(d, k) PROVE Val(after, k) = Val(d, k)
      <4> DEFINE i == Min(Matches(d, k))
      <4>1. i \in Matches(d, k) /\ i \in DOMAIN d.slot
        BY <3>3, MinMatches DEF FilledDict
      <4>2. d.slot[i].key # None
        BY <4>1 DEF Matches
      <4>3. room.slot[i] = d.slot[i] /\ i \in DOMAIN room.slot
        BY <1>3, <4>1
      <4>4. i # n
        <5>1. n >= n
          BY <1>8
        <5> QED BY <1>3, <1>8, <4>2, <4>3, <5>1
      <4>5. slot[i] = d.slot[i]
        BY <1>8, <1>9, <4>3, <4>4
      <4>6. Min(Matches(after, k)) = i
        BY <3>1
      <4> HIDE DEF i
      <4> QED BY <1>12, <4>5, <4>6 DEF Val, i
    <3> QED BY <2>2, <3>2, <3>3
  <2> QED BY <2>1, <2>2
<1>18. Providing(after, d, key, val)
  BY <1>13, <1>17 DEF Providing
<1> QED BY <1>5, <1>18

\* Without a failure, what was set is what is got.
LEMMA SetGives ==
  ASSUME NEW d, FilledDict(d), NEW key \in Key, NEW val \in TextOrNone
  PROVE  /\ dictionary_set(d, key, val, {}).rc = "ok"
         /\ Providing(dictionary_set(d, key, val, {}).dict, d, key, val)
<1> DEFINE after == [d EXCEPT !.slot[Min(Matches(d, key))].val = val]
<1>1. CASE Has(d, key)
  <2>1. dictionary_set(d, key, val, {}) = [rc |-> "ok", dict |-> after] /\ Providing(after, d, key, val)
    BY <1>1, SetFound
  <2> HIDE DEF after
  <2> QED BY <2>1
<1>2. CASE ~ Has(d, key)
  BY <1>2, SetNew
<1> QED BY <1>1, <1>2

\* The entry is the last one in front of line h for its key.
LatestOf(h, e) ==
  e.line < h /\ \A d \in Entries[file] : d.line < h /\ d.key = e.key => d.line <= e.line

\* A dictionary and a section say what the lines in front of line h say.
Keeps(d, name, h) ==
  file \in Named =>
    /\ name = SectionAt(file, h)
    /\ \A k : Has(d, k) <=> \E e \in Entries[file] : e.line < h /\ e.key = k
    /\ \A e \in Entries[file] : LatestOf(h, e) => Val(d, e.key) = e.value

LEMMA HeadsType ==
  ASSUME NEW f \in Files
  PROVE  Heads(f) \subseteq 1 .. Len(f) /\ Len(f) \in Nat /\ \A i \in Heads(f) : i \in Nat
<1>1. DOMAIN f = 1 .. Len(f) /\ Len(f) \in Nat
  BY LineType, LenProperties
<1> QED BY <1>1 DEF Heads

LEMMA SectionNext ==
  ASSUME NEW f \in Files, NEW h \in Heads(f), NEW next, \A i \in Heads(f) : i < next <=> (i < h \/ i = h)
  PROVE  SectionAt(f, next) = IF IsSection(Whole(f)[h]) THEN SectionName(Whole(f)[h]) ELSE SectionAt(f, h)
<1> DEFINE B(k) == {j \in Heads(f) : j < k /\ IsSection(Whole(f)[j])}
<1>1. \A j \in Heads(f) : j \in Int
  BY HeadsType
<1>2. \A k : SectionAt(f, k) = IF B(k) = {} THEN <<>> ELSE SectionName(Whole(f)[Max(B(k))])
  BY DEF SectionAt
<1>3. CASE IsSection(Whole(f)[h])
  <2>1. h \in B(next) /\ (\A j \in B(next) : j \in Int) /\ \A j \in B(next) : j <= h
    BY <1>1, <1>3
  <2> DEFINE S == B(next)
  <2> HIDE DEF B
  <2>2. Max(S) = h
    <3>1. h \in S /\ (\A j \in S : j \in Int) /\ \A j \in S : j <= h
      BY <2>1
    <3> HIDE DEF S
    <3> QED BY <3>1, MaxIs
  <2>3. S # {}
    BY <2>1
  <2> QED BY <1>2, <1>3, <2>2, <2>3
<1>4. CASE ~ IsSection(Whole(f)[h])
  <2>1. B(next) = B(h)
    BY <1>4
  <2> HIDE DEF B
  <2> QED BY <1>2, <1>4, <2>1
<1> QED BY <1>3, <1>4

\* Line h says nothing of a key.
LEMMA KeepsOn ==
  ASSUME LoadType, NEW h \in Heads(file), NEW next, \A i \in Heads(file) : i < next <=> (i < h \/ i = h),
         ~ IsSection(Whole(file)[h]), ~ IsEntry(Whole(file)[h]), NEW d, NEW name, Keeps(d, name, h)
  PROVE  Keeps(d, name, next)
<1> SUFFICES ASSUME file \in Named PROVE Keeps(d, name, next)
  BY DEF Keeps
<1>1. file \in Files
  BY DEF LoadType
<1>2. SectionAt(file, next) = SectionAt(file, h)
  BY <1>1, SectionNext
<1>3. ASSUME NEW e \in Entries[file] PROVE e.line < next <=> e.line < h
  <2>1. e.line \in Heads(file) /\ (IsEntry(Whole(file)[e.line]) \/ IsSection(Whole(file)[e.line]))
    BY <1>1, EntryOf
  <2> QED BY <2>1
<1>4. \A e \in Entries[file] : LatestOf(next, e) <=> LatestOf(h, e)
  BY <1>3 DEF LatestOf
<1> QED BY <1>2, <1>3, <1>4 DEF Keeps

\* Line h gives a value for a key.
LEMMA KeepsSet ==
  ASSUME LoadType, NEW h \in Heads(file), NEW next, \A i \in Heads(file) : i < next <=> (i < h \/ i = h),
         NEW new \in Entries[file], new.line = h,
         \A e \in Entries[file] : e.line = h => e.key = new.key /\ e.value = new.value,
         NEW d, NEW after, NEW name, Keeps(d, name, h), Providing(after, d, new.key, new.value)
  PROVE  Keeps(after, SectionAt(file, next), next)
<1> SUFFICES ASSUME file \in Named PROVE Keeps(after, SectionAt(file, next), next)
  BY DEF Keeps
<1>1. file \in Files
  BY DEF LoadType
<1>2. ASSUME NEW e \in Entries[file] PROVE (e.line < next <=> (e.line < h \/ e.line = h)) /\ e.line \in Nat /\ h \in Nat
  <2>1. e.line \in Heads(file)
    BY <1>1, EntryOf
  <2> QED BY <1>1, <2>1, HeadsType
<1>3. \A k : /\ Has(after, k) <=> k = new.key \/ Has(d, k)
             /\ k = new.key => Val(after, k) = new.value
             /\ k # new.key /\ Has(d, k) => Val(after, k) = Val(d, k)
  BY DEF Providing
<1>4. /\ \A k : Has(d, k) <=> \E e \in Entries[file] : e.line < h /\ e.key = k
      /\ \A e \in Entries[file] : LatestOf(h, e) => Val(d, e.key) = e.value
  BY DEF Keeps
<1>5. ASSUME NEW k PROVE Has(after, k) <=> \E e \in Entries[file] : e.line < next /\ e.key = k
  <2>1. CASE k = new.key
    <3>1. new.line < next
      BY <1>2
    <3> QED BY <1>3, <2>1, <3>1
  <2>2. CASE k # new.key
    <3>1. \A e \in Entries[file] : e.key = k => (e.line < next <=> e.line < h)
      BY <1>2, <2>2
    <3>2. Has(after, k) <=> Has(d, k)
      BY <1>3, <2>2
    <3> QED BY <1>4, <3>1, <3>2
  <2> QED BY <2>1, <2>2
<1>6. ASSUME NEW e \in Entries[file], LatestOf(next, e) PROVE Val(after, e.key) = e.value
  <2>1. e.line < next /\ \A b \in Entries[file] : b.line < next /\ b.key = e.key => b.line <= e.line
    BY <1>6 DEF LatestOf
  <2>2. CASE e.key = new.key
    <3>1. new.line < next
      BY <1>2
    <3>2. h <= e.line
      BY <2>1, <2>2, <3>1
    <3>3. e.line = h
      BY <1>2, <2>1, <3>2
    <3> QED BY <1>3, <2>2, <3>3
  <2>3. CASE e.key # new.key
    <3>1. e.line < h
      BY <1>2, <2>1, <2>3
    <3>2. LatestOf(h, e)
      BY <1>2, <2>1, <3>1 DEF LatestOf
    <3>3. Has(d, e.key)
      BY <1>4, <3>1
    <3> QED BY <1>3, <1>4, <2>3, <3>2, <3>3
  <2> QED BY <2>2, <2>3
<1> QED BY <1>5, <1>6 DEF Keeps

\* What iniparser_load does of a line that is whole, where nothing fails.
LEMMA KeepsNext ==
  ASSUME LoadType, FilledDict(dict), NEW h \in Heads(file), NEW next,
         \A i \in Heads(file) : i < next <=> (i < h \/ i = h), Keeps(dict, section, h),
         NEW read \in Seq(Token), strstrip(read) = strstrip(Whole(file)[h])
  PROVE  LET found == iniparser_line(read, section)
             after == StoreLine(found, {})
         IN after.rc = "ok" /\ FilledDict(after.dict) /\ Keeps(after.dict, found.section, next)
<1> DEFINE found == iniparser_line(read, section)
           after == StoreLine(found, {})
           none == {}
           key == section \o <<":">> \o KeyName(read)
           whole == Whole(file)[h]
<1>1. file \in Files /\ section \in Seq(Token) /\ None \in TextOrNone
  BY DEF LoadType, TextOrNone
<1>2. /\ IsSection(read) => /\ after = dictionary_set(dict, found.section, None, {})
                            /\ found.section \in Key
      /\ IsEntry(read) => /\ after = dictionary_set(dict, key, ValueIn(read), {})
                          /\ key \in Key /\ ValueIn(read) \in TextOrNone /\ found.section = section
      /\ ~ IsSection(read) /\ ~ IsEntry(read) => after = [rc |-> "ok", dict |-> dict] /\ found.section = section
  BY Stored
<1>3. /\ IsSection(read) <=> IsSection(whole)
      /\ IsEntry(read) <=> IsEntry(whole)
      /\ SectionName(read) = SectionName(whole) /\ KeyName(read) = KeyName(whole) /\ ValueIn(read) = ValueIn(whole)
  BY SameLine
<1>4. ~ (IsSection(whole) /\ IsEntry(whole))
  <2>1. ~ (IsSection(read) /\ IsEntry(read))
    BY Kinds
  <2> QED BY <1>3, <2>1
<1>5. SectionAt(file, next) = IF IsSection(whole) THEN SectionName(whole) ELSE SectionAt(file, h)
  BY <1>1, SectionNext
<1>6. LineReads(read, section, found)
  BY <1>1, LineRead
<1> HIDE DEF found, after
<1>7. CASE ~ IsSection(read) /\ ~ IsEntry(read)
  <2>1. Keeps(dict, section, next)
    BY <1>3, <1>7, KeepsOn
  <2>2. after.rc = "ok" /\ after.dict = dict
    BY <1>2, <1>7
  <2> QED BY <1>2, <1>7, <2>1, <2>2 DEF found, after
<1>8. CASE IsEntry(read)
  <2> DEFINE val == ValueIn(read)
             set == dictionary_set(dict, key, val, {})
             new == [line |-> h, key |-> SectionAt(file, h) \o <<":">> \o KeyName(whole), name |-> KeyName(whole),
                     value |-> ValueIn(whole)]
  <2>1. set.rc = "ok" /\ Providing(set.dict, dict, key, val)
    BY <1>2, <1>8, SetGives
  <2>2. after = set /\ found.section = section
    BY <1>2, <1>8
  <2>3. new \in Entries[file]
    BY <1>1, <1>3, <1>8, EntriesOf
  <2>4. new.line = h /\ new.key = SectionAt(file, h) \o <<":">> \o KeyName(whole) /\ new.value = ValueIn(whole)
    OBVIOUS
  <2>5. ASSUME NEW e \in Entries[file], e.line = h PROVE e.key = new.key /\ e.value = new.value
    BY <1>1, <1>3, <1>4, <1>8, <2>4, <2>5, EntryOf
  <2> HIDE DEF new, set
  <2>6. ASSUME file \in Named PROVE found.section = SectionAt(file, next) /\ key = new.key /\ val = new.value
    <3>1. section = SectionAt(file, h)
      BY <2>6 DEF Keeps
    <3> QED BY <1>3, <1>4, <1>5, <1>8, <2>2, <2>4, <3>1
  <2>7. ASSUME file \in Named PROVE Keeps(set.dict, SectionAt(file, next), next)
    <3>1. Providing(set.dict, dict, new.key, new.value)
      BY <2>1, <2>6, <2>7
    <3> QED BY <2>3, <2>4, <2>5, <3>1, KeepsSet
  <2>8. Keeps(set.dict, found.section, next)
    <3>1. CASE file \in Named
      BY <2>6, <2>7, <3>1
    <3>2. CASE file \notin Named
      BY <3>2 DEF Keeps
    <3> QED BY <3>1, <3>2
  <2>9. FilledDict(set.dict)
    BY <2>1 DEF Providing
  <2> QED BY <2>1, <2>2, <2>8, <2>9 DEF found, after
<1>9. CASE IsSection(read)
  <2> DEFINE name == found.section
             set == dictionary_set(dict, name, None, {})
             new == [line |-> h, key |-> SectionName(whole), name |-> <<>>, value |-> None]
  <2>1. set.rc = "ok" /\ Providing(set.dict, dict, name, None)
    BY <1>1, <1>2, <1>9, SetGives
  <2>2. after = set
    BY <1>2, <1>9
  <2>3. new \in Entries[file]
    BY <1>1, <1>3, <1>9, EntriesOf
  <2>4. new.line = h /\ new.key = SectionName(whole) /\ new.value = None
    OBVIOUS
  <2>5. ASSUME NEW e \in Entries[file], e.line = h PROVE e.key = new.key /\ e.value = new.value
    BY <1>1, <1>3, <1>4, <1>9, <2>4, <2>5, EntryOf
  <2> HIDE DEF new, set, name
  <2>6. ASSUME file \in Named PROVE name = SectionAt(file, next) /\ name = new.key
    <3>1. strstrip(read)[2] # "]"
      BY <1>3, <1>9, <2>6 DEF Named
    <3>2. name = SectionName(read)
      BY <1>6, <1>9, <3>1 DEF LineReads, name
    <3> QED BY <1>3, <1>5, <1>9, <2>4, <3>2
  <2>7. ASSUME file \in Named PROVE Keeps(set.dict, SectionAt(file, next), next)
    <3>1. Providing(set.dict, dict, new.key, new.value)
      BY <2>1, <2>4, <2>6, <2>7
    <3> QED BY <2>3, <2>4, <2>5, <3>1, KeepsSet
  <2>8. Keeps(set.dict, name, next)
    <3>1. CASE file \in Named
      BY <2>6, <2>7, <3>1
    <3>2. CASE file \notin Named
      BY <3>2 DEF Keeps
    <3> QED BY <3>1, <3>2
  <2>9. FilledDict(set.dict)
    BY <2>1 DEF Providing
  <2> QED BY <2>1, <2>2, <2>8, <2>9 DEF found, after, name
<1> QED BY <1>7, <1>8, <1>9

-----------------------------------------------------------------------------
(* The loop over the lines.                                                *)

LEMMA CountFails ==
  ASSUME NEW fails \in SUBSET {"copy", "grow", "key", "val"}
  PROVE  Cardinality(fails) \in Nat /\ (Cardinality(fails) = 0 => fails = {})
<1>1. IsFiniteSet({})
  BY FS_EmptySet
<1>2. IsFiniteSet({} \cup {"copy"})
  BY <1>1, FS_AddElement
<1>3. IsFiniteSet(({} \cup {"copy"}) \cup {"grow"})
  BY <1>2, FS_AddElement
<1>4. IsFiniteSet((({} \cup {"copy"}) \cup {"grow"}) \cup {"key"})
  BY <1>3, FS_AddElement
<1>5. IsFiniteSet(((({} \cup {"copy"}) \cup {"grow"}) \cup {"key"}) \cup {"val"})
  BY <1>4, FS_AddElement
<1>6. ((({} \cup {"copy"}) \cup {"grow"}) \cup {"key"}) \cup {"val"} = {"copy", "grow", "key", "val"}
  OBVIOUS
<1>7. IsFiniteSet(fails)
  BY <1>5, <1>6, FS_Subset
<1> QED BY <1>7, FS_CardinalityType, FS_EmptySet

\* The lines in front of line h are short enough to be read, and have been.
Reading(h) ==
  /\ Open(h)
  /\ \A i \in Heads(file) : i < h => Size(Whole(file)[i]) + 1 < ASCIILINESZ
  /\ failures = 0 =>
       /\ FilledDict(dict) /\ Keeps(dict, section, h)
       /\ ~ errs => \A i \in Heads(file) : i < h => IsNote(Whole(file)[i]) \/ IsSection(Whole(file)[i]) \/ IsEntry(Whole(file)[i])

LEMMA ReadingGoesOn ==
  ASSUME LoadType, LoadLine, NEW h, Reading(h), GoesOn(Buffer(file[line + 1]))
  PROVE  Reading(h)'
<1> DEFINE text == Buffer(file[line + 1])
<1>1. line < Len(file) /\ Open(h)
  BY DEF LoadLine, Reading
<1>2. /\ pending' = Front(text) /\ line' = line + 1 /\ file' = file
      /\ UNCHANGED <<section, errs, dict, failures>>
  BY DEF LoadLine
<1>3. GoesOn(WithoutEnd(file[line + 1]))
  BY <1>1, BufferIs
<1>4. Whole(file)[h] = Front(text) \o Whole(file)[line + 2] /\ ~ GoesOn(WithoutEnd(Front(text)))
  BY <1>1, <1>3, OpenStays
<1>5. line \in Nat
  BY LineType DEF LoadType
<1>6. /\ h \in 1 .. line + 1 /\ ~ Continues(file, h) /\ \A j \in h .. line : GoesOn(WithoutEnd(file[j]))
  BY <1>1 DEF Open
<1> HIDE DEF text
<1>7. h \in 1 .. line' + 1 /\ line' + 1 = line + 2 /\ \A j \in h .. line' : GoesOn(WithoutEnd(file[j]))
  <2>1. \A j \in h .. line + 1 : j = line + 1 \/ j \in h .. line
    BY <1>5, <1>6
  <2> QED BY <1>2, <1>3, <1>5, <1>6, <2>1
<1>8. Open(h)'
  BY <1>2, <1>4, <1>6, <1>7 DEF Open
<1>9. Keeps(dict, section, h)' <=> Keeps(dict, section, h)
  BY <1>2 DEF Keeps, LatestOf
<1> QED BY <1>2, <1>8, <1>9 DEF Reading

LEMMA NoneGoOn == ~ GoesOn(WithoutEnd(<<>>))
<1> DEFINE none == <<>>
<1>1. none \in Seq(Token) /\ Len(none) = 0
  BY EmptySeq
<1>2. WithoutEnd(none) = none
  <2>1. PICK b \in 0 .. Len(none) : WithoutEnd(none) = SubSeq(none, 1, b)
    BY <1>1, EndExists
  <2>2. b = Len(none)
    BY <1>1
  <2>3. SubSeq(none, 1, Len(none)) = none
    BY <1>1, SubSeqFull
  <2> QED BY <2>1, <2>2, <2>3
<1> QED BY <1>2 DEF GoesOn

LEMMA OpenNext ==
  ASSUME LoadType, LoadLine, NEW h, Open(h), ~ GoesOn(Buffer(file[line + 1])), NEW next, next = line + 2
  PROVE  Open(next)'
<1>1. pending' = <<>> /\ line' = line + 1 /\ file' = file /\ line < Len(file)
  BY DEF LoadLine
<1>2. ~ GoesOn(WithoutEnd(file[line + 1]))
  BY <1>1, BufferIs
<1>3. line \in Nat /\ Len(file) \in Nat /\ file \in Files
  BY LineType DEF LoadType
<1>4. next \in 1 .. line' + 1 /\ next - 1 = line + 1 /\ line' + 1 = next /\ next .. line' = {} /\ next \in 1 .. Len(file) + 1
  BY <1>1, <1>3
<1>5. ~ Continues(file, next)
  BY <1>2, <1>4 DEF Continues
<1>6. Whole(file)[next] = <<>> \o Whole(file)[next]
  <2> DEFINE rest == Whole(file)[next]
  <2>1. rest \in Seq(Token)
    BY <1>3, <1>4, WholeStep
  <2> HIDE DEF rest
  <2>2. <<>> \o rest = rest
    BY <2>1, ConcatEmptySeq
  <2> QED BY <2>2 DEF rest
<1> QED BY <1>1, <1>4, <1>5, <1>6, NoneGoOn DEF Open

LEMMA ReadingEnds ==
  ASSUME LoadType, failures \in Nat, LoadLine, NEW h, Reading(h), ~ GoesOn(Buffer(file[line + 1])),
         NEW next, next = line + 2
  PROVE  /\ Reading(next)' /\ failures' \in Nat
         /\ failures' = 0 => at' = at
<1> DEFINE text == Buffer(file[line + 1])
           whole == Whole(file)[h]
<1>1. line < Len(file) /\ ~ TooLong(file[line + 1]) /\ Open(h)
  BY DEF LoadLine, Reading
<1>2. PICK fails \in SUBSET {"copy", "grow", "key", "val"} : \E read \in Seq(Token) :
        /\ fails = {} => read = text
        /\ failures' = failures + Cardinality(fails)
        /\ section' = iniparser_line(read, section).section
        /\ errs' = (errs \/ iniparser_line(read, section).status = "error")
        /\ dict' = StoreLine(iniparser_line(read, section), fails).dict
        /\ at' = IF StoreLine(iniparser_line(read, section), fails).rc = "error" THEN "loaded" ELSE at
        /\ file' = file
  BY LineLoaded
<1>3. Cardinality(fails) \in Nat /\ (Cardinality(fails) = 0 => fails = {})
  BY CountFails
<1>4. ~ GoesOn(WithoutEnd(file[line + 1]))
  BY <1>1, BufferIs
<1>5. /\ strstrip(text) = strstrip(whole) /\ Size(whole) + 1 < ASCIILINESZ /\ h \in Heads(file)
      /\ \A i \in Heads(file) : i < next <=> (i < h \/ i = h)
  BY <1>1, <1>4, OpenEnds
<1>6. Open(next)'
  BY <1>1, OpenNext
<1>7. \A i \in Heads(file) : i < next => Size(Whole(file)[i]) + 1 < ASCIILINESZ
  BY <1>5 DEF Reading
<1>8. file' = file /\ failures' \in Nat /\ (failures' = 0 => failures = 0 /\ fails = {})
  BY <1>2, <1>3
<1>9. text \in Seq(Token)
  BY <1>1, BufferType
<1> HIDE DEF text
<1>10. ASSUME failures' = 0
       PROVE  /\ at' = at /\ FilledDict(dict') /\ Keeps(dict', section', next)
              /\ ~ errs' => \A i \in Heads(file) : i < next =>
                   IsNote(Whole(file)[i]) \/ IsSection(Whole(file)[i]) \/ IsEntry(Whole(file)[i])
  <2> DEFINE found == iniparser_line(text, section)
             after == StoreLine(found, {})
  <2>1. /\ section' = found.section /\ errs' = (errs \/ found.status = "error")
        /\ dict' = after.dict /\ at' = IF after.rc = "error" THEN "loaded" ELSE at
    BY <1>2, <1>8, <1>10
  <2>2. FilledDict(dict) /\ Keeps(dict, section, h)
        /\ (~ errs => \A i \in Heads(file) : i < h =>
              IsNote(Whole(file)[i]) \/ IsSection(Whole(file)[i]) \/ IsEntry(Whole(file)[i]))
    BY <1>8, <1>10 DEF Reading
  <2>3. after.rc = "ok" /\ FilledDict(after.dict) /\ Keeps(after.dict, found.section, next)
    BY <1>5, <1>9, <2>2, KeepsNext
  <2>4. found.status = "error" <=> ~ IsNote(text) /\ ~ IsSection(text) /\ ~ IsEntry(text)
    BY <1>9, Stored
  <2> HIDE DEF found, after
  <2>5. ASSUME ~ errs' PROVE IsNote(whole) \/ IsSection(whole) \/ IsEntry(whole)
    BY <1>5, <2>1, <2>4, <2>5, SameLine
  <2>6. at' = at
    BY <2>1, <2>3
  <2>7. ~ errs' => ~ errs
    BY <2>1
  <2>8. FilledDict(dict') /\ Keeps(dict', section', next)
    BY <2>1, <2>3
  <2> QED BY <1>5, <2>2, <2>5, <2>6, <2>7, <2>8
<1>11. Keeps(dict, section, next)' <=> Keeps(dict', section', next)
  BY <1>8 DEF Keeps, LatestOf
<1>12. FilledDict(dict)' <=> FilledDict(dict')
  BY DEF FilledDict, IsDict
<1>13. Reading(next)'
  BY <1>6, <1>7, <1>8, <1>10, <1>11, <1>12 DEF Reading
<1> QED BY <1>8, <1>10, <1>13

-----------------------------------------------------------------------------
(* readConfig.                                                             *)

LEMMA NameType ==
  ASSUME NEW f \in Files, NEW i \in Heads(f)
  PROVE  Whole(f)[i] \in Seq(Token) /\ (IsEntry(Whole(f)[i]) => KeyName(Whole(f)[i]) \in Seq(Token))
<1> DEFINE text == Whole(f)[i]
           none == <<>>
           found == iniparser_line(text, none)
<1>1. i \in 1 .. Len(f) + 1 /\ none \in Seq(Token)
  BY HeadsType, EmptySeq
<1>2. text \in Seq(Token)
  BY <1>1, WholeStep
<1> HIDE DEF none, text
<1>3. LineReads(text, none, found)
  BY <1>1, <1>2, LineRead
<1> HIDE DEF found
<1>4. IsEntry(text) => KeyName(text) \in Seq(Token)
  BY <1>3 DEF LineReads
<1> QED BY <1>2, <1>4 DEF text

LEMMA EntryNamed ==
  ASSUME NEW f \in Files, NEW e \in Entries[f]
  PROVE  e.name \in Seq(Token)
<1> DEFINE Line(i) == [line |-> i, key |-> SectionAt(f, i) \o <<":">> \o KeyName(Whole(f)[i]), name |-> KeyName(Whole(f)[i]),
                       value |-> ValueIn(Whole(f)[i])]
           Header(i) == [line |-> i, key |-> SectionName(Whole(f)[i]), name |-> <<>>, value |-> None]
<1>1. (\E i \in Heads(f) : IsEntry(Whole(f)[i]) /\ e = Line(i)) \/ (\E i \in Heads(f) : IsSection(Whole(f)[i]) /\ e = Header(i))
  BY DEF Entries
<1>2. CASE \E i \in Heads(f) : IsEntry(Whole(f)[i]) /\ e = Line(i)
  <2>1. PICK i \in Heads(f) : IsEntry(Whole(f)[i]) /\ e = Line(i)
    BY <1>2
  <2>2. e.name = KeyName(Whole(f)[i])
    BY <2>1
  <2> QED BY <2>1, <2>2, NameType
<1>3. CASE \E i \in Heads(f) : IsSection(Whole(f)[i]) /\ e = Header(i)
  <2>1. e.name = <<>>
    BY <1>3
  <2> QED BY <2>1, EmptySeq
<1> QED BY <1>1, <1>2, <1>3

\* The name behind the colon of a key.
LEMMA NameOf ==
  ASSUME NEW T, NEW s \in Seq(T), NEW name \in Seq(T), NEW a, NEW b, NEW c, a # c, b # c,
         s \o <<c>> \o name = <<a, c, b>>
  PROVE  name = <<b>>
<1> DEFINE S == T \cup {c}
           colon == <<c>>
           front == s \o colon
           key == <<a, c, b>>
<1>1. s \in Seq(S) /\ name \in Seq(S) /\ colon \in Seq(S) /\ Len(colon) = 1 /\ colon[1] = c
  BY SeqMonotonic
<1>2. Len(key) = 3 /\ key[1] = a /\ key[2] = c /\ key[3] = b
  OBVIOUS
<1>3. front \o name = key
  OBVIOUS
<1> HIDE DEF S, colon, key
<1>4. front \in Seq(S) /\ Len(front) = Len(s) + 1 /\ Len(s) \in Nat /\ Len(name) \in Nat
  <2>1. Len(s) \in Nat /\ Len(name) \in Nat
    BY <1>1, LenProperties
  <2>2. s \o colon \in Seq(S) /\ Len(s \o colon) = Len(s) + Len(colon)
    BY <1>1, ConcatProperties
  <2> QED BY <1>1, <2>1, <2>2
<1>5. front[Len(s) + 1] = c
  <2>1. Len(s) + 1 \in 1 .. Len(s) + Len(colon) /\ ~ (Len(s) + 1 <= Len(s)) /\ (Len(s) + 1) - Len(s) = 1
    BY <1>1, <1>4
  <2>2. (s \o colon)[Len(s) + 1] = colon[(Len(s) + 1) - Len(s)]
    BY <1>1, <2>1, ConcatProperties
  <2> QED BY <1>1, <2>1, <2>2
<1> HIDE DEF front
<1>6. Len(key) = Len(front) + Len(name)
  BY <1>1, <1>3, <1>4, ConcatProperties
<1>7. key[Len(s) + 1] = c
  <2>1. Len(s) + 1 \in 1 .. Len(front) + Len(name) /\ Len(s) + 1 <= Len(front)
    BY <1>4
  <2> QED BY <1>1, <1>3, <1>4, <1>5, <2>1, ConcatProperties
<1>8. Len(s) = 1
  <2>1. 3 = (Len(s) + 1) + Len(name)
    BY <1>2, <1>4, <1>6
  <2> DEFINE n == Len(s)
             m == Len(name)
  <2>2. n \in Nat /\ m \in Nat /\ 3 = (n + 1) + m
    BY <1>4, <2>1
  <2> HIDE DEF n, m
  <2>3. n + 1 = 1 \/ n + 1 = 2 \/ n + 1 = 3
    BY <2>2
  <2>4. key[n + 1] = c
    BY <1>7 DEF n
  <2>5. n + 1 = 2
    BY <1>2, <2>3, <2>4
  <2>6. n = 1
    BY <2>2, <2>5
  <2> QED BY <2>6 DEF n
<1>9. Len(name) = 1
  <2> DEFINE m == Len(name)
  <2>1. m \in Nat /\ 3 = (1 + 1) + m
    BY <1>2, <1>4, <1>6, <1>8
  <2> HIDE DEF m
  <2>2. m = 1
    BY <2>1
  <2> QED BY <2>2 DEF m
<1>10. name[1] = b
  <2>1. 3 \in 1 .. Len(front) + Len(name) /\ ~ (3 <= Len(front)) /\ 3 - Len(front) = 1
    BY <1>4, <1>8, <1>9
  <2> QED BY <1>1, <1>2, <1>3, <1>4, <2>1, ConcatProperties
<1>11. DOMAIN name = 1 .. 1 /\ name = [k \in DOMAIN name |-> name[k]]
  BY <1>1, <1>9, LenProperties
<1>12. <<b>> = [k \in 1 .. 1 |-> b]
  OBVIOUS
<1>13. \A k \in 1 .. 1 : name[k] = b
  BY <1>10
<1> QED BY <1>11, <1>12, <1>13

\* Every key of the configuration is a name in a section.
LEMMA SettingNames ==
  ASSUME NEW key \in Setting
  PROVE  \E a, b : key = <<a, ":", b>> /\ a # ":" /\ b # ":"
BY DEF Setting, Address, Entry, ProductKey, DeviceName, DeviceSecret, NodeList, LogFile, LogLevel, User

\* readConfig takes what the dictionary has, and else the default.
LEMMA ConfigIs ==
  ASSUME readConfig, NEW key \in Setting
  PROVE  config'[key] = IF Has(dict, key) THEN Known(key, Val(dict, key)) ELSE Default(key)
<1>1. \A def : dictionary_get(dict, key, def) = IF Has(dict, key) THEN Val(dict, key) ELSE def
  BY DEF dictionary_get, Has, Val
<1>2. config'[key] =
        IF key = LogLevel
        THEN (IF Lowered(getstring(key)) \in LogLevels THEN Lowered(getstring(key)) ELSE <<"info">>)
        ELSE dictionary_get(dict, key, IF key \in Address THEN <<"-1">> ELSE None)
  BY DEF readConfig
<1>3. LogLevel \notin Address
  BY DEF LogLevel, Address, Entry
<1>4. CASE key = LogLevel
  <2>1. getstring(key) # None
    BY <1>4 DEF readConfig, Crashes
  <2>2. Has(dict, key) /\ getstring(key) = Val(dict, key)
    BY <1>1, <2>1 DEF getstring
  <2> QED BY <1>2, <1>3, <1>4, <2>1, <2>2 DEF Known, Default
<1>5. CASE key # LogLevel
  BY <1>1, <1>2, <1>5 DEF Known, Default
<1> QED BY <1>4, <1>5

\* What readConfig takes from the dictionary, a line of the file has.
LEMMA ConfigStems ==
  ASSUME LoadType, AllStem(dict), readConfig, NEW key \in Setting
  PROVE  \/ config'[key] = Default(key) \/ config'[key] = None
         \/ \E e \in Entries[file] : e.name = <<key[3]>> /\ config'[key] = Known(key, e.value)
<1>1. config'[key] = IF Has(dict, key) THEN Known(key, Val(dict, key)) ELSE Default(key)
  BY ConfigIs
<1>2. CASE ~ Has(dict, key)
  BY <1>1, <1>2
<1>3. CASE Has(dict, key)
  <2>1. IsDict(dict) /\ file \in Files
    BY DEF LoadType
  <2>2. PICK i \in DOMAIN dict.slot : /\ dict.slot[i].key # None /\ dict.slot[i].key = key
                                      /\ Val(dict, key) = dict.slot[i].val
    <3> DEFINE found == Matches(dict, key)
    <3>1. Min(found) \in found /\ found \subseteq DOMAIN dict.slot
      BY <1>3, <2>1, MinMatches
    <3>2. \A i \in found : dict.slot[i].key # None /\ dict.slot[i].key = key
      BY DEF Matches
    <3>3. Val(dict, key) = dict.slot[Min(found)].val
      BY DEF Val
    <3> HIDE DEF found
    <3> QED BY <3>1, <3>2, <3>3
  <2>3. Stems(key, Val(dict, key))
    BY <2>2 DEF AllStem
  <2>4. CASE Val(dict, key) = None
    BY <1>1, <1>3, <2>4 DEF Known
  <2>5. CASE Val(dict, key) # None
    <3>1. PICK e \in Entries[file] : \E s \in Seq(Token) : key = s \o <<":">> \o e.name /\ Val(dict, key) = e.value
      BY <2>3, <2>5 DEF Stems
    <3>2. PICK s \in Seq(Token) : key = s \o <<":">> \o e.name /\ Val(dict, key) = e.value
      BY <3>1
    <3> DEFINE c == ":"
    <3>3. PICK a, b : key = <<a, c, b>> /\ a # c /\ b # c
      BY SettingNames
    <3>4. e.name \in Seq(Token)
      BY <2>1, EntryNamed
    <3>5. e.name = <<b>>
      <4> DEFINE name == e.name
      <4>1. s \o <<c>> \o name = <<a, c, b>> /\ name \in Seq(Token) /\ s \in Seq(Token)
        BY <3>2, <3>3, <3>4
      <4> HIDE DEF c, name
      <4>2. name = <<b>>
        BY <3>3, <4>1, NameOf
      <4> QED BY <4>2 DEF name
    <3>6. key[3] = b
      BY <3>3
    <3> QED BY <1>1, <1>3, <3>2, <3>5, <3>6
  <2> QED BY <2>4, <2>5
<1> QED BY <1>2, <1>3

\* Of entries of a file one is the last.
LEMMA LastEntry ==
  ASSUME NEW f \in Files, NEW gives, gives \subseteq Entries[f], gives # {}
  PROVE  \E e \in gives : \A d \in gives : d.line <= e.line
<1> DEFINE lines == {e.line : e \in gives}
<1>1. Len(f) \in Nat /\ \A e \in gives : e.line \in 1 .. Len(f)
  BY HeadsType, EntryOf
<1>2. lines \subseteq 0 .. Len(f) /\ lines # {}
  BY <1>1
<1>3. Max(lines) \in lines /\ \A y \in lines : y <= Max(lines)
  <2> HIDE DEF lines
  <2> QED BY <1>1, <1>2, MaxProperties
<1>4. PICK e \in gives : Max(lines) = e.line
  BY <1>3
<1>5. \A d \in gives : d.line \in lines
  OBVIOUS
<1> QED BY <1>3, <1>4, <1>5

\* At the end of the file every line whose end is there has been read.
LEMMA AllRead ==
  ASSUME LoadType, line = Len(file), NEW h, Open(h), NEW i \in Heads(file)
  PROVE  i < h
<1>1. Len(file) \in Nat /\ h \in 1 .. Len(file) + 1 /\ i \in 1 .. Len(file)
  BY HeadsType DEF LoadType, Open
<1>2. PICK j \in i .. Len(file) : ~ GoesOn(WithoutEnd(file[j]))
  BY DEF Heads
<1>3. j \notin h .. line
  BY <1>2 DEF Open
<1> QED BY <1>1, <1>3

\* What is true while the file is loaded, and of the dictionary afterwards.
Loading ==
  /\ LoadType /\ failures \in Nat /\ AllStem(dict)
  /\ at = "loaded" /\ failures = 0 => line = Len(file)
  /\ \E h : Reading(h)

\* Without a failure, every setting is what the file says.
LEMMA ConfigSaid ==
  ASSUME Loading, readConfig, failures = 0
  PROVE  file \in WellFormed /\ (file \in Named => \A key \in Setting : config'[key] = Said(file, key))
<1>1. LoadType /\ file \in Files /\ line = Len(file) /\ ~ errs
  BY DEF Loading, LoadType, readConfig
<1>2. PICK h : Reading(h)
  BY DEF Loading
<1>3. \A i \in Heads(file) : i < h
  BY <1>1, <1>2, AllRead DEF Reading
<1>4. \A i \in Heads(file) :
        /\ Size(Whole(file)[i]) + 1 < ASCIILINESZ
        /\ IsNote(Whole(file)[i]) \/ IsSection(Whole(file)[i]) \/ IsEntry(Whole(file)[i])
  BY <1>1, <1>2, <1>3 DEF Reading
<1>5. file \in WellFormed
  BY <1>1, <1>4 DEF WellFormed
<1>6. ASSUME file \in Named, NEW key \in Setting PROVE config'[key] = Said(file, key)
  <2> DEFINE gives == {e \in Entries[file] : e.key = key}
             last == CHOOSE e \in gives : \A d \in gives : d.line <= e.line
  <2>1. /\ \A k : Has(dict, k) <=> \E e \in Entries[file] : e.line < h /\ e.key = k
        /\ \A e \in Entries[file] : LatestOf(h, e) => Val(dict, e.key) = e.value
    BY <1>2, <1>6 DEF Reading, Keeps
  <2>2. \A e \in Entries[file] : e.line < h
    BY <1>1, <1>3, EntryOf
  <2>3. config'[key] = IF Has(dict, key) THEN Known(key, Val(dict, key)) ELSE Default(key)
    BY ConfigIs
  <2>4. Said(file, key) = IF gives = {} THEN Default(key) ELSE Known(key, last.value)
    BY DEF Said
  <2>5. Has(dict, key) <=> gives # {}
    BY <2>1, <2>2
  <2>6. ASSUME gives # {} PROVE Val(dict, key) = last.value
    <3>1. gives \subseteq Entries[file]
      OBVIOUS
    <3>2. \E e \in gives : \A d \in gives : d.line <= e.line
      <4> HIDE DEF gives
      <4> QED BY <1>1, <2>6, <3>1, LastEntry
    <3>3. last \in gives /\ \A d \in gives : d.line <= last.line
      <4> HIDE DEF gives
      <4> QED BY <3>2
    <3> HIDE DEF last
    <3>4. last \in Entries[file] /\ last.key = key /\ \A d \in Entries[file] : d.key = key => d.line <= last.line
      BY <3>3
    <3>5. LatestOf(h, last)
      BY <2>2, <3>4 DEF LatestOf
    <3> QED BY <2>1, <3>4, <3>5
  <2> HIDE DEF gives, last
  <2> QED BY <2>3, <2>4, <2>5, <2>6
<1> QED BY <1>5, <1>6

LEMMA ConfigRead ==
  ASSUME Loading, readConfig
  PROVE  ConfigAsWritten'
<1>1. file' = file /\ failures' = failures
  BY DEF readConfig, fileVars
<1>2. failures = 0 => file \in WellFormed /\ (file \in Named => \A key \in Setting : config'[key] = Said(file, key))
  BY ConfigSaid
<1>3. \A key \in Setting :
         \/ config'[key] = Default(key) \/ config'[key] = None
         \/ \E e \in Entries[file] : e.name = <<key[3]>> /\ config'[key] = Known(key, e.value)
  BY ConfigStems DEF Loading
<1>4. IF config'[NodeList] = None THEN lora_list' = <<>> ELSE ListsPieces(lora_list', config'[NodeList])
  <2> DEFINE nodes == getstring(NodeList)
  <2>1. nodes \in Seq(Token) \cup {None}
    BY DictGet DEF getstring, Loading, LoadType, TextOrNone
  <2>2. NodeList \in Setting /\ NodeList # LogLevel /\ NodeList \notin Address
    BY DEF Setting, NodeList, LogLevel, Address, Entry
  <2>3. config'[NodeList] = nodes
    BY <2>2 DEF readConfig, getstring
  <2>4. lora_list' = IF nodes = None THEN <<>> ELSE strtok(nodes)
    BY DEF readConfig
  <2> HIDE DEF nodes
  <2>5. nodes # None => ListsPieces(strtok(nodes), nodes)
    BY <2>1, NodesListed
  <2> QED BY <2>3, <2>4, <2>5
<1> QED BY <1>1, <1>2, <1>3, <1>4 DEF ConfigAsWritten

LEMMA StepsKeepFailures ==
  ASSUME [StartNext]_allVars, ~ LoadLine
  PROVE  UNCHANGED failures
<1>1. CASE EndOfFile \/ LoadFails \/ readConfig \/ readConfigFails \/ drop_root_priviledge
  BY <1>1 DEF EndOfFile, LoadFails, readConfig, readConfigFails, drop_root_priviledge
<1>2. CASE logging_init \/ readSwitches \/ init_websocket \/ handler_thread \/ PartFails
  BY <1>2 DEF logging_init, readSwitches, init_websocket, handler_thread, PartFails, StartsPart
<1>3. CASE MqttStep \/ LoopStep \/ PublishStep \/ OtherStep
  BY <1>3 DEF MqttStep, LoopStep, PublishStep, OtherStep, startVars
<1>4. CASE UNCHANGED allVars
  BY <1>4 DEF allVars, startVars
<1> QED BY <1>1, <1>2, <1>3, <1>4 DEF StartNext, StartStep

\* Where main goes: only the end of the file, or a table that cannot grow, ends the
\* loop, and only readConfig leads on from there.
LEMMA StepsGoOn ==
  ASSUME [StartNext]_allVars, ~ LoadLine
  PROVE  /\ at' = "loaded" => at = "loaded" \/ line = Len(file)
         /\ ~ readConfig /\ at' \notin {"load", "loaded", "exited"} => at \notin {"load", "loaded", "exited"}
<1>1. CASE EndOfFile \/ LoadFails \/ readConfig \/ readConfigFails \/ drop_root_priviledge
  BY <1>1 DEF EndOfFile, LoadFails, readConfig, readConfigFails, drop_root_priviledge, Exits
<1>2. CASE logging_init \/ readSwitches \/ init_websocket \/ handler_thread \/ PartFails
  BY <1>2 DEF logging_init, readSwitches, init_websocket, handler_thread, PartFails, StartsPart, Exits
<1>3. CASE MqttStep \/ LoopStep \/ PublishStep \/ OtherStep
  BY <1>3 DEF MqttStep, LoopStep, PublishStep, OtherStep, startVars
<1>4. CASE UNCHANGED allVars
  BY <1>4 DEF allVars, startVars
<1> QED BY <1>1, <1>2, <1>3, <1>4 DEF StartNext, StartStep

LEMMA LoadingStarts == StartInit => Loading
<1> SUFFICES ASSUME StartInit PROVE Loading
  OBVIOUS
<1>1. /\ at = "load" /\ line = 0 /\ pending = <<>> /\ section = <<>> /\ errs = FALSE
      /\ dict = dictionary_new /\ failures = 0 /\ LoadType
  BY StartTyped DEF StartInit
<1>2. Len(file) \in Nat /\ file \in Files /\ Heads(file) \subseteq 1 .. Len(file)
  BY <1>1, HeadsType DEF LoadType
<1>3. (\A i \in DOMAIN dict.slot : dict.slot[i].key = None) /\ IsDict(dict)
  BY <1>1, NewDict DEF dictionary_new, Empty
<1>4. AllStem(dict) /\ FilledDict(dict) /\ \A k : ~ Has(dict, k)
  BY <1>3 DEF AllStem, FilledDict, Has, Matches
<1>5. Open(1)
  <2> DEFINE rest == Whole(file)[1]
  <2>1. rest \in Seq(Token)
    BY <1>2, WholeStep
  <2>2. rest = <<>> \o rest
    <3> HIDE DEF rest
    <3> QED BY <2>1, ConcatEmptySeq
  <2>3. 1 \in 1 .. line + 1 /\ line + 1 = 1 /\ 1 .. line = {}
    BY <1>1
  <2>4. ~ Continues(file, 1)
    BY DEF Continues
  <2> QED BY <1>1, <2>2, <2>3, <2>4, NoneGoOn DEF Open
<1>6. \A i \in Heads(file) : ~ (i < 1)
  BY <1>2
<1>7. Keeps(dict, section, 1)
  <2>1. SectionAt(file, 1) = <<>>
    BY <1>6 DEF SectionAt
  <2>2. \A e \in Entries[file] : ~ (e.line < 1)
    BY <1>2, <1>6, EntryOf
  <2> QED BY <1>1, <1>4, <2>1, <2>2 DEF Keeps, LatestOf
<1>8. Reading(1)
  BY <1>4, <1>5, <1>6, <1>7 DEF Reading
<1> QED BY <1>1, <1>4, <1>8 DEF Loading

LEMMA LoadingLine ==
  ASSUME Loading, LoadLine
  PROVE  Loading'
<1>1. LoadType /\ failures \in Nat /\ AllStem(dict) /\ at = "load" /\ line < Len(file) /\ file' = file
  BY DEF Loading, LoadLine
<1>2. PICK h : Reading(h)
  BY DEF Loading
<1>3. LoadType'
  BY <1>1, LoadKeepsType
<1> DEFINE text == Buffer(file[line + 1])
<1>4. CASE GoesOn(text)
  <2>1. UNCHANGED <<at, dict, failures>>
    BY <1>4 DEF LoadLine
  <2>2. Reading(h)'
    BY <1>1, <1>2, <1>4, ReadingGoesOn
  <2>3. AllStem(dict)'
    BY <1>1, <2>1 DEF AllStem, Stems
  <2> QED BY <1>1, <1>3, <2>1, <2>2, <2>3 DEF Loading
<1>5. CASE ~ GoesOn(text)
  <2>1. PICK next : next = line + 2
    OBVIOUS
  <2>2. Reading(next)' /\ failures' \in Nat /\ (failures' = 0 => at' = at)
    BY <1>1, <1>2, <1>5, <2>1, ReadingEnds
  <2>3. Open(h)
    BY <1>2 DEF Reading
  <2>4. ~ GoesOn(WithoutEnd(file[line + 1]))
    BY <1>1, <1>5, <2>3, BufferIs
  <2>5. strstrip(text) = strstrip(Whole(file)[h]) /\ h \in Heads(file)
    BY <1>1, <2>3, <2>4, OpenEnds
  <2>6. PICK fails \in SUBSET {"copy", "grow", "key", "val"} : \E read \in Seq(Token) :
          /\ read # <<>> => read = text
          /\ dict' = StoreLine(iniparser_line(read, section), fails).dict
    BY <1>1, <1>5, LineLoaded
  <2>7. PICK read \in Seq(Token) :
          /\ read # <<>> => read = text
          /\ dict' = StoreLine(iniparser_line(read, section), fails).dict
    BY <2>6
  <2> HIDE DEF text
  <2>8. AllStem(StoreLine(iniparser_line(read, section), fails).dict)
    BY <1>1, <2>5, <2>7, StoreStems
  <2>9. AllStem(dict')
    BY <2>7, <2>8
  <2>10. AllStem(dict)' <=> AllStem(dict')
    BY <1>1 DEF AllStem, Stems
  <2> QED BY <1>1, <1>3, <2>2, <2>9, <2>10 DEF Loading
<1> QED BY <1>4, <1>5

LEMMA LoadingKept ==
  ASSUME Loading, [StartNext]_allVars
  PROVE  Loading'
<1>1. CASE LoadLine
  BY <1>1, LoadingLine
<1>2. CASE ~ LoadLine
  <2>1. UNCHANGED fileVars /\ UNCHANGED failures /\ (at' = "loaded" => at = "loaded" \/ line = Len(file))
    BY <1>2, StepsKeepLoad, StepsKeepFailures, StepsGoOn
  <2>2. UNCHANGED <<file, line, pending, section, errs, dict>>
    BY <2>1 DEF fileVars
  <2>3. LoadType' /\ AllStem(dict)' /\ failures' \in Nat
    BY <2>1, <2>2 DEF Loading, LoadType, AllStem, Stems
  <2>4. PICK h : Reading(h)
    BY DEF Loading
  <2>5. Open(h)' <=> Open(h)
    BY <2>2 DEF Open
  <2>6. Keeps(dict, section, h)' <=> Keeps(dict, section, h)
    BY <2>2 DEF Keeps, LatestOf
  <2>7. Reading(h)'
    BY <2>1, <2>2, <2>4, <2>5, <2>6 DEF Reading
  <2>8. at' = "loaded" /\ failures' = 0 => line' = Len(file')
    BY <2>1, <2>2 DEF Loading
  <2> QED BY <2>3, <2>7, <2>8 DEF Loading
<1> QED BY <1>1, <1>2

LEMMA WrittenKept ==
  ASSUME Loading, ConfigAsWritten, [StartNext]_allVars
  PROVE  ConfigAsWritten'
<1>1. CASE readConfig
  BY <1>1, ConfigRead
<1>2. CASE ~ readConfig
  <2> SUFFICES ASSUME at' \notin {"load", "loaded", "exited"} PROVE ConfigAsWritten'
    BY DEF ConfigAsWritten
  <2>1. ~ LoadLine
    BY DEF LoadLine
  <2>2. UNCHANGED fileVars /\ UNCHANGED failures /\ UNCHANGED <<config, lora_list>> /\ at \notin {"load", "loaded", "exited"}
    BY <1>2, <2>1, StepsKeepLoad, StepsKeepFailures, StepsKeepConfig, StepsGoOn
  <2>3. UNCHANGED file
    BY <2>2 DEF fileVars
  <2> QED BY <2>2, <2>3 DEF ConfigAsWritten
<1> QED BY <1>1, <1>2

\* For every file over any tokens, every size of the line buffer and the dictionary,
\* every hash, and allocations that fail anywhere: the configuration that readConfig
\* sets is what the lines of the file say, and stays so.
THEOREM ConfigWritten == StartSpec => []ConfigAsWritten
<1>1. StartInit => Loading /\ ConfigAsWritten
  BY LoadingStarts DEF StartInit, ConfigAsWritten
<1>2. Loading /\ ConfigAsWritten /\ [StartNext]_allVars => (Loading /\ ConfigAsWritten)'
  BY LoadingKept, WrittenKept
<1> QED BY <1>1, <1>2, PTL DEF StartSpec

=============================================================================
