------------------------------- MODULE Sha256 -------------------------------
(***************************************************************************)
(* The signature of the MQTT session (aiot_mqtt_sign.c): how HMAC-SHA256   *)
(* cuts what it is given into blocks.                                      *)
(*                                                                         *)
(* The compression function is in Sha256Block; here the state of a         *)
(* context is the sequence of blocks it has taken.  A byte is a triple of  *)
(* the pad it is combined with, the text it comes from and its place       *)
(* there.  What is signed is shorter than 2^29 bytes, so total[1] and      *)
(* "high" stay 0.                                                          *)
(***************************************************************************)
EXTENDS Naturals, Sequences, SequencesExt

Text(source, len) == [i \in 1 .. len |-> <<"plain", source, i>>]
Literal(v) == <<"plain", "literal", v>>
Zeros(len) == [i \in 1 .. len |-> Literal(0)]
Combined(pad, byte) == <<pad, byte[2], byte[3]>>

\* utils_sha256_init and utils_sha256_starts.
Started == [total |-> 0, buffer |-> Zeros(64), blocks |-> <<>>]

utils_sha256_process(ctx, block) == [ctx EXCEPT !.blocks = Append(@, block)]

\* memcpy of input behind the first left bytes of the buffer.
Copied(buffer, left, input) ==
  [i \in DOMAIN buffer |-> IF i > left /\ i <= left + Len(input) THEN input[i - left] ELSE buffer[i]]

\* The blocks of input from the byte behind from on, and what is left over.
WholeBlocks(input, from) ==
  [k \in 1 .. (Len(input) - from) \div 64 |-> SubSeq(input, from + 64 * (k - 1) + 1, from + 64 * k)]
LeftOver(input, from) == SubSeq(input, Len(input) + 1 - ((Len(input) - from) % 64), Len(input))

utils_sha256_update(ctx, input) ==
  LET left == ctx.total % 64
      fill == 64 - left
      fills == left > 0 /\ Len(input) >= fill
      counted == [ctx EXCEPT !.total = @ + Len(input)]
      block == Copied(ctx.buffer, left, SubSeq(input, 1, fill))
      filled == IF fills THEN [utils_sha256_process(counted, block) EXCEPT !.buffer = block] ELSE counted
      from == IF fills THEN fill ELSE 0
  IN [filled EXCEPT !.blocks = @ \o WholeBlocks(input, from),
                    !.buffer = Copied(@, IF fills THEN 0 ELSE left, LeftOver(input, from))]

PUT_UINT32_BE(n) ==
  <<Literal((n \div 16777216) % 256), Literal((n \div 65536) % 256),
    Literal((n \div 256) % 256), Literal(n % 256)>>

\* Mutant of PadLength: the length, where it does not fit, gets no block of its own.
PadLengthShort(last) == IF last < 56 THEN 56 - last ELSE 64 - last

PadLength(last) == IF last < 56 THEN 56 - last ELSE 120 - last

\* As many bytes have 2 ^ 32 bits: the 29 of "total >> 29".
WordBytes == 536870912

\* The blocks whose compression is the digest.
utils_sha256_finish(ctx) ==
  LET msglen == PUT_UINT32_BE(ctx.total \div WordBytes) \o PUT_UINT32_BE(8 * (ctx.total % WordBytes))
      padding == [i \in 1 .. PadLength(ctx.total % 64) |-> IF i = 1 THEN Literal(128) ELSE Literal(0)]
  IN utils_sha256_update(utils_sha256_update(ctx, padding), msglen).blocks

\* The key, filled up with zeros and combined with a pad.
Keyed(pad, key) == [i \in 1 .. 64 |-> Combined(pad, IF i <= Len(key) THEN key[i] ELSE Literal(0))]

\* The two passes; the second one signs the digest of the first.
utils_hmac_sha256(msg, key) ==
  LET Pass(pad, text) ==
        utils_sha256_finish(utils_sha256_update(utils_sha256_update(Started, Keyed(pad, key)), text))
  IN [inner |-> Pass("ipad", msg), outer |-> Pass("opad", Text("inner", 32))]

\* macSrc: what the password of a device signs.
MacSrc(productKey, deviceName) ==
  LET deviceId == deviceName \o Text("&", 1) \o productKey
  IN    Text("clientId", 8) \o deviceId \o Text("deviceName", 10) \o deviceName
     \o Text("productKey", 10) \o productKey \o Text("timestamp", 9) \o Text("2524608000000", 13)

-----------------------------------------------------------------------------
(* The reference: FIPS 180-4 and RFC 2104.                                 *)

Chopped(bytes) == [k \in 1 .. Len(bytes) \div 64 |-> SubSeq(bytes, 64 * (k - 1) + 1, 64 * k)]

\* One byte 0x80, as few zeros as make whole blocks, the length in bits.
Padded(m) ==
  LET zeros == CHOOSE k \in 0 .. 63 : (Len(m) + 1 + k + 8) % 64 = 0
  IN m \o <<Literal(128)>> \o Zeros(zeros + 4) \o PUT_UINT32_BE(8 * Len(m))

Hmac(msg, key) ==
  [inner |-> Chopped(Padded(Keyed("ipad", key) \o msg)),
   outer |-> Chopped(Padded(Keyed("opad", key) \o Text("inner", 32)))]

=============================================================================
