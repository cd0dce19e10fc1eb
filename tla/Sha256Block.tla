----------------------------- MODULE Sha256Block -----------------------------
(***************************************************************************)
(* The compression function that Sha256 leaves open (aiot_mqtt_sign.c),    *)
(* and with it the digests that the signature's blocks come to.            *)
(*                                                                         *)
(* A word of 32 bits is a pair of 16 bits each, the upper half first.      *)
(***************************************************************************)
EXTENDS Sha256, Bitwise, TLC

K ==
  <<<<\h428A, \h2F98>>, <<\h7137, \h4491>>, <<\hB5C0, \hFBCF>>, <<\hE9B5, \hDBA5>>,
    <<\h3956, \hC25B>>, <<\h59F1, \h11F1>>, <<\h923F, \h82A4>>, <<\hAB1C, \h5ED5>>,
    <<\hD807, \hAA98>>, <<\h1283, \h5B01>>, <<\h2431, \h85BE>>, <<\h550C, \h7DC3>>,
    <<\h72BE, \h5D74>>, <<\h80DE, \hB1FE>>, <<\h9BDC, \h06A7>>, <<\hC19B, \hF174>>,
    <<\hE49B, \h69C1>>, <<\hEFBE, \h4786>>, <<\h0FC1, \h9DC6>>, <<\h240C, \hA1CC>>,
    <<\h2DE9, \h2C6F>>, <<\h4A74, \h84AA>>, <<\h5CB0, \hA9DC>>, <<\h76F9, \h88DA>>,
    <<\h983E, \h5152>>, <<\hA831, \hC66D>>, <<\hB003, \h27C8>>, <<\hBF59, \h7FC7>>,
    <<\hC6E0, \h0BF3>>, <<\hD5A7, \h9147>>, <<\h06CA, \h6351>>, <<\h1429, \h2967>>,
    <<\h27B7, \h0A85>>, <<\h2E1B, \h2138>>, <<\h4D2C, \h6DFC>>, <<\h5338, \h0D13>>,
    <<\h650A, \h7354>>, <<\h766A, \h0ABB>>, <<\h81C2, \hC92E>>, <<\h9272, \h2C85>>,
    <<\hA2BF, \hE8A1>>, <<\hA81A, \h664B>>, <<\hC24B, \h8B70>>, <<\hC76C, \h51A3>>,
    <<\hD192, \hE819>>, <<\hD699, \h0624>>, <<\hF40E, \h3585>>, <<\h106A, \hA070>>,
    <<\h19A4, \hC116>>, <<\h1E37, \h6C08>>, <<\h2748, \h774C>>, <<\h34B0, \hBCB5>>,
    <<\h391C, \h0CB3>>, <<\h4ED8, \hAA4A>>, <<\h5B9C, \hCA4F>>, <<\h682E, \h6FF3>>,
    <<\h748F, \h82EE>>, <<\h78A5, \h636F>>, <<\h84C8, \h7814>>, <<\h8CC7, \h0208>>,
    <<\h90BE, \hFFFA>>, <<\hA450, \h6CEB>>, <<\hBEF9, \hA3F7>>, <<\hC671, \h78F2>>>>

\* utils_sha256_starts.
State ==
  <<<<\h6A09, \hE667>>, <<\hBB67, \hAE85>>, <<\h3C6E, \hF372>>, <<\hA54F, \hF53A>>,
    <<\h510E, \h527F>>, <<\h9B05, \h688C>>, <<\h1F83, \hD9AB>>, <<\h5BE0, \hCD19>>>>

AND(x, y) == <<x[1] & y[1], x[2] & y[2]>>
OR(x, y) == <<x[1] | y[1], x[2] | y[2]>>
XOR(x, y) == <<x[1] ^^ y[1], x[2] ^^ y[2]>>

\* Addition of words wraps.
Plus(words) ==
  LET sums == FoldLeft(LAMBDA s, w : <<s[1] + w[1], s[2] + w[2]>>, <<0, 0>>, words)
  IN <<(sums[1] + sums[2] \div 2 ^ 16) % 2 ^ 16, sums[2] % 2 ^ 16>>

ROTR(x, n) ==
  LET y == IF n < 16 THEN x ELSE <<x[2], x[1]>>
      k == n % 16
      half(upper, lower) == lower \div 2 ^ k + (upper % 2 ^ k) * 2 ^ (16 - k)
  IN <<half(y[2], y[1]), half(y[1], y[2])>>
SHR(x, n) == <<x[1] \div 2 ^ n, x[2] \div 2 ^ n + (x[1] % 2 ^ n) * 2 ^ (16 - n)>>

S0(x) == XOR(XOR(ROTR(x, 7), ROTR(x, 18)), SHR(x, 3))
S1(x) == XOR(XOR(ROTR(x, 17), ROTR(x, 19)), SHR(x, 10))
S2(x) == XOR(XOR(ROTR(x, 2), ROTR(x, 13)), ROTR(x, 22))
S3(x) == XOR(XOR(ROTR(x, 6), ROTR(x, 11)), ROTR(x, 25))
F0(x, y, z) == OR(AND(x, y), AND(z, OR(x, y)))
F1(x, y, z) == XOR(z, AND(x, XOR(y, z)))

GET_UINT32_BE(bytes, i) == <<256 * bytes[i] + bytes[i + 1], 256 * bytes[i + 2] + bytes[i + 3]>>
Bytes4(word) == <<word[1] \div 256, word[1] % 256, word[2] \div 256, word[2] % 256>>

\* One pass of the loop: the word t, counted from 0, and the macro P.
Round(s, t, data) ==
  LET W == s.W
      A == s.A
      x == IF t < 16 THEN GET_UINT32_BE(data, 4 * t + 1)
           ELSE Plus(<<S1(W[t - 1]), W[t - 6], S0(W[t - 14]), W[t - 15]>>)
      temp1 == Plus(<<A[8], S3(A[5]), F1(A[5], A[6], A[7]), K[t + 1], x>>)
      temp2 == Plus(<<S2(A[1]), F0(A[1], A[2], A[3])>>)
  IN [s EXCEPT !.W = Append(@, x),
               !.A = <<Plus(<<temp1, temp2>>), A[1], A[2], A[3], Plus(<<A[4], temp1>>), A[5], A[6], A[7]>>]

Compress(state, data) ==
  LET after[t \in 0 .. 64] == IF t = 0 THEN [W |-> <<>>, A |-> state] ELSE Round(after[t - 1], t - 1, data)
      A == after[64].A
  IN [i \in 1 .. 8 |-> Plus(<<state[i], A[i]>>)]

\* The number that a byte of Sha256 is, given what its sources say.
Number(byte, says) ==
  LET plain == IF byte[2] = "literal" THEN byte[3] ELSE says[byte[2]][byte[3]]
  IN CASE byte[1] = "plain" -> plain [] byte[1] = "ipad" -> plain ^^ \h36 [] byte[1] = "opad" -> plain ^^ \h5C

Digest(blocks, says) ==
  LET bytes == FlattenSeq([k \in DOMAIN blocks |-> [i \in 1 .. 64 |-> Number(blocks[k][i], says)]])
      block(k) == SubSeq(bytes, 64 * k - 63, 64 * k)
  IN FoldLeft(LAMBDA state, k : Compress(state, block(k)), State, [k \in 1 .. Len(bytes) \div 64 |-> k])

\* What utils_sha256_finish writes.
Output(digest) == FlattenSeq([k \in 1 .. 8 |-> Bytes4(digest[k])])

\* The two passes of utils_hmac_sha256 over the blocks of Sha256.
HmacDigest(mac, says) ==
  LET inner == Output(Digest(mac.inner, says))
  IN Output(Digest(mac.outer, [inner |-> inner] @@ says))

zEncode == <<"0", "1", "2", "3", "4", "5", "6", "7", "8", "9", "A", "B", "C", "D", "E", "F">>

hex2str(bytes) ==
  FoldLeft(LAMBDA text, byte : text \o zEncode[byte \div 16 + 1] \o zEncode[(byte % 16) + 1], "", bytes)

\* The texts are signed as the standard says: "Hi There", and "what do ya want for
\* nothing?" with "Jefe", the test cases 1 and 2 of RFC 4231.
ASSUME TestCases ==
  LET Signed(msg, key) ==
        hex2str(HmacDigest(utils_hmac_sha256(Text("msg", Len(msg)), Text("key", Len(key))), [msg |-> msg, key |-> key]))
  IN /\ Signed(<<72, 105, 32, 84, 104, 101, 114, 101>>, [i \in 1 .. 20 |-> 11]) =
          "B0344C61D8DB38535CA8AFCEAF0BF12B881DC200C9833DA726E9376C2E32CFF7"
     /\ Signed(<<119, 104, 97, 116, 32, 100, 111, 32, 121, 97, 32, 119, 97, 110, 116, 32,
                 102, 111, 114, 32, 110, 111, 116, 104, 105, 110, 103, 63>>, <<74, 101, 102, 101>>) =
          "5BDCC146BF60754E6A042426089575C75A003F089D2739839DEC58B964EC3843"

=============================================================================
