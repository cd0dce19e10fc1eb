------------------------------- MODULE Frames -------------------------------
(***************************************************************************)
(* The Modbus frames of the gateway and their text form: the CRC of crc.c, *)
(* the frames of statusquery.c and mqtt.c, hex2ascii and ascii2hex.        *)
(*                                                                         *)
(* A byte is a number below 256 (char is unsigned on the ARM target of the *)
(* Makefile), a frame a sequence of bytes, a text a sequence of character  *)
(* codes.                                                                  *)
(***************************************************************************)
EXTENDS Integers, Sequences, SequencesExt

Byte == 0 .. 255
Word16 == {n \in Nat : n < 256 * 256}

\* C's "^" of 16 bits, from the low end on.
Xor(a, b) ==
  LET xor[bits \in 0 .. 16] ==
        [c \in Nat |-> [d \in Nat |->
           IF bits = 0 THEN 0 ELSE ((c + d) % 2) + 2 * xor[bits - 1][c \div 2][d \div 2]]]
  IN xor[16][a][b]

crc_hi == <<
    0, 193, 129, 64, 1, 192, 128, 65, 1, 192, 128, 65, 0, 193, 129, 64, 1, 192, 128,
    65, 0, 193, 129, 64, 0, 193, 129, 64, 1, 192, 128, 65, 1, 192, 128, 65, 0, 193,
    129, 64, 0, 193, 129, 64, 1, 192, 128, 65, 0, 193, 129, 64, 1, 192, 128, 65, 1,
    192, 128, 65, 0, 193, 129, 64, 1, 192, 128, 65, 0, 193, 129, 64, 0, 193, 129, 64,
    1, 192, 128, 65, 0, 193, 129, 64, 1, 192, 128, 65, 1, 192, 128, 65, 0, 193, 129,
    64, 0, 193, 129, 64, 1, 192, 128, 65, 1, 192, 128, 65, 0, 193, 129, 64, 1, 192,
    128, 65, 0, 193, 129, 64, 0, 193, 129, 64, 1, 192, 128, 65, 1, 192, 128, 65, 0,
    193, 129, 64, 0, 193, 129, 64, 1, 192, 128, 65, 0, 193, 129, 64, 1, 192, 128, 65,
    1, 192, 128, 65, 0, 193, 129, 64, 0, 193, 129, 64, 1, 192, 128, 65, 1, 192, 128,
    65, 0, 193, 129, 64, 1, 192, 128, 65, 0, 193, 129, 64, 0, 193, 129, 64, 1, 192,
    128, 65, 0, 193, 129, 64, 1, 192, 128, 65, 1, 192, 128, 65, 0, 193, 129, 64, 1,
    192, 128, 65, 0, 193, 129, 64, 0, 193, 129, 64, 1, 192, 128, 65, 1, 192, 128, 65,
    0, 193, 129, 64, 0, 193, 129, 64, 1, 192, 128, 65, 0, 193, 129, 64, 1, 192, 128,
    65, 1, 192, 128, 65, 0, 193, 129, 64 >>

crc_low == <<
    0, 192, 193, 1, 195, 3, 2, 194, 198, 6, 7, 199, 5, 197, 196, 4, 204, 12, 13,
    205, 15, 207, 206, 14, 10, 202, 203, 11, 201, 9, 8, 200, 216, 24, 25, 217, 27, 219,
    218, 26, 30, 222, 223, 31, 221, 29, 28, 220, 20, 212, 213, 21, 215, 23, 22, 214, 210,
    18, 19, 211, 17, 209, 208, 16, 240, 48, 49, 241, 51, 243, 242, 50, 54, 246, 247, 55,
    245, 53, 52, 244, 60, 252, 253, 61, 255, 63, 62, 254, 250, 58, 59, 251, 57, 249, 248,
    56, 40, 232, 233, 41, 235, 43, 42, 234, 238, 46, 47, 239, 45, 237, 236, 44, 228, 36,
    37, 229, 39, 231, 230, 38, 34, 226, 227, 35, 225, 33, 32, 224, 160, 96, 97, 161, 99,
    163, 162, 98, 102, 166, 167, 103, 165, 101, 100, 164, 108, 172, 173, 109, 175, 111, 110, 174,
    170, 106, 107, 171, 105, 169, 168, 104, 120, 184, 185, 121, 187, 123, 122, 186, 190, 126, 127,
    191, 125, 189, 188, 124, 180, 116, 117, 181, 119, 183, 182, 118, 114, 178, 179, 115, 177, 113,
    112, 176, 80, 144, 145, 81, 147, 83, 82, 146, 150, 86, 87, 151, 85, 149, 148, 84, 156,
    92, 93, 157, 95, 159, 158, 94, 90, 154, 155, 91, 153, 89, 88, 152, 136, 72, 73, 137,
    75, 139, 138, 74, 78, 142, 143, 79, 141, 77, 76, 140, 68, 132, 133, 69, 135, 71, 70,
    134, 130, 66, 67, 131, 65, 129, 128, 64 >>

\* One pass of the loop of modbus_CRC16; the tables are indexed from 0.
CrcStep(crc, byte) ==
  LET index == Xor(crc.low_byte, byte)
  IN [low_byte |-> Xor(crc.high_byte, crc_hi[index + 1]), high_byte |-> crc_low[index + 1]]

modbus_CRC16(data) ==
  LET crc[i \in 0 .. Len(data)] ==
        IF i = 0 THEN [high_byte |-> 255, low_byte |-> 255] ELSE CrcStep(crc[i - 1], data[i])
  IN crc[Len(data)].high_byte * 256 + crc[Len(data)].low_byte

\* Mutant of Framed: the high byte first.
FramedHighFirst(bytes) == LET crc16 == modbus_CRC16(bytes) IN bytes \o <<crc16 \div 256, crc16 % 256>>

\* CRC16_LOW_BYTE, then CRC16_HIGH_BYTE.
Framed(bytes) == LET crc16 == modbus_CRC16(bytes) IN bytes \o <<crc16 % 256, crc16 \div 256>>

\* The high and the low byte of the low 16 bits of an int.
Bytes2(n) == <<(n \div 256) % 256, n % 256>>

FC_READ == 3
FC_WRITE == 6

\* run_command_on_lora_node
WriteFrame(plc, plc_channel, value) ==
  Framed(<<plc % 256, FC_WRITE>> \o Bytes2(plc_channel) \o Bytes2(value))

\* run_single_switch_query_command
ReadFrame(plc, start_reg, num_reg) ==
  Framed(<<plc % 256, FC_READ>> \o Bytes2(start_reg) \o Bytes2(num_reg))

Digit(half) == IF half <= 9 THEN half + 48 ELSE half - 10 + 65

\* Two digits for each byte.
hex2ascii(hex) ==
  [j \in 1 .. 2 * Len(hex) |->
     LET byte == hex[(j + 1) \div 2] IN Digit(IF j % 2 = 1 THEN byte \div 16 ELSE byte % 16)]

\* The value of a hexadecimal digit for strtol.
DigitValue(c) ==
  CASE c \in 48 .. 57 -> c - 48
    [] c \in 65 .. 70 -> c - 55
    [] c \in 97 .. 102 -> c - 87

\* strtol of the hexadecimal digits from first to last.
Number(ascii, first, last) ==
  LET upto[k \in first - 1 .. last] == IF k < first THEN 0 ELSE upto[k - 1] * 16 + DigitValue(ascii[k])
  IN upto[last]

ascii2hex(ascii) == [k \in 1 .. Len(ascii) \div 2 |-> Number(ascii, 2 * k - 1, 2 * k)]

-----------------------------------------------------------------------------
(* The references.                                                         *)

\* The next remainder by the polynomial 8005 (A001 from the low end); after eight bits.
Shifted(crc) == IF crc % 2 = 1 THEN Xor(crc \div 2, 160 * 256 + 1) ELSE crc \div 2
ShiftedByte(crc) == Shifted(Shifted(Shifted(Shifted(Shifted(Shifted(Shifted(Shifted(crc))))))))

\* CRC-16/MODBUS, bit by bit.
CrcReference(data) ==
  LET crc[i \in 0 .. Len(data)] == IF i = 0 THEN 255 * 256 + 255 ELSE ShiftedByte(Xor(crc[i - 1], data[i]))
  IN crc[Len(data)]

\* Every entry of both tables is what the polynomial asks for.
ASSUME CrcTables ==
  \A byte \in Byte :
    /\ crc_hi[byte + 1] \in Byte /\ crc_low[byte + 1] \in Byte
    /\ ShiftedByte(byte) = 256 * crc_low[byte + 1] + crc_hi[byte + 1]

\* A frame as the receiver checks it: its last two bytes are the CRC of the rest.
Sound(frame) ==
  LET n == Len(frame)
  IN n > 2 /\ CrcReference(SubSeq(frame, 1, n - 2)) = frame[n - 1] + 256 * frame[n]

=============================================================================
