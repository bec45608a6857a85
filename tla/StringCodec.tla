----------------------------- MODULE StringCodec -----------------------------
(***************************************************************************)
(* hex_encode, hex_decode, base64_encode and base64_decode                 *)
(* (string_codec.cpp).  Symbols are character codes.  The loops fill their *)
(* output position by position, each from one group of the input: the      *)
(* output is a function of the position.  The other overloads call these.  *)
(***************************************************************************)
EXTENDS Integers, Sequences

Byte == 0 .. 255

(* Whether the pointer to the input is null.  data() of an empty           *)
(* std::vector may be.                                                     *)
NullData(src) == IF src = <<>> THEN BOOLEAN ELSE {FALSE}

-----------------------------------------------------------------------------
(* Hexadecimal *)

(* s_hex_lower_table, s_hex_upper_table                                    *)
HexTable(v, lower) == IF v < 10 THEN 48 + v ELSE (IF lower THEN 97 ELSE 65) + v - 10

HexIndex(symbol) ==
    CASE symbol \in 48 .. 57  -> symbol - 48
      [] symbol \in 97 .. 102 -> symbol - 97 + 10
      [] symbol \in 65 .. 70  -> symbol - 65 + 10
      [] OTHER -> 16

(* hex_encode(): when it returns true, and what is then in dst.  The       *)
(* pointer is tested before the length.                                    *)
HexEncodes(null) == ~null
HexEncode(src, lower) ==
    [i \in 1 .. 2 * Len(src) |->
        LET b == src[(i + 1) \div 2]
        IN  HexTable(IF i % 2 = 1 THEN b \div 16 ELSE b % 16, lower)]

(* hex_decode(): when it returns true, and what is then in dst             *)
HexDecodes(src) ==
    /\ Len(src) % 2 = 0
    /\ \A i \in 1 .. Len(src) : HexIndex(src[i]) <= 15
HexDecoded(src) ==
    [i \in 1 .. Len(src) \div 2 |-> HexIndex(src[2 * i - 1]) * 16 + HexIndex(src[2 * i])]

-----------------------------------------------------------------------------
(* Base64 *)

Pad == 61

(* s_base64_table                                                          *)
Base64Table(v) ==
    CASE v \in 0 .. 25  -> 65 + v
      [] v \in 26 .. 51 -> 97 + v - 26
      [] v \in 52 .. 61 -> 48 + v - 52
      [] v = 62 -> 43
      [] v = 63 -> 47

Base64Index(symbol) ==
    CASE symbol \in 65 .. 90  -> symbol - 65
      [] symbol \in 97 .. 122 -> symbol - 97 + 26
      [] symbol \in 48 .. 57  -> symbol - 48 + 52
      [] symbol = 43 -> 62
      [] symbol = 47 -> 63
      [] symbol = Pad -> 0
      [] OTHER -> 64

(* tmp: a group of three bytes, filled up with zeros                       *)
Tmp(src, i) == IF i <= Len(src) THEN src[i] ELSE 0

Sextet(x, y, z, r) ==
    CASE r = 0 -> x \div 4
      [] r = 1 -> (x % 4) * 16 + y \div 16
      [] r = 2 -> (y % 16) * 4 + z \div 64
      [] r = 3 -> z % 64

Pads(src) == IF Len(src) % 3 = 0 THEN 0 ELSE 3 - (Len(src) % 3)
EncodedLen(src) == ((Len(src) + 2) \div 3) * 4

(* base64_encode(): when it returns true, and what is then in dst.  The    *)
(* length is tested before the pointer.                                    *)
Base64Encodes(src, null) == src = <<>> \/ ~null
Base64Encode(src) ==
    [k \in 1 .. EncodedLen(src) |->
        LET g == 3 * ((k - 1) \div 4)
        IN  IF k > EncodedLen(src) - Pads(src) THEN Pad
            ELSE Base64Table(Sextet(Tmp(src, g + 1), Tmp(src, g + 2), Tmp(src, g + 3),
                                    (k - 1) % 4))]

(* a | b for a multiple a of w and b \in 0 .. w                            *)
OrBelow(a, b, w) == IF b < w THEN a + b ELSE IF (a \div w) % 2 = 1 THEN a ELSE a + w

Octet(a, b, c, d, r) ==
    CASE r = 0 -> OrBelow(4 * a, b \div 16, 4) % 256
      [] r = 1 -> OrBelow(16 * b, c \div 4, 16) % 256
      [] r = 2 -> OrBelow(64 * c, d, 64) % 256

(* base64_decode(): when it returns true, and what is then in dst.  Only   *)
(* the last two symbols are looked up before the loop.                     *)
Base64Decodes(src) ==
    LET n == Len(src) IN
    /\ n % 4 = 0
    /\ n > 0 => /\ \A i \in 1 .. n - 2 : src[i] # Pad
                /\ Base64Index(src[n]) <= 63 /\ Base64Index(src[n - 1]) <= 63
                /\ src[n - 1] = Pad => src[n] = Pad

PadLen(src) ==
    LET n == Len(src)
    IN  IF n = 0 \/ src[n] # Pad THEN 0 ELSE IF src[n - 1] = Pad THEN 2 ELSE 1

Base64Decoded(src) ==
    [k \in 1 .. ((Len(src) + 3) \div 4) * 3 - PadLen(src) |->
        LET g == 4 * ((k - 1) \div 3)
        IN  Octet(Base64Index(src[g + 1]), Base64Index(src[g + 2]),
                  Base64Index(src[g + 3]), Base64Index(src[g + 4]), (k - 1) % 3)]

=============================================================================
