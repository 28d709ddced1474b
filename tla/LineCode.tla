------------------------------ MODULE LineCode ------------------------------
(***************************************************************************)
(* What TransmitData makes of a block of bytes for each line option        *)
(* (eLine), and what PacketReceiveData at the other end makes of that.     *)
(* Bytes and characters are 0 .. 255.  The loops that shift single bits    *)
(* are given by the value they compute.  No state: the callers' is in      *)
(* Session.                                                                *)
(***************************************************************************)
EXTENDS Integers, Sequences, SequencesExt

CONSTANTS
  Escaped,     (* E_Explicit: the characters TWINSOCK.INI says to escape,  *)
  Ignored,     (* the received ones it says to ignore,                     *)
  Offset       (* and the distance to the character sent for one escaped   *)

Byte == 0 .. 255

ASSUME ExplicitSettings ==
  /\ Escaped \subseteq Byte
  /\ Ignored \subseteq Byte
  /\ Offset \in Byte
  /\ Ignored \subseteq Escaped
  /\ \A c \in Escaped \cup {24} : (c + Offset) % 256 \notin Escaped \cup {24, 32}

Encodings == {"E_6Bit", "E_8Bit", "E_8NoCtrl", "E_8NoX", "E_8NoHiX",
              "E_8NoHiCtrl", "E_Explicit"}

(* The options that put the bits of the block behind one another.          *)
Packing == {"E_6Bit", "E_8NoHiCtrl"}

At == 64
Space == 32
CtlX == 24

Rest(a, n) == (a + n) % 256

-----------------------------------------------------------------------------
(* The packing options: groups of nBitsCode bits, after an '@' that tells  *)
(* the receiver to realign, one character each.                            *)
BitsCode(e) == IF e = "E_6Bit" THEN 6 ELSE 7

(* nDataOut, the '@' included.                                             *)
CharactersOut(e, n) ==
  (IF e = "E_6Bit" THEN (n * 4) \div 3 ELSE (n * 8) \div 7)
  + 1 + (IF n % BitsCode(e) # 0 THEN 1 ELSE 0)

(* Bit b of the block, counted from 0; zeros follow its end.               *)
Bit(block, b) ==
  IF b \div 8 >= Len(block) THEN 0
  ELSE (block[(b \div 8) + 1] \div (2 ^ (7 - (b % 8)))) % 2

(* The k bits from bit b on.                                               *)
Group(block, b, k) ==
  LET value[i \in 0 .. k] ==
        IF i = 0 THEN 0 ELSE 2 * value[i - 1] + Bit(block, b + i - 1)
  IN value[k]

(* ach6bit.                                                                *)
SixBit(v) ==
  IF v < 26 THEN 65 + v
  ELSE IF v < 52 THEN 97 + v - 26
  ELSE IF v < 62 THEN 48 + v - 52
  ELSE IF v = 62 THEN 46
  ELSE 47

CodeOf(v) == IF v >= 64 THEN SixBit(v - 64) + 128 ELSE SixBit(v)

Packed(e, block) ==
  LET k == BitsCode(e)
  IN <<At>> \o [j \in 1 .. CharactersOut(e, Len(block)) - 1 |->
                  CodeOf(Group(block, k * (j - 1), k))]

-----------------------------------------------------------------------------
(* The other options escape single characters.                             *)
HighX == {145, 147}
LowX == {17, 19}

(* Mutant: -X leaves the XON and XOFF with the high bit alone.             *)
EscapedByLow(e, c) ==
  \/ c \in {At, CtlX}
  \/ e = "E_8NoX" /\ c \in LowX
  \/ e = "E_8NoHiX" /\ c \in LowX
  \/ e = "E_8NoCtrl" /\ c < 32
  \/ e = "E_Explicit" /\ c \in Escaped

EscapedBy(e, c) ==
  \/ c \in {At, CtlX}
  \/ e = "E_8NoX" /\ c \in LowX
  \/ e = "E_8NoHiX" /\ c \in LowX \cup HighX
  \/ e = "E_8NoCtrl" /\ c < 32
  \/ e = "E_Explicit" /\ c \in Escaped

EscapedForm(e, c) ==
  IF c = At THEN <<At, Space>>
  ELSE <<At, Rest(c, IF e = "E_Explicit" THEN Offset ELSE At)>>

(* TransmitData, what it hands to SendData.                                *)
Encoded(e, block) ==
  IF e \in Packing THEN Packed(e, block)
  ELSE FlattenSeq([i \in 1 .. Len(block) |->
         IF EscapedBy(e, block[i]) THEN EscapedForm(e, block[i])
         ELSE <<block[i]>>])

-----------------------------------------------------------------------------
(* The statics of PacketReceiveData, nBits and c, and the bytes out.       *)
Aligned == [nBits |-> 0, c |-> 0, out |-> <<>>]

(* The value of a code character, or none.                                 *)
CodeValue(c) ==
  LET low == c % 128
      value == IF low \in 65 .. 90 THEN low - 65
               ELSE IF low \in 97 .. 122 THEN low - 97 + 26
               ELSE IF low \in 48 .. 57 THEN low - 48 + 52
               ELSE IF low = 46 THEN 62
               ELSE IF low = 47 THEN 63
               ELSE -1
  IN IF value >= 0 /\ c >= 128 THEN value + 64 ELSE value

(* nBitsCode further bits: a byte is out when eight have come.             *)
Unpacked(r, value, k) ==
  LET n == r.nBits + k
      bits == (r.c * (2 ^ k)) + value
  IN IF n < 8 THEN [r EXCEPT !.nBits = n, !.c = bits]
     ELSE [nBits |-> n - 8, c |-> bits % (2 ^ (n - 8)),
           out |-> Append(r.out, bits \div (2 ^ (n - 8)))]

(* PacketReceiveData, one character.  A ^X is only counted (see Session).  *)
(* The branches for nBits 2 and 3, which only a change of option could     *)
(* leave behind, are left out.                                             *)
Decode(e, r, c) ==
  IF c = CtlX THEN r
  ELSE IF e \in Packing
    THEN IF c = At THEN [r EXCEPT !.nBits = 0, !.c = 0]
         ELSE IF CodeValue(c) < 0 THEN r
         ELSE Unpacked(r, CodeValue(c) % (2 ^ BitsCode(e)), BitsCode(e))
  ELSE IF e = "E_Explicit" /\ c \in Ignored THEN r
  ELSE IF r.nBits = 1
    THEN [r EXCEPT !.nBits = 0,
                   !.out = Append(@, IF c = Space THEN At
                                     ELSE Rest(c, 256 - (IF e = "E_Explicit"
                                                           THEN Offset
                                                           ELSE At)))]
  ELSE IF c = At THEN [r EXCEPT !.nBits = 1]
  ELSE [r EXCEPT !.out = Append(@, c)]

Decoded(e, r, chars) == FoldLeft(LAMBDA s, c : Decode(e, s, c), r, chars)

-----------------------------------------------------------------------------
(* What a line with option e need not pass.                                *)
Unsafe(e) ==
  CASE e = "E_6Bit" -> (0 .. 31) \cup (128 .. 255)
    [] e = "E_8NoHiCtrl" -> (0 .. 31) \cup (128 .. 159)
    [] e = "E_8NoCtrl" -> 0 .. 31
    [] e = "E_8NoX" -> LowX
    [] e = "E_8NoHiX" -> LowX \cup HighX
    [] e = "E_Explicit" -> Escaped
    [] e = "E_8Bit" -> {}

(* Blocks reach the other end as they were if both ends use the same       *)
(* option, whatever block came before, without a character the line may    *)
(* not pass and without the ^X that would end the session.                 *)
Understands(sender, receiver, blocks) ==
  \A b \in blocks :
    LET chars == Encoded(sender, b)
        r == Decoded(receiver, Decoded(receiver, Aligned, chars), chars)
    IN /\ r.out = b \o b
       /\ \A i \in DOMAIN chars : chars[i] \notin {CtlX} \cup Unsafe(sender)
=============================================================================
