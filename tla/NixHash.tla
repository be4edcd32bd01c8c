------------------------------ MODULE NixHash ------------------------------
(***************************************************************************)
(* The hash of a narinfo against that of an archive (hash.js).  A text is  *)
(* a sequence of digits, NotADigit for a character outside the alphabet.   *)
(* Base64 is the browser's atob and left out, and SHA-256 the browser's.   *)
(***************************************************************************)
EXTENDS Integers, Sequences, SequencesExt

CONSTANTS
    ByteBits,   \* BITS_PER_BYTE, an even number
    DigitBits,  \* BITS_PER_DIGIT of nix's base 32
    Size,       \* DIGEST_SIZES.sha256, in bytes
    Fields      \* texts a NarHash may have

ASSUME HashAssumption ==
    /\ {ByteBits, DigitBits, Size} \subseteq Nat \ {0}
    /\ DigitBits < ByteBits /\ ByteBits % 2 = 0

NotADigit == -1
Refused == <<>>

HexLength == 2 * Size
Base32Length == (Size * ByteBits + DigitBits - 1) \div DigitBits

\* Mutant: what spills over the end of a byte is lost.
AddDigitNoCarry(bytes, n, digit) ==
    LET i == (n * DigitBits) \div ByteBits
        j == (n * DigitBits) % ByteBits
        carry == digit \div 2^(ByteBits - j) IN
    IF bytes = Refused \/ digit = NotADigit \/ (i >= Size - 1 /\ carry # 0) THEN Refused
    ELSE [k \in DOMAIN bytes |->
            IF k = i + 1 THEN bytes[k] + ((digit * 2^j) % 2^ByteBits) ELSE bytes[k]]

\* Digit n from the end goes in at bit n * DigitBits and spills into the
\* next byte; no two digits share a bit, so the sum is the code's "or".
AddDigit(bytes, n, digit) ==
    LET i == (n * DigitBits) \div ByteBits
        j == (n * DigitBits) % ByteBits
        carry == digit \div 2^(ByteBits - j) IN
    IF bytes = Refused \/ digit = NotADigit \/ (i >= Size - 1 /\ carry # 0) THEN Refused
    ELSE [k \in DOMAIN bytes |->
            CASE k = i + 1 -> bytes[k] + ((digit * 2^j) % 2^ByteBits)
              [] k = i + 2 -> bytes[k] + carry
              [] OTHER -> bytes[k]]

DecodeNixBase32(text) ==
    FoldLeft(LAMBDA bytes, n : AddDigit(bytes, n, text[Len(text) - n]),
             [k \in 1..Size |-> 0],
             [n \in 1..Len(text) |-> n - 1])

\* parseInt reads as far as there are digits: one that is none refuses the
\* text where it comes first in its byte, and is dropped where it comes last.
DecodeHex(text) ==
    LET half == 2^(ByteBits \div 2)
        first(k) == text[2 * k - 1]
        last(k) == text[2 * k] IN
    IF \E k \in 1..Size : first(k) = NotADigit THEN Refused
    ELSE [k \in 1..Size |->
            IF last(k) = NotADigit THEN first(k) ELSE first(k) * half + last(k)]

\* The length names the encoding.
ParseHash(text) ==
    CASE Len(text) = HexLength -> DecodeHex(text)
      [] Len(text) = Base32Length -> DecodeNixBase32(text)
      [] OTHER -> Refused
-----------------------------------------------------------------------------
\* verifyHash: the digest is SHA-256 of the archive, where the browser has
\* it; a text that does not parse throws, but not where nobody looks at it.
VerifyHash(text, digest, hashes) ==
    CASE ~hashes -> "null"
      [] hashes /\ ParseHash(text) = Refused -> "throws"
      [] OTHER -> IF ParseHash(text) = digest THEN "true" ELSE "false"
-----------------------------------------------------------------------------
\* The number a text stands for, as nix defines its encoding: the text is a
\* numeral in base 2^DigitBits, the digest the same number, low byte first;
\* in hexadecimal, half a byte to a digit, the bytes are in the text's order.
ValueOf(digits, base) == FoldLeft(LAMBDA v, d : v * base + d, 0, digits)

Names(text, digest) ==
    IF Len(text) = HexLength
    THEN ValueOf(text, 2^(ByteBits \div 2)) = ValueOf(digest, 2^ByteBits)
    ELSE ValueOf(text, 2^DigitBits) = ValueOf(Reverse(digest), 2^ByteBits)

Hashes == [1..Size -> 0..2^ByteBits - 1]

\* Whether the answers are right, in a browser that hashes and in one that
\* does not.  An archive passes if and only if its hash is the number the
\* text is, in either encoding, and what is no number never passes, but for
\* what parseInt makes of it.
AnswersRight ==
    [hashes \in BOOLEAN |->
        \A text \in Fields : \A digest \in Hashes :
            LET answer == VerifyHash(text, digest, hashes) IN
            CASE ~hashes -> answer = "null"
              [] hashes /\ Contains(text, NotADigit) ->
                    Len(text) = HexLength \/ answer = "throws"
              [] OTHER ->
                    answer = "true" <=>
                        Len(text) \in {HexLength, Base32Length} /\ Names(text, digest)]
=============================================================================
