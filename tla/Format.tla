------------------------------- MODULE Format -------------------------------
(***************************************************************************)
(* Text (sys/lib/strfuncs.c, strlcpy.c).  Characters are numbers, NUL is   *)
(* 0; a format is a sequence of pieces, literal characters and             *)
(* conversions with their arguments.                                       *)
(***************************************************************************)
EXTENDS Integers, Sequences, SequencesExt

CONSTANTS NWords   \* 2^32

ASSUME FormatAssumption == NWords \in Nat \ {0} /\ NWords % 2 = 0

NUL == 0
NL == 1
Minus == 2
Digit(d) == 10 + d

\* A word as an int.
Signed(word) == IF word < NWords \div 2 THEN word ELSE word - NWords

\* The digits of a word, the last one first, in the order of itoa's loop.
Backwards(word, divisor) ==
  LET digits[u \in 0 .. word] ==
        IF u < divisor THEN <<Digit(u)>>
        ELSE <<Digit(u % divisor)>> \o digits[u \div divisor]
  IN digits[word]

\* Mutant: the sign is turned round with the digits.
itoa_sign_turned(base, d) ==
  LET negative == base = "d" /\ d < 0
      ud == (IF negative THEN -d ELSE d) % NWords
      divisor == IF base = "x" THEN 16 ELSE 10
  IN Reverse((IF negative THEN <<Minus>> ELSE <<>>) \o Backwards(ud, divisor))

\* itoa.  The most negative number is its own negation, and right as a word.
itoa(base, d) ==
  LET negative == base = "d" /\ d < 0
      ud == (IF negative THEN -d ELSE d) % NWords
      divisor == IF base = "x" THEN 16 ELSE 10
  IN (IF negative THEN <<Minus>> ELSE <<>>) \o Reverse(Backwards(ud, divisor))

\* strlcpy to buf from position at on: as much as fits, and the terminator.
strlcpy(buf, at, s, siz) ==
  LET n == IF Len(s) < siz THEN Len(s) ELSE siz - 1
  IN [i \in at .. at + n |-> IF i < at + n THEN s[i - at + 1] ELSE NUL] @@ buf

\* What a conversion copies.  %u goes through an int as %d does.
Converted(piece) ==
  CASE piece.kind = "s" -> piece.arg
    [] piece.kind = "d" -> itoa("d", piece.arg)
    [] piece.kind = "u" -> itoa("d", Signed(piece.arg))
    [] piece.kind = "x" -> itoa("x", Signed(piece.arg))

\* The buffer after a piece is put at out.
Piece(buf, out, piece, maxlen) ==
  IF piece.kind = "c" THEN [buf EXCEPT ![out] = piece.arg]
  ELSE strlcpy(buf, out, Converted(piece), maxlen - out)

\* k_snprintf_vaarg, the buffer after it.  No piece is put when the output is
\* full; a conversion advances by its whole length, however much of it was
\* copied.  (The function also clears the byte before its output, which is not
\* the buffer's.)
k_snprintf(buf, maxlen, format) ==
  LET width == [n \in DOMAIN format |->
                  IF format[n].kind = "c" THEN 1 ELSE Len(Converted(format[n]))]
      out[n \in 0 .. Len(format)] == IF n = 0 THEN 0 ELSE out[n - 1] + width[n]
      put[n \in 0 .. Len(format)] ==
        IF n = 0 THEN buf
        ELSE IF out[n - 1] >= maxlen THEN put[n - 1]
        ELSE Piece(put[n - 1], out[n - 1], format[n], maxlen)
      end == out[Len(format)]
  IN IF end < maxlen THEN [put[Len(format)] EXCEPT ![end] = NUL] ELSE put[Len(format)]

\* strstr: whether needle, which is not empty, is found.
strstr(haystack, needle) ==
  \E i \in DOMAIN haystack :
    /\ haystack[i] = needle[1]
    /\ IsPrefix(needle, SubSeq(haystack, i, Len(haystack)))

-----------------------------------------------------------------------------
\* The text that a format stands for, by the values of its numbers.
Places(n, b) == CHOOSE m \in 1 .. n + 1 : b^m > n /\ (m = 1 \/ b^(m - 1) <= n)
Numeral(n, b) ==
  LET m == Places(n, b) IN [i \in 1 .. m |-> Digit((n \div b^(m - i)) % b)]

Meaning(piece) ==
  CASE piece.kind = "c" -> <<piece.arg>>
    [] piece.kind = "s" -> piece.arg
    [] piece.kind = "d" -> IF piece.arg < 0 THEN <<Minus>> \o Numeral(-piece.arg, 10)
                                            ELSE Numeral(piece.arg, 10)
    [] piece.kind = "u" -> Numeral(piece.arg, 10)
    [] piece.kind = "x" -> Numeral(piece.arg, 16)

Text(format) == FoldLeft(LAMBDA text, piece : text \o Meaning(piece), <<>>, format)

\* What of it a buffer of maxlen bytes can hold.
Cut(format, maxlen) ==
  LET t == Text(format) IN SubSeq(t, 1, IF Len(t) < maxlen THEN Len(t) ELSE maxlen - 1)
=============================================================================
