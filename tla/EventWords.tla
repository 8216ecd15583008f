----------------------------- MODULE EventWords -----------------------------
(***************************************************************************)
(* The words of an event as service/evm.go reads them.  A word is a        *)
(* sequence of bytes, the first one the most significant; a signed amount  *)
(* is in two's complement.                                                 *)
(***************************************************************************)
EXTENDS Integers, Sequences, SequencesExt

CONSTANT Base      \* values of a byte: 256

ASSUME BaseAssumption == Base \in {2 * n : n \in 1..128}

Words(len) == [1..len -> 0..(Base - 1)]

\* big.Int.SetBytes: the value of the bytes, which is never negative.
SetBytes(d) == FoldLeft(LAMBDA value, byte : Base * value + byte, 0, d)

\* d[0] & 0x80: the sign of the word.
Negative(d) == 2 * d[1] >= Base
Complement(d) == [i \in DOMAIN d |-> Base - 1 - d[i]]

\* The amount that left the pool: what is not negative counts for nothing.
absBytes(d) == IF Negative(d) THEN SetBytes(Complement(d)) + 1 ELSE 0

\* The tick with its sign.
flagBytes(d) == IF Negative(d) THEN -(SetBytes(Complement(d)) + 1) ELSE SetBytes(d)

\* cutErrorString: the text between the places of <title> and </title>, or the whole.
\* A place is -1 when the tag is missing.
TagLength == 7
CutErrorString(len, open, close) ==
    LET bi == open + TagLength IN
    IF len > bi /\ len > close /\ bi < close THEN <<bi, close>> ELSE <<0, len>>
-----------------------------------------------------------------------------
\* What they should be: the value of a word in two's complement.
Power(n) == FoldLeft(LAMBDA value, byte : Base * value, 1, [i \in 1..n |-> 0])
Signed(d) == IF Negative(d) THEN SetBytes(d) - Power(Len(d)) ELSE SetBytes(d)

\* flagBytes is the value; absBytes is how much the value is below zero.
WordsRead(len) ==
    \A d \in Words(len) :
        /\ flagBytes(d) = Signed(d)
        /\ absBytes(d) = IF Signed(d) < 0 THEN -Signed(d) ELSE 0

\* The cut never leaves the text, and with both tags it is what they enclose.
CutInRange(len) ==
    \A open, close \in -1..(len - TagLength) :
        LET cut == CutErrorString(len, open, close) IN
        /\ 0 <= cut[1] /\ cut[1] <= cut[2] /\ cut[2] <= len
        /\ open >= 0 /\ open + TagLength < close => cut = <<open + TagLength, close>>
=============================================================================
