----------------------------- MODULE StructPack -----------------------------
(***************************************************************************)
(* Fixed-width little-endian integers, as struct.pack("<...") writes them  *)
(* in src/tools/icons/mkicons.py and as the bundle layout reads them back. *)
(*                                                                         *)
(* A byte is a digit in base ByteBase.  The program has ByteBase = 256; a  *)
(* model may take a smaller base, which scales every width-derived limit   *)
(* with it (a 2-byte field holds 0 .. ByteBase^2 - 1, a 4-byte field       *)
(* 0 .. ByteBase^4 - 1) and so brings the overflow of a field within reach *)
(* of small images.                                                        *)
(***************************************************************************)
EXTENDS Naturals, Sequences, SequencesExt

CONSTANT ByteBase
ASSUME ByteBaseIsABase == ByteBase \in Nat /\ ByteBase >= 2

Byte == 0 .. (ByteBase - 1)

(***************************************************************************)
(* struct.pack raises struct.error when a value needs more than n bytes.   *)
(* The test looks at the digit above the field instead of comparing with   *)
(* ByteBase^n, so that it can be evaluated for ByteBase = 256 and n = 4.   *)
(***************************************************************************)
Fits(v, n) == v \div (ByteBase ^ (n - 1)) < ByteBase

\* The n bytes of v, least significant first ("<").
PackLE(v, n) == [k \in 1 .. n |-> (v \div (ByteBase ^ (k - 1))) % ByteBase]

\* The value a little-endian byte string stands for.
UnpackLE(bytes) == FoldRight(LAMBDA b, acc : b + ByteBase * acc, bytes, 0)

\* The n-byte field that starts after the first `at` bytes of buf.
Field(buf, at, n) == UnpackLE(SubSeq(buf, at + 1, at + n))
=============================================================================
