------------------------------- MODULE Numbers -------------------------------
(***************************************************************************)
(* Numbers as the card keeps them: bytes, the most significant first, the  *)
(* significant ones on the right of a block of fixed size; and the         *)
(* arithmetic of the card on them, as the adaptors do it.                  *)
(***************************************************************************)
EXTENDS Integers, Sequences

CONSTANTS Base   \* the values of a byte

ASSUME BaseAssumption == Base \in Nat \ {0, 1}

Byte       == 0..(Base - 1)
Block(n)   == [1..n -> Byte]
Zeros(n)   == [i \in 1..n |-> 0]

Value(bytes) ==
  LET v[i \in 0..Len(bytes)] == IF i = 0 THEN 0 ELSE v[i - 1] * Base + bytes[i]
  IN  v[Len(bytes)]

\* The n least significant bytes of a number.
Digits(number, n) ==
  LET shifted[i \in 0..n] == IF i = 0 THEN number ELSE shifted[i - 1] \div Base
  IN  [i \in 1..n |-> shifted[n - i] % Base]

Right(block, n)         == SubSeq(block, Len(block) - n + 1, Len(block))
SetRight(block, bytes)  == SubSeq(block, 1, Len(block) - Len(bytes)) \o bytes

\* The bytes on the right of n, with zeros before them.
Aligned(bytes, n)       == SetRight(Zeros(n), bytes)

Distance(m, n) == IF m < n THEN n - m ELSE m - n

-----------------------------------------------------------------------------

\* The end of every function of the adaptor: zeros, then mpz_export.  Of the number 0
\* mpz_export writes nothing, while its size is taken for 1: the last byte stays.
Export(block, number) ==
  IF number = 0 THEN Zeros(Len(block) - 1) \o Right(block, 1) ELSE Digits(number, Len(block))

\* mModularReduction: the result has the size of the modulus, and begins where the operand does.
ModularReduction(operand, modulus) ==
  Export(SubSeq(operand, 1, Len(modulus)), Value(operand) % Value(modulus))
    \o SubSeq(operand, Len(modulus) + 1, Len(operand))

\* What its callers make of it: the size bytes on the right of block, if they are as many as
\* those of the modulus.
Reduced(block, size, modulus) ==
  IF size >= Len(modulus) THEN SetRight(block, ModularReduction(Right(block, size), modulus))
                          ELSE block

\* mBlockMultiply writes the product over block.
BlockMultiply(block, m, n)  == Export(block, Value(m) * Value(n))

\* mBlockSubtract writes the difference over block; mpz_export has no sign.
BlockSubtract(block, m, n)  == Export(block, Distance(Value(m), Value(n)))
=============================================================================
