--------------------------- MODULE HashTestsProofs ---------------------------
(***************************************************************************)
(* The three tests of HashTests agree, for words of four and eight digits  *)
(* and any hash: the correspondence of bytes, nibbles and digits, and the  *)
(* mask, which is always the current difficulty's.                         *)
(***************************************************************************)
EXTENDS HashTests, TLAPS

\* A byte is zero exactly if both of its digits are.
LEMMA ByteZero ==
  ASSUME NEW h \in Hash, NEW i \in 0..(WordDigits - 1)
  PROVE  /\ Byte(h, i) = 0 <=> h[2 * i] = 0 /\ h[2 * i + 1] = 0
         /\ HighNibble(Byte(h, i)) = h[2 * i]
<1>1. 2 * i \in 0..(2 * WordDigits - 1) /\ 2 * i + 1 \in 0..(2 * WordDigits - 1)
  BY HashConstants
<1>2. h[2 * i] \in 0..15 /\ h[2 * i + 1] \in 0..15
  BY <1>1, HashConstants DEF Hash
<1> QED  BY <1>2 DEF Byte, HighNibble

\* Both tests look at the same digits, whether the number of zeros ends in the
\* middle of a byte or not.
LEMMA BytesAreDigits ==
  ASSUME NEW h \in Hash, NEW n \in 0..(2 * WordDigits - 1)
  PROVE  HashStartsNZeroes(h, n) <=> HexStartsNZeroes(h, n)
<1>0. n \in Nat /\ WordDigits \in Nat /\ n \div 2 \in Nat /\ n \div 2 < WordDigits
  BY HashConstants
<1>1. ASSUME HashStartsNZeroes(h, n), NEW d \in 0..(n - 1)
      PROVE  h[d] = 0
  <2>1. CASE d \div 2 \in 0..(n \div 2 - 1)
    <3>1. Byte(h, d \div 2) = 0 /\ d \div 2 \in 0..(WordDigits - 1)
      BY <1>0, <1>1, <2>1 DEF HashStartsNZeroes
    <3>2. h[2 * (d \div 2)] = 0 /\ h[2 * (d \div 2) + 1] = 0
      BY <3>1, ByteZero
    <3>3. d = 2 * (d \div 2) \/ d = 2 * (d \div 2) + 1
      OBVIOUS
    <3> QED  BY <3>2, <3>3
  <2>2. CASE d \div 2 \notin 0..(n \div 2 - 1)
    <3>1. n % 2 = 1 /\ d = 2 * (n \div 2)
      BY <1>0, <2>2
    <3>2. h[2 * (n \div 2)] = 0
      BY <1>0, <1>1, <3>1, ByteZero DEF HashStartsNZeroes
    <3> QED  BY <3>1, <3>2
  <2> QED  BY <2>1, <2>2
<1>2. ASSUME HexStartsNZeroes(h, n)
      PROVE  HashStartsNZeroes(h, n)
  <2>1. ASSUME NEW i \in 0..(n \div 2 - 1) PROVE Byte(h, i) = 0
    <3>1. 2 * i \in 0..(n - 1) /\ 2 * i + 1 \in 0..(n - 1) /\ i \in 0..(WordDigits - 1)
      BY <1>0
    <3> QED  BY <1>2, <3>1, ByteZero DEF HexStartsNZeroes
  <2>2. ASSUME n % 2 = 1 PROVE HighNibble(Byte(h, n \div 2)) = 0
    <3>1. 2 * (n \div 2) \in 0..(n - 1) /\ n \div 2 \in 0..(WordDigits - 1)
      BY <1>0, <2>2
    <3> QED  BY <1>2, <3>1, ByteZero DEF HexStartsNZeroes
  <2> QED  BY <2>1, <2>2 DEF HashStartsNZeroes
<1> QED  BY <1>1, <1>2 DEF HexStartsNZeroes

-----------------------------------------------------------------------------
\* The first word of the kernel's test looks at the first digits, in whatever
\* order.
LEMMA FirstWord ==
  ASSUME NEW h \in Hash
  PROVE  (\A k \in 0..(WordDigits - 1) : h[DigitAt(0, k)] = 0)
           <=> \A d \in 0..(WordDigits - 1) : h[d] = 0
<1>1. \A k \in 0..(WordDigits - 1) : DigitAt(0, k) \in 0..(WordDigits - 1)
  BY HashConstants DEF DigitAt
<1>2. \A d \in 0..(WordDigits - 1) : \E k \in 0..(WordDigits - 1) : d = DigitAt(0, k)
  <2> TAKE d \in 0..(WordDigits - 1)
  <2>1. 2 * (d \div 2) + (1 - (d % 2)) \in 0..(WordDigits - 1)
    BY HashConstants
  <2>2. d = DigitAt(0, 2 * (d \div 2) + (1 - (d % 2)))
    BY HashConstants DEF DigitAt
  <2> QED  BY <2>1, <2>2
<1> QED  BY <1>1, <1>2

\* The mask of the digits after them, for the difficulties it is meant for.
LEMMA SecondWord ==
  ASSUME NEW nz \in WordDigits..(2 * WordDigits - 1), NEW d \in Nat
  PROVE  (d \in WordDigits..(nz - 1)) <=> \E k \in Mask(nz) : d = DigitAt(1, k)
<1> DEFINE e == nz - (nz % 2) - WordDigits
<1>1. Mask(nz) = 0..(e - 1) \cup IF nz % 2 = 0 THEN {} ELSE {e + 1}
  BY HashConstants DEF Mask
<1>2. e \in Nat /\ e % 2 = 0 /\ nz % 2 \in {0, 1} /\ nz = e + (nz % 2) + WordDigits
  BY HashConstants
<1> HIDE DEF e
<1>3. ASSUME d \in WordDigits..(nz - 1)
      PROVE  \E k \in Mask(nz) : d = DigitAt(1, k)
  <2> DEFINE c == d - WordDigits
             k == 2 * (c \div 2) + (1 - (c % 2))
  <2>1. c \in Nat /\ d = c + WordDigits
    BY <1>3, HashConstants
  <2>2. d = DigitAt(1, k) /\ k \in Nat
    BY <2>1, HashConstants DEF DigitAt
  <2>3. k \in Mask(nz)
    BY <1>1, <1>2, <1>3, <2>1, HashConstants
  <2> QED  BY <2>2, <2>3
<1>4. ASSUME NEW k \in Mask(nz)
      PROVE  DigitAt(1, k) \in WordDigits..(nz - 1)
  <2>1. k \in 0..(e - 1) \/ (nz % 2 = 1 /\ k = e + 1)
    BY <1>1, <1>2
  <2> QED  BY <1>2, <2>1, HashConstants DEF DigitAt
<1> QED  BY <1>3, <1>4

\* The mask of a difficulty against the test on bytes.
LEMMA MaskOfDifficulty ==
  ASSUME NEW h \in Hash, NEW nz \in 0..(2 * WordDigits - 1)
  PROVE  /\ KernelTest(h, Mask(nz)) => HashStartsNZeroes(h, nz)
         /\ nz >= WordDigits /\ HashStartsNZeroes(h, nz) => KernelTest(h, Mask(nz))
<1>1. HashStartsNZeroes(h, nz) <=> \A d \in 0..(nz - 1) : h[d] = 0
  BY BytesAreDigits DEF HexStartsNZeroes
<1>2. CASE nz < WordDigits
  <2>1. KernelTest(h, Mask(nz)) => \A d \in 0..(WordDigits - 1) : h[d] = 0
    BY FirstWord DEF KernelTest
  <2> QED  BY <1>1, <1>2, <2>1, HashConstants
<1>3. CASE nz >= WordDigits
  <2>1. (\A k \in Mask(nz) : h[DigitAt(1, k)] = 0)
          <=> \A d \in WordDigits..(nz - 1) : h[d] = 0
    <3>1. nz \in WordDigits..(2 * WordDigits - 1)
      BY <1>3, HashConstants
    <3>2. \A k \in Mask(nz) : DigitAt(1, k) \in Nat
      BY <3>1, HashConstants DEF Mask, DigitAt
    <3> QED  BY <3>1, <3>2, SecondWord, HashConstants
  <2>2. (\A d \in 0..(nz - 1) : h[d] = 0)
          <=> /\ \A d \in 0..(WordDigits - 1) : h[d] = 0
              /\ \A d \in WordDigits..(nz - 1) : h[d] = 0
    BY <1>3, HashConstants
  <2> QED  BY <1>1, <2>1, <2>2, FirstWord DEF KernelTest
<1> QED  BY <1>2, <1>3, HashConstants

-----------------------------------------------------------------------------
\* The mask is always the one of the difficulty the miner holds.
MaskCurrent == num_zeros \in Difficulties /\ hash_word2_mask = Mask(num_zeros)

LEMMA MaskStaysCurrent == DifficultySpec => []MaskCurrent
<1>1. BootDifficulty => MaskCurrent
  BY DEF BootDifficulty, MaskCurrent
<1>2. MaskCurrent /\ [TakeDifficulty]_difficultyVars => MaskCurrent'
  BY DEF MaskCurrent, TakeDifficulty, difficultyVars, Mask
<1> QED  BY <1>1, <1>2, PTL DEF DifficultySpec

\* hash_starts_n_zeroes and hex_starts_n_zeroes accept the same hashes at every
\* difficulty a miner ever holds.
THEOREM TestsOnBytesAndDigitsAgree == DifficultySpec => []TestsAgree
<1>1. MaskCurrent => TestsAgree
  BY BytesAreDigits, HashConstants DEF MaskCurrent, TestsAgree
<1> QED  BY <1>1, MaskStaysCurrent, PTL

\* Below 16 zeros the mask in use lets the kernel report no wrong hash, and from 8
\* on it loses no right one, whatever sequence of difficulties led there.
THEOREM MaskIsExact == DifficultySpec => []MaskExact
<1>1. MaskCurrent => MaskExact
  BY MaskOfDifficulty, HashConstants DEF MaskCurrent, MaskExact
<1> QED  BY <1>1, MaskStaysCurrent, PTL
=============================================================================
