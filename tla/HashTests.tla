------------------------------ MODULE HashTests ------------------------------
(***************************************************************************)
(* The three tests of "the hash starts with n zeros": on bytes             *)
(* (hash_starts_n_zeroes) and on hexadecimal digits (hex_starts_n_zeroes)  *)
(* in src/util.rs, and on two words under a mask in the OpenCL kernel.     *)
(*                                                                         *)
(* A hash is its hexadecimal digits in the order they are printed.  The    *)
(* kernel sees the same bytes as little-endian words: nibble 0 of a word   *)
(* is the SECOND digit of its first byte.                                  *)
(*                                                                         *)
(* The state is what the OpenCL miner keeps of the difficulty: the number  *)
(* of zeros and the mask made from it, both renewed when there is mail.    *)
(***************************************************************************)
EXTENDS Integers

CONSTANTS
  WordDigits,  \* digits of a word (8)
  Digits,      \* the digits hashes are made of (0..15)
  Difficulties \* below 16, all that get_difficulty itself lets through.  The last-coin
               \* thread stores any, and 16 make the shift in the mask overflow.

ASSUME HashConstants ==
  /\ WordDigits \in {4, 8} /\ Digits \subseteq 0..15
  /\ Difficulties \subseteq 0..(2 * WordDigits - 1)

VARIABLES num_zeros, hash_word2_mask

difficultyVars == <<num_zeros, hash_word2_mask>>

\* The first two words of a hash; none of the difficulties looks further.
Hash == [0..(2 * WordDigits - 1) -> Digits]
Byte(h, i) == 16 * h[2 * i] + h[2 * i + 1]

\* The half byte an odd n ends with.  Mutant: the other half of that byte.
LowNibble(b) == b % 16
HighNibble(b) == b \div 16

HashStartsNZeroes(h, n) ==
  /\ \A i \in 0..(n \div 2 - 1) : Byte(h, i) = 0
  /\ n % 2 = 1 => HighNibble(Byte(h, n \div 2)) = 0

HexStartsNZeroes(h, n) == \A d \in 0..(n - 1) : h[d] = 0

-----------------------------------------------------------------------------
\* The digit that is nibble k of word w.
DigitAt(w, k) == w * WordDigits + 2 * (k \div 2) + (1 - (k % 2))

\* The nibbles of the second word that num_zeros_to_word2_mask covers.  In a
\* release build the difference wraps below the word and a shift takes its amount
\* modulo the word, so that both come out modulo WordDigits.  Mutant: the half
\* byte is masked in the order of the digits.
MaskInOrder(nz) ==
  LET e == (nz - (nz % 2) - WordDigits) % WordDigits
  IN  0..(e - 1) \cup IF nz % 2 = 0 THEN {} ELSE {e}
Mask(nz) ==
  LET e == (nz - (nz % 2) - WordDigits) % WordDigits
  IN  0..(e - 1) \cup IF nz % 2 = 0 THEN {} ELSE {e + 1}

\* The kernel's test: md5_state_2[0] == 0 && (md5_state_2[1] & word2_mask) == 0.
KernelTest(h, mask) ==
  /\ \A k \in 0..(WordDigits - 1) : h[DigitAt(0, k)] = 0
  /\ \A k \in mask : h[DigitAt(1, k)] = 0

-----------------------------------------------------------------------------
BootDifficulty ==
  /\ num_zeros \in Difficulties
  /\ hash_word2_mask = Mask(num_zeros)

\* There is a new difficulty in the mailbox.
TakeDifficulty ==
  /\ num_zeros' \in Difficulties
  /\ hash_word2_mask' = Mask(num_zeros')

DifficultySpec == BootDifficulty /\ [][TakeDifficulty]_difficultyVars

-----------------------------------------------------------------------------
\* The test on bytes, which the manager and the CPU miners use, and the one on
\* digits, which the fake tracker applies to the same hash, agree for even
\* and odd numbers of zeros.
TestsAgree ==
  \A h \in Hash : HashStartsNZeroes(h, num_zeros) <=> HexStartsNZeroes(h, num_zeros)

\* Below 16 zeros the kernel reports no hash that has too few, not even below 8,
\* where the subtraction in the mask underflows; and from 8 on it misses none,
\* whatever difficulties came before.
MaskExact ==
  \A h \in Hash :
    /\ KernelTest(h, hash_word2_mask) => HashStartsNZeroes(h, num_zeros)
    /\ num_zeros >= WordDigits /\ HashStartsNZeroes(h, num_zeros) =>
         KernelTest(h, hash_word2_mask)
=============================================================================
