--------------------------- MODULE OclKernelProofs ---------------------------
(***************************************************************************)
(* What a kernel run reports, for any number of work items, loops and blob *)
(* words: the race for params_out loses no run's hit, and a single report  *)
(* is rebuilt exactly, except where the two changes of the blob meet.      *)
(***************************************************************************)
EXTENDS OclKernel, TLAPS

\* A work item that is writing reports the message it stands at.
Pending ==
  \A id \in Items : todo[id] # {} => at[id][1] < N_LOOPS /\ Here(id) \in writers

\* No item reports twice, because it sees its own report.
OneReport == \A v, w \in writers : v[1] = w[1] => v = w

\* A word is empty until the first report's word arrives.
Words ==
  \A k \in 1..3 :
    \/ params_out[k] = Empty /\ \A w \in writers : k \in todo[w[1]]
    \/ \E w \in writers : params_out[k] = w[k] /\ k \notin todo[w[1]]

\* A hit is reported or comes after a report.
Found == hits # {} => writers # {}

Inv == TypeOK /\ Pending /\ OneReport /\ Words /\ Found

LEMMA HereIsHit ==
  ASSUME TypeOK, NEW id \in Items, at[id][1] < N_LOOPS
  PROVE  Here(id) \in Hit /\ Here(id)[1] = id
BY KernelConstants DEF TypeOK, Here, Hit

LEMMA HitsAreWords ==
  ASSUME NEW w \in Hit, NEW k \in 1..3
  PROVE  w[k] \in Nat /\ w[k] # Empty /\ w[1] \in Items
BY KernelConstants DEF Hit, Items, Empty

LEMMA NextMessageType ==
  ASSUME NEW p \in (0..(N_LOOPS - 1)) \X (0..(N_LOOPS_2 - 1))
  PROVE  /\ NextMessage(p) \in (0..N_LOOPS) \X (0..(N_LOOPS_2 - 1))
         /\ <<p[1] + 1, 0>> \in (0..N_LOOPS) \X (0..(N_LOOPS_2 - 1))
BY KernelConstants DEF NextMessage

LEMMA InitInv == Init => Inv
BY KernelConstants
   DEF Init, Inv, TypeOK, Pending, OneReport, Words, Found, Empty, Items, BlobWords

LEMMA NextInv == Inv /\ [Next]_vars => Inv'
<1> SUFFICES ASSUME Inv, [Next]_vars PROVE Inv'
  OBVIOUS
<1> USE DEF Inv
<1>1. ASSUME NEW id \in Items, Miss(id) PROVE Inv'
  <2>1. at[id] \in (0..(N_LOOPS - 1)) \X (0..(N_LOOPS_2 - 1))
    BY <1>1, KernelConstants DEF TypeOK, Miss, Scanning
  <2>2. TypeOK'
    BY <1>1, <2>1, NextMessageType DEF TypeOK, Miss
  <2>3. Pending'
    BY <1>1, KernelConstants DEF TypeOK, Pending, Miss, Scanning, Here
  <2>4. OneReport' /\ Words' /\ Found'
    BY <1>1 DEF OneReport, Words, Found, Miss, Empty
  <2> QED  BY <2>2, <2>3, <2>4
<1>2. ASSUME NEW id \in Items, HitTooLate(id) PROVE Inv'
  <2>1. at[id] \in (0..(N_LOOPS - 1)) \X (0..(N_LOOPS_2 - 1))
    BY <1>2, KernelConstants DEF TypeOK, HitTooLate, Scanning
  <2>2. Here(id) \in Hit
    BY <1>2, HereIsHit DEF HitTooLate, Scanning
  <2>3. TypeOK'
    BY <1>2, <2>1, <2>2, NextMessageType DEF TypeOK, HitTooLate
  <2>4. Pending'
    BY <1>2, KernelConstants DEF TypeOK, Pending, HitTooLate, Scanning, Here
  <2>5. writers # {}
    BY <1>2 DEF Words, HitTooLate
  <2>6. OneReport' /\ Words' /\ Found'
    BY <1>2, <2>5 DEF OneReport, Words, Found, HitTooLate, Empty
  <2> QED  BY <2>3, <2>4, <2>6
<1>3. ASSUME NEW id \in Items, HitFirst(id) PROVE Inv'
  <2> DEFINE h == Here(id)
  <2>1. h \in Hit /\ h[1] = id
    BY <1>3, HereIsHit DEF HitFirst, Scanning
  <2> HIDE DEF h
  <2>2. /\ todo[id] = {} /\ at[id][1] < N_LOOPS
        /\ hits' = hits \cup {h} /\ writers' = writers \cup {h}
        /\ todo' = [todo EXCEPT ![id] = 1..3]
        /\ UNCHANGED <<r0, r1, at, params_out>>
    BY <1>3 DEF HitFirst, Scanning, h
  <2>3. \A w \in writers : w[1] # id
    <3>1. CASE params_out[1] = Empty
      BY <2>2, <3>1, HitsAreWords DEF Words, TypeOK
    <3>2. CASE params_out[1] # Empty
      BY <1>3, <3>2 DEF HitFirst, ReadsEmpty
    <3> QED  BY <3>1, <3>2
  <2>4. TypeOK'
    BY <2>1, <2>2 DEF TypeOK
  <2>5. Pending'
    BY <2>2 DEF TypeOK, Pending, Here, h
  <2>6. OneReport'
    BY <2>1, <2>2, <2>3 DEF OneReport
  <2>7. \A w \in writers : w[1] \in Items /\ todo'[w[1]] = todo[w[1]]
    BY <2>2, <2>3, HitsAreWords DEF TypeOK
  <2>8. todo'[h[1]] = 1..3
    BY <2>1, <2>2 DEF TypeOK
  <2>9. Words'
    BY <2>2, <2>7, <2>8 DEF Words, Empty
  <2>10. Found'
    BY <2>2 DEF Found
  <2> QED  BY <2>4, <2>5, <2>6, <2>9, <2>10
<1>4. ASSUME NEW id \in Items, WriteWord(id) PROVE Inv'
  <2>1. PICK k \in todo[id] :
          /\ params_out' = [params_out EXCEPT ![k] = Here(id)[k]]
          /\ todo' = [todo EXCEPT ![id] = @ \ {k}]
          /\ at' = IF todo[id] = {k} THEN [at EXCEPT ![id] = <<@[1] + 1, 0>>] ELSE at
    BY <1>4 DEF WriteWord
  <2>2. UNCHANGED <<r0, r1, hits, writers>>
    BY <1>4 DEF WriteWord
  <2> DEFINE h == Here(id)
  <2>3. k \in 1..3 /\ at[id][1] < N_LOOPS /\ h \in writers
    BY <2>1 DEF TypeOK, Pending
  <2>4. h \in Hit /\ h[1] = id
    BY <2>3, HereIsHit
  <2>5. at[id] \in (0..(N_LOOPS - 1)) \X (0..(N_LOOPS_2 - 1))
    BY <2>3, KernelConstants DEF TypeOK
  <2> HIDE DEF h
  <2>6. TypeOK'
    <3>1. at' \in [Items -> (0..N_LOOPS) \X (0..(N_LOOPS_2 - 1))]
      BY <2>1, <2>5, NextMessageType DEF TypeOK
    <3>2. params_out' \in [1..3 -> Nat]
      BY <2>1, <2>3, <2>4, HitsAreWords DEF TypeOK, h
    <3>3. todo' \in [Items -> SUBSET (1..3)]
      BY <2>1 DEF TypeOK
    <3> QED  BY <2>2, <3>1, <3>2, <3>3 DEF TypeOK
  <2>7. Pending'
    <3> SUFFICES ASSUME NEW i \in Items, todo'[i] # {}
                 PROVE  at'[i][1] < N_LOOPS /\ Here(i)' \in writers'
      BY DEF Pending
    <3>1. todo[i] # {} /\ at'[i] = at[i]
      BY <2>1 DEF TypeOK
    <3> QED  BY <2>2, <3>1 DEF Pending, Here
  <2>8. OneReport' /\ Found'
    BY <2>2 DEF OneReport, Found
  <2>9. Words'
    <3> SUFFICES ASSUME NEW n \in 1..3
                 PROVE  \/ params_out'[n] = Empty /\ \A w \in writers : n \in todo'[w[1]]
                        \/ \E w \in writers : params_out'[n] = w[n] /\ n \notin todo'[w[1]]
      BY <2>2 DEF Words, Empty
    <3>1. CASE n = k
      <4>1. params_out'[n] = h[n] /\ n \notin todo'[h[1]]
        BY <2>1, <2>3, <2>4, <3>1 DEF TypeOK, h
      <4> QED  BY <2>3, <4>1
    <3>2. CASE n # k
      <4>1. params_out'[n] = params_out[n]
        BY <2>1, <3>2 DEF TypeOK
      <4>2. \A w \in writers : n \in todo'[w[1]] <=> n \in todo[w[1]]
        BY <2>1, <3>2, HitsAreWords DEF TypeOK
      <4> QED  BY <4>1, <4>2 DEF Words
    <3> QED  BY <3>1, <3>2
  <2> QED  BY <2>6, <2>7, <2>8, <2>9
<1>5. ASSUME NextRun PROVE Inv'
  <2>1. \A id \in Items : todo'[id] = {}
    BY <1>5 DEF NextRun, Ended
  <2>2. TypeOK'
    BY <1>5, KernelConstants DEF NextRun, TypeOK, Cleared, Empty
  <2>3. Pending' /\ OneReport' /\ Words' /\ Found'
    BY <1>5, <2>1 DEF NextRun, Cleared, Pending, OneReport, Words, Found, Empty
  <2> QED  BY <2>2, <2>3
<1>6. CASE UNCHANGED vars
  BY <1>6 DEF vars, TypeOK, Pending, OneReport, Words, Found, Here, Empty
<1> QED  BY <1>1, <1>2, <1>3, <1>4, <1>5, <1>6 DEF Next, WorkItem

THEOREM KernelInvariant == Spec => []Inv
<1> QED  BY InitInv, NextInv, PTL DEF Spec

-----------------------------------------------------------------------------
\* The counters, the words and the reports keep their types.
THEOREM KernelTypes == Spec => []TypeOK
<1>1. Inv => TypeOK
  BY DEF Inv
<1> QED  BY <1>1, KernelInvariant, PTL

\* After a run with a hit every word of params_out is some report's.
LEMMA WordsAtEnd ==
  ASSUME Inv, Ended, NEW k \in 1..3, writers # {}
  PROVE  \E w \in writers : params_out[k] = w[k]
<1>1. \A w \in writers : todo[w[1]] = {}
  BY HitsAreWords DEF Inv, TypeOK, Ended
<1> QED  BY <1>1 DEF Inv, Words

\* However the work items overwrite each other's words, a run with a hit reports
\* one, and a run without a hit reports nothing.
THEOREM NoHitMissed == Spec => []HitsReported
<1>1. Inv => HitsReported
  <2> SUFFICES ASSUME Inv, Ended PROVE params_out[1] # Empty <=> hits # {}
    BY DEF HitsReported
  <2>1. ASSUME hits # {} PROVE params_out[1] # Empty
    <3>1. PICK w \in writers : params_out[1] = w[1]
      BY <2>1, WordsAtEnd DEF Inv, Found
    <3> QED  BY <3>1, HitsAreWords DEF Inv, TypeOK
  <2>2. ASSUME params_out[1] # Empty PROVE hits # {}
    BY <2>2 DEF Inv, Words, TypeOK
  <2> QED  BY <2>1, <2>2
<1> QED  BY <1>1, KernelInvariant, PTL

\* Each word the host reads was written by a report of this run.
THEOREM OnlyReportsMix == Spec => []MixtureOfReports
<1>1. Inv => MixtureOfReports
  BY WordsAtEnd DEF MixtureOfReports, Inv, Found
<1> QED  BY <1>1, KernelInvariant, PTL

\* Both changes fall in the fast part of the blob.
LEMMA WordsOfBlob ==
  ASSUME TypeOK, NEW w \in Hit
  PROVE  AddAt(w[1]) \in BlobWords /\ XorAt(w[1]) \in BlobWords
<1>1. \A n \in Nat : n % BLOB_LEN_FAST \in BlobWords
  BY KernelConstants DEF BlobWords
<1>2. /\ w[1] \in Nat /\ r0 \in Nat /\ r1 \in Nat /\ BLOB_LEN_FAST \div 4 \in Nat
  BY KernelConstants DEF Hit, Items, TypeOK, BlobWords
<1>3. w[1] + r0 \in Nat /\ w[1] + r1 + BLOB_LEN_FAST \div 4 \in Nat
  BY <1>2
<1> QED BY <1>1, <1>3 DEF AddAt, XorAt

\* The two transformations agree but for the word in which both changes meet.
LEMMA SameUnlessTheyMeet ==
  ASSUME TypeOK, NEW w \in Hit
  PROVE  MessageForId(w) = KernelMessage(w)
           <=> AddAt(w[1]) # XorAt(w[1]) \/ Added(w) = 0
<1>1. AddAt(w[1]) \in BlobWords /\ XorAt(w[1]) \in BlobWords
  BY WordsOfBlob
<1>2. CASE AddAt(w[1]) # XorAt(w[1]) \/ Added(w) = 0
  BY <1>2 DEF MessageForId, KernelMessage
<1>3. CASE ~(AddAt(w[1]) # XorAt(w[1]) \/ Added(w) = 0)
  <2>1. MessageForId(w).blob[XorAt(w[1])].add = Added(w)
    BY <1>1, <1>3 DEF MessageForId
  <2>2. KernelMessage(w).blob[XorAt(w[1])].add = 0
    BY <1>1 DEF KernelMessage
  <2> QED  BY <1>3, <2>1, <2>2
<1> QED  BY <1>2, <1>3

\* A single report gives the host the message that was hashed, unless the two
\* random words are one and the kernel's second assignment undoes the first.
THEOREM SingleReportRebuilt == Spec => []RebuiltExactly
<1>1. Inv => RebuiltExactly
  <2> SUFFICES ASSUME Inv, NEW w \in writers, Ended, writers = {w}
               PROVE  MessageForId(params_out) = KernelMessage(w)
                        <=> AddAt(w[1]) # XorAt(w[1]) \/ Added(w) = 0
    BY DEF RebuiltExactly
  <2>1. params_out[1] = w[1] /\ params_out[2] = w[2] /\ params_out[3] = w[3]
    BY WordsAtEnd
  <2>2. MessageForId(params_out) = MessageForId(w)
    BY <2>1 DEF MessageForId, Added, After, Counter
  <2> QED  BY <2>2, SameUnlessTheyMeet DEF Inv, TypeOK
<1> QED  BY <1>1, KernelInvariant, PTL

-----------------------------------------------------------------------------
(***************************************************************************)
(* The messages of one run.                                                *)
(***************************************************************************)
LEMMA Grows ==
  ASSUME NEW a \in Nat, NEW b \in Nat, NEW c \in Nat, b <= c
  PROVE  a * b <= a * c
<1> DEFINE d == c - b
<1>1. d \in Nat /\ c = b + d
  OBVIOUS
<1> HIDE DEF d
<1>2. a * c = a * b + a * d
  BY <1>1
<1>3. a * b \in Nat /\ a * d \in Nat
  BY <1>1
<1> QED BY <1>2, <1>3

\* A number is its quotient and its remainder.
LEMMA DivMod ==
  ASSUME NEW x \in Nat, NEW n \in Nat \ {0}
  PROVE  /\ x \div n \in Nat /\ x % n \in Nat /\ x % n < n
         /\ x = n * (x \div n) + (x % n)
OBVIOUS

\* Two numbers that share a word beside one another can be told apart.
LEMMA PairUnique ==
  ASSUME NEW n \in Nat \ {0}, NEW a \in Nat, NEW b \in Nat,
         NEW i \in 0..(n - 1), NEW j \in 0..(n - 1), n * a + i = n * b + j
  PROVE  a = b /\ i = j
<1>1. ASSUME NEW x \in Nat, NEW y \in Nat, NEW k \in 0..(n - 1), NEW l \in 0..(n - 1),
             x < y
      PROVE  n * x + k < n * y + l
  <2>1. n * (x + 1) <= n * y
    BY <1>1, Grows
  <2>2. n * (x + 1) = n * x + n /\ n * x \in Nat /\ n * y \in Nat
    OBVIOUS
  <2> QED BY <2>1, <2>2
<1>2. ~(a < b) /\ ~(b < a)
  <2>1. n * a \in Nat /\ n * b \in Nat
    OBVIOUS
  <2> QED BY <1>1, <2>1
<1>3. a = b
  BY <1>2
<1>4. n * a \in Nat
  OBVIOUS
<1> QED BY <1>3, <1>4

\* A number below n is its own remainder, and so is what multiples of n are added to.
LEMMA Remainder ==
  ASSUME NEW n \in Nat \ {0}, NEW a \in Nat, NEW i \in 0..(n - 1)
  PROVE  (n * a + i) % n = i
<1> DEFINE x == n * a + i
<1>1. x \in Nat /\ x = n * a + i
  <2>1. n * a \in Nat /\ i \in Nat
    OBVIOUS
  <2> QED BY <2>1
<1> HIDE DEF x
<1>2. x \div n \in Nat /\ x % n \in 0..(n - 1) /\ x = n * (x \div n) + (x % n)
  BY <1>1, DivMod
<1> DEFINE q == x \div n
           m == x % n
<1>3. q \in Nat /\ m \in 0..(n - 1) /\ n * q + m = n * a + i
  BY <1>1, <1>2
<1> HIDE DEF q, m
<1>4. q = a /\ m = i
  BY <1>3, PairUnique
<1> QED BY <1>4 DEF m, x

LEMMA SmallRemainder ==
  ASSUME NEW n \in Nat \ {0}, NEW i \in 0..(n - 1)
  PROVE  i % n = i
<1>1. n * 0 + i = i
  OBVIOUS
<1> QED BY <1>1, Remainder

\* Numbers less than n apart differ modulo n.
LEMMA CloseRemainders ==
  ASSUME NEW n \in Nat \ {0}, NEW x \in Nat, NEW y \in Nat,
         x % n = y % n, x - y < n, y - x < n
  PROVE  x = y
<1> DEFINE p == x \div n
           q == y \div n
           r == x % n
<1>1. /\ p \in Nat /\ q \in Nat /\ r \in Nat
      /\ x = n * p + r /\ y = n * q + r
  BY DivMod
<1> HIDE DEF p, q, r
<1>2. ASSUME NEW a \in Nat, NEW b \in Nat, a < b PROVE n * b - n * a >= n
  <2>1. n * (a + 1) <= n * b
    BY <1>2, Grows
  <2>2. n * (a + 1) = n * a + n /\ n * a \in Nat /\ n * b \in Nat
    OBVIOUS
  <2> QED BY <2>1, <2>2
<1>3. n * p \in Nat /\ n * q \in Nat
  BY <1>1
<1>4. ~(p < q) /\ ~(q < p)
  BY <1>1, <1>2, <1>3
<1>5. p = q
  BY <1>1, <1>4
<1> QED BY <1>1, <1>5

\* The word after the fast part holds the lower half of the id and the outer counter.
LEMMA AfterTells ==
  ASSUME NEW g \in Hit, NEW h \in Hit, After(g) = After(h)
  PROVE  g[1] % HALF = h[1] % HALF /\ g[2] = h[2]
<1>1. ASSUME NEW k \in Hit
      PROVE  /\ k[1] % HALF \in 0..(HALF - 1) /\ k[2] \in 0..(HALF - 1)
             /\ After(k) = HALF * (k[1] % HALF) + k[2]
  <2> DEFINE lo == k[1] % HALF
             hi == k[1] \div HALF
             i == k[2]
  <2>1. k[1] \in Nat /\ i \in 0..(HALF - 1) /\ HALF \in Nat \ {0}
    BY KernelConstants DEF Hit, Items
  <2>2. hi \in Nat /\ lo \in 0..(HALF - 1) /\ k[1] = HALF * hi + lo
    <3>1. hi \in Nat /\ lo \in Nat /\ lo < HALF /\ k[1] = HALF * hi + lo
      BY <2>1, DivMod
    <3> HIDE DEF hi, lo
    <3> QED BY <2>1, <3>1
  <2>3. After(k) = (HALF * (HALF * hi + lo) + i) % WORD
    BY <2>2 DEF After
  <2> HIDE DEF lo, hi, i
  <2>4. HALF * (HALF * hi + lo) + i = WORD * hi + (HALF * lo + i)
    BY <2>1, <2>2 DEF WORD
  <2>5. HALF * lo + i \in 0..(WORD - 1) /\ WORD \in Nat \ {0}
    <3>1. HALF * (lo + 1) <= HALF * HALF
      BY <2>1, <2>2, Grows
    <3>2. HALF * (lo + 1) = HALF * lo + HALF /\ HALF * lo \in Nat /\ HALF * HALF \in Nat
      BY <2>1, <2>2
    <3> QED BY <2>1, <3>1, <3>2 DEF WORD
  <2>6. (WORD * hi + (HALF * lo + i)) % WORD = HALF * lo + i
    BY <2>2, <2>5, Remainder
  <2>7. After(k) = HALF * lo + i
    BY <2>3, <2>4, <2>6
  <2> QED BY <2>1, <2>2, <2>7 DEF lo, i
<1>2. HALF \in Nat \ {0} /\ HALF * (g[1] % HALF) + g[2] = HALF * (h[1] % HALF) + h[2]
  BY <1>1, KernelConstants
<1> DEFINE lo(k) == k[1] % HALF
           i(k) == k[2]
<1>3. /\ lo(g) \in Nat /\ lo(h) \in Nat
      /\ i(g) \in 0..(HALF - 1) /\ i(h) \in 0..(HALF - 1)
      /\ HALF * lo(g) + i(g) = HALF * lo(h) + i(h)
  BY <1>1, <1>2
<1> HIDE DEF lo, i
<1>4. lo(g) = lo(h) /\ i(g) = i(h)
  BY <1>2, <1>3, PairUnique
<1> QED BY <1>4 DEF lo, i

\* With the same outer counter, the counter word holds the inner one.
LEMMA CounterTells ==
  ASSUME NEW g \in Hit, NEW h \in Hit, g[2] = h[2], Counter(g) = Counter(h)
  PROVE  g[3] = h[3]
<1>0. /\ SHIFT_I \in Nat /\ SHIFT_J \in Nat \ {0} /\ N_LOOPS \in Nat \ {0}
      /\ N_LOOPS_2 \in Nat \ {0} /\ WORD \in Nat \ {0}
      /\ N_LOOPS_2 \div 4 < SHIFT_I
      /\ N_LOOPS * SHIFT_I <= SHIFT_J /\ N_LOOPS_2 * SHIFT_J <= WORD
  <2>1. SHIFT_I >= 1 /\ SHIFT_I \in Nat
    BY KernelConstants
  <2>2. N_LOOPS * 1 <= N_LOOPS * SHIFT_I
    BY <2>1, KernelConstants, Grows
  <2>3. SHIFT_J >= 1
    BY <2>2, KernelConstants
  <2>4. WORD \in Nat \ {0}
    BY KernelConstants DEF WORD
  <2> QED BY <2>3, <2>4, KernelConstants
<1>1. ASSUME NEW k \in Hit
      PROVE  /\ SHIFT_I * k[2] + k[3] \div 4 \in 0..(SHIFT_J - 1) /\ k[3] \in Nat
             /\ Counter(k) = SHIFT_J * k[3] + (SHIFT_I * k[2] + k[3] \div 4)
  <2> DEFINE i == k[2]
             j == k[3]
             c == SHIFT_I * i + j \div 4
  <2>1. i \in 0..(N_LOOPS - 1) /\ j \in 0..(N_LOOPS_2 - 1)
    BY DEF Hit
  <2>2. j \div 4 \in Nat /\ j \div 4 < SHIFT_I
    BY <1>0, <2>1
  <2>3. c \in 0..(SHIFT_J - 1)
    <3>1. SHIFT_I * (i + 1) <= SHIFT_I * N_LOOPS
      BY <1>0, <2>1, Grows
    <3>2. SHIFT_I * (i + 1) = SHIFT_I * i + SHIFT_I /\ SHIFT_I * i \in Nat
          /\ SHIFT_I * N_LOOPS = N_LOOPS * SHIFT_I /\ N_LOOPS * SHIFT_I \in Nat
      BY <1>0, <2>1
    <3> HIDE DEF i, j
    <3> QED BY <1>0, <2>2, <3>1, <3>2
  <2>4. Counter(k) = (SHIFT_J * j + c) % WORD
    BY <1>0, <2>1, <2>2 DEF Counter
  <2> HIDE DEF c
  <2>5. SHIFT_J * j + c \in 0..(WORD - 1)
    <3>1. SHIFT_J * (j + 1) <= SHIFT_J * N_LOOPS_2
      BY <1>0, <2>1, Grows
    <3>2. SHIFT_J * (j + 1) = SHIFT_J * j + SHIFT_J /\ SHIFT_J * j \in Nat
          /\ SHIFT_J * N_LOOPS_2 = N_LOOPS_2 * SHIFT_J /\ N_LOOPS_2 * SHIFT_J \in Nat
      BY <1>0, <2>1
    <3> HIDE DEF i, j
    <3> QED BY <1>0, <2>3, <3>1, <3>2
  <2>6. Counter(k) = SHIFT_J * j + c
    BY <1>0, <2>4, <2>5, SmallRemainder
  <2> QED BY <2>1, <2>3, <2>6 DEF c
<1> DEFINE c(k) == SHIFT_I * k[2] + k[3] \div 4
           j(k) == k[3]
<1>2. /\ c(g) \in 0..(SHIFT_J - 1) /\ c(h) \in 0..(SHIFT_J - 1)
      /\ j(g) \in Nat /\ j(h) \in Nat
      /\ SHIFT_J * j(g) + c(g) = SHIFT_J * j(h) + c(h)
  BY <1>1
<1> HIDE DEF c, j
<1>3. j(g) = j(h) /\ c(g) = c(h)
  BY <1>0, <1>2, PairUnique
<1> QED BY <1>3 DEF j

\* What is added tells the ids apart, given the outer counter.
LEMMA AddedTells ==
  ASSUME NEW g \in Hit, NEW h \in Hit, g[2] = h[2], Added(g) = Added(h)
  PROVE  g[1] = h[1]
<1>1. /\ g[1] \in Nat /\ h[1] \in Nat /\ g[2] \in Nat /\ WORD \in Nat \ {0}
      /\ g[1] < WORD /\ h[1] < WORD
  BY KernelConstants DEF Hit, Items, WORD
<1> DEFINE x == g[1] + 4 * g[2]
           y == h[1] + 4 * g[2]
<1>2. x \in Nat /\ y \in Nat /\ x - y < WORD /\ y - x < WORD
  BY <1>1
<1>3. x % WORD = y % WORD
  BY DEF Added
<1> HIDE DEF x, y
<1>4. x = y
  BY <1>1, <1>2, <1>3, CloseRemainders
<1> QED BY <1>1, <1>4 DEF x, y

\* Where an id puts a change depends on its lower half only.
LEMMA LowerHalfPlaces ==
  \A id, r \in Nat :
    (id + r) % BLOB_LEN_FAST = ((id % HALF) + r) % BLOB_LEN_FAST
<1> TAKE id, r \in Nat
<1> DEFINE B == BLOB_LEN_FAST
           m == HALF \div B
           hi == id \div HALF
           lo == id % HALF
           u == (lo + r) \div B
           v == (lo + r) % B
<1>1. B \in Nat \ {0} /\ HALF \in Nat \ {0} /\ HALF % B = 0
  BY KernelConstants
<1>2. HALF = B * m /\ m \in Nat
  <2>1. HALF = B * m + (HALF % B) /\ m \in Nat
    BY <1>1, DivMod
  <2>2. B * m \in Nat
    BY <1>1, <2>1
  <2> HIDE DEF m
  <2> QED BY <1>1, <2>1, <2>2
<1>3. hi \in Nat /\ lo \in Nat /\ id = HALF * hi + lo
  BY <1>1, DivMod
<1>4. u \in Nat /\ v \in 0..(B - 1) /\ lo + r = B * u + v
  <2>1. lo + r \in Nat
    BY <1>3
  <2>2. u \in Nat /\ v \in Nat /\ v < B /\ lo + r = B * u + v
    BY <1>1, <2>1, DivMod
  <2> QED BY <1>1, <2>2
<1>5. v = (lo + r) % B
  OBVIOUS
<1> HIDE DEF hi, lo, u, v, m
<1>6. HALF * hi = B * (m * hi) /\ m * hi \in Nat
  BY <1>1, <1>2, <1>3
<1>7. id + r = B * (m * hi) + (B * u + v)
  <2>1. HALF * hi \in Nat
    BY <1>1, <1>3
  <2> QED BY <1>3, <1>4, <1>6, <2>1
<1> DEFINE w == m * hi
<1>8. w \in Nat /\ id + r = B * w + (B * u + v)
  BY <1>6, <1>7
<1> HIDE DEF w
<1>9. id + r = B * (w + u) + v /\ w + u \in Nat
  BY <1>1, <1>4, <1>8
<1>10. (B * (w + u) + v) % B = v
  BY <1>1, <1>4, <1>9, Remainder
<1> QED BY <1>5, <1>9, <1>10 DEF lo

\* Ids with the same lower half change the same two words.
LEMMA SameWords ==
  ASSUME TypeOK, NEW g \in Hit, NEW h \in Hit, g[1] % HALF = h[1] % HALF
  PROVE  AddAt(g[1]) = AddAt(h[1]) /\ XorAt(g[1]) = XorAt(h[1])
<1> DEFINE r == r1 + BLOB_LEN_FAST \div 4
<1>1. g[1] \in Nat /\ h[1] \in Nat /\ r0 \in Nat /\ r1 \in Nat /\ r \in Nat
  BY KernelConstants DEF Hit, Items, TypeOK, BlobWords
<1>2. ASSUME NEW s \in Nat
      PROVE  (g[1] + s) % BLOB_LEN_FAST = (h[1] + s) % BLOB_LEN_FAST
  <2>1. (g[1] + s) % BLOB_LEN_FAST = ((g[1] % HALF) + s) % BLOB_LEN_FAST
    BY <1>1, LowerHalfPlaces, Zenon
  <2>2. (h[1] + s) % BLOB_LEN_FAST = ((h[1] % HALF) + s) % BLOB_LEN_FAST
    BY <1>1, LowerHalfPlaces, Zenon
  <2> QED BY <2>1, <2>2, Zenon
<1>3. (g[1] + r) % BLOB_LEN_FAST = (h[1] + r) % BLOB_LEN_FAST
  <2> HIDE DEF r
  <2> QED BY <1>1, <1>2
<1>4. ASSUME NEW id \in Nat PROVE XorAt(id) = (id + r) % BLOB_LEN_FAST
  <2>1. BLOB_LEN_FAST \div 4 \in Nat
    BY KernelConstants
  <2>2. id + r1 + BLOB_LEN_FAST \div 4 = id + r
    BY <1>1, <2>1
  <2> QED BY <2>2 DEF XorAt
<1> QED BY <1>1, <1>2, <1>3, <1>4 DEF AddAt

\* No two work items, and no two rounds of one, hash the same message in a run, but
\* for ids that differ in their upper halves only, where the two changes meet.
THEOREM WorkDivided == Spec => []NoMessageTwice
<1>1. Inv => NoMessageTwice
  <2> SUFFICES ASSUME TypeOK, NEW g \in Hit, NEW h \in Hit,
                      g # h, KernelMessage(g) = KernelMessage(h)
               PROVE  /\ AddAt(g[1]) = XorAt(g[1])
                      /\ g[1] # h[1] /\ g[1] % HALF = h[1] % HALF
    BY DEF NoMessageTwice, Inv
  <2>1. /\ KernelMessage(g).after = KernelMessage(h).after
        /\ KernelMessage(g).counter = KernelMessage(h).counter
        /\ KernelMessage(g).blob = KernelMessage(h).blob
    OBVIOUS
  <2>2. After(g) = After(h) /\ Counter(g) = Counter(h)
    BY <2>1 DEF KernelMessage
  <2>3. g[1] % HALF = h[1] % HALF /\ g[2] = h[2]
    BY <2>2, AfterTells
  <2>4. g[3] = h[3]
    BY <2>2, <2>3, CounterTells
  <2>5. g[1] # h[1]
    BY <2>3, <2>4 DEF Hit
  <2>6. AddAt(g[1]) = XorAt(g[1])
    <3> SUFFICES ASSUME AddAt(g[1]) # XorAt(g[1]) PROVE FALSE
      OBVIOUS
    <3> DEFINE x == AddAt(g[1])
    <3>1. x = AddAt(h[1]) /\ x \in BlobWords
      BY <2>3, SameWords, WordsOfBlob
    <3>2. KernelMessage(g).blob[x].add = Added(g)
      BY <3>1 DEF KernelMessage
    <3>3. KernelMessage(h).blob[x].add = Added(h)
      BY <2>3, <3>1, SameWords DEF KernelMessage
    <3> QED BY <2>1, <2>3, <2>5, <3>2, <3>3, AddedTells
  <2> QED BY <2>3, <2>5, <2>6
<1> QED BY <1>1, KernelInvariant, PTL
=============================================================================
