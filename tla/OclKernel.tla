------------------------------ MODULE OclKernel ------------------------------
(***************************************************************************)
(* One kernel run after the other: the work items of src/cl/MD5.cl scan    *)
(* their messages, race for the three words of params_out, and the host    *)
(* (message_for_id in src/oclminer.rs) rebuilds from these words the       *)
(* message that was hashed.                                                *)
(*                                                                         *)
(* A hit <<id, i, j>> is a work item and its two loop counters.  Whether a *)
(* hash passes the mask (see HashTests) is open.  A changed message word   *)
(* stands for what is added to and xored into the random word it was, as   *)
(* the code computes it modulo the width of a word.                        *)
(***************************************************************************)
EXTENDS Naturals

CONSTANTS
  WorkItems,      \* global work size: get_global_id is in 0..WorkItems-1
  N_LOOPS,        \* 64
  N_LOOPS_2,      \* 256
  BLOB_LEN_FAST,  \* words of the blob that items change by their id (32)
  HALF,           \* values of half a word (2^16)
  SHIFT_I, SHIFT_J  \* where the counters stand in their word (2^12, 2^24)

WORD == HALF * HALF

ASSUME KernelConstants ==
  /\ WorkItems \in Nat \ {0} /\ N_LOOPS \in Nat \ {0} /\ N_LOOPS_2 \in Nat \ {0}
  /\ BLOB_LEN_FAST \in Nat \ {0}
  /\ HALF \in Nat \ {0} /\ HALF % BLOB_LEN_FAST = 0
  /\ SHIFT_I \in Nat /\ SHIFT_J \in Nat
  /\ WorkItems < WORD /\ N_LOOPS <= HALF
  /\ N_LOOPS_2 \div 4 < SHIFT_I
  /\ N_LOOPS * SHIFT_I <= SHIFT_J /\ N_LOOPS_2 * SHIFT_J <= WORD

VARIABLES
  r0, r1,      \* params_in[1] and [2], modulo BLOB_LEN_FAST
  at,          \* the counters of each work item
  todo,        \* the words of params_out it has still to write
  params_out,
  hits,        \* history: the messages whose hash passed ...
  writers      \* ... and those of them that their items went on to report

vars == <<r0, r1, at, todo, params_out, hits, writers>>

Items == 0..(WorkItems - 1)
BlobWords == 0..(BLOB_LEN_FAST - 1)
Hit == Items \X (0..(N_LOOPS - 1)) \X (0..(N_LOOPS_2 - 1))

\* 0xFFFFFFFF is no work item.  Mutant: the buffer is cleared with zeros.
EmptyIsZero == 0
Empty == WorkItems + N_LOOPS + N_LOOPS_2

TypeOK ==
  /\ r0 \in BlobWords /\ r1 \in BlobWords
  /\ at \in [Items -> (0..N_LOOPS) \X (0..(N_LOOPS_2 - 1))]
  /\ todo \in [Items -> SUBSET (1..3)]
  /\ params_out \in [1..3 -> Nat]
  /\ hits \subseteq Hit /\ writers \subseteq hits

Init ==
  /\ r0 \in BlobWords /\ r1 \in BlobWords
  /\ at = [id \in Items |-> <<0, 0>>]
  /\ todo = [id \in Items |-> {}]
  /\ params_out = [k \in 1..3 |-> Empty]
  /\ hits = {} /\ writers = {}

-----------------------------------------------------------------------------
(***************************************************************************)
(* A work item.                                                            *)
(***************************************************************************)
Here(id) == <<id, at[id][1], at[id][2]>>
Scanning(id) == at[id][1] < N_LOOPS /\ todo[id] = {}
Ended == \A id \in Items : ~Scanning(id) /\ todo[id] = {}

\* The counters after a message.  Mutant: one more round of the inner loop.
OneMore(p) == IF p[2] < N_LOOPS_2 THEN <<p[1], p[2] + 1>> ELSE <<p[1] + 1, 0>>
NextMessage(p) ==
  IF p[2] < N_LOOPS_2 - 1 THEN <<p[1], p[2] + 1>> ELSE <<p[1] + 1, 0>>

Miss(id) ==
  /\ Scanning(id)
  /\ at' = [at EXCEPT ![id] = NextMessage(@)]
  /\ UNCHANGED <<r0, r1, todo, params_out, hits, writers>>

\* The hash passes, but params_out[0] is taken.
HitTooLate(id) ==
  /\ Scanning(id)
  /\ params_out[1] # Empty
  /\ at' = [at EXCEPT ![id] = NextMessage(@)]
  /\ hits' = hits \cup {Here(id)}
  /\ UNCHANGED <<r0, r1, todo, params_out, writers>>

\* "Note that this is isn't guarenteed to prevent clobbering": global memory is
\* not synchronised, and an item may still read EMPTY after another one's write,
\* though not after its own.
ReadsEmpty(id) == params_out[1] = Empty \/ \A w \in writers : w[1] # id

HitFirst(id) ==
  /\ Scanning(id)
  /\ ReadsEmpty(id)
  /\ hits' = hits \cup {Here(id)} /\ writers' = writers \cup {Here(id)}
  /\ todo' = [todo EXCEPT ![id] = 1..3]
  /\ UNCHANGED <<r0, r1, at, params_out>>

\* The three words arrive in any order.  After them the item leaves the inner
\* loop only.
WriteWord(id) ==
  /\ \E k \in todo[id] :
       /\ params_out' = [params_out EXCEPT ![k] = Here(id)[k]]
       /\ todo' = [todo EXCEPT ![id] = @ \ {k}]
       /\ at' = IF todo[id] = {k} THEN [at EXCEPT ![id] = <<@[1] + 1, 0>>] ELSE at
  /\ UNCHANGED <<r0, r1, hits, writers>>

WorkItem(id) == Miss(id) \/ HitTooLate(id) \/ HitFirst(id) \/ WriteWord(id)

\* The params_out of the next run.  Mutant: the buffer is used again.
Reused == params_out
Cleared == [k \in 1..3 |-> Empty]

\* queue.finish() has returned: the host reads params_out and starts another run
\* with new random numbers.
NextRun ==
  /\ Ended
  /\ r0' \in BlobWords /\ r1' \in BlobWords
  /\ at' = [id \in Items |-> <<0, 0>>]
  /\ params_out' = Cleared
  /\ hits' = {} /\ writers' = {}
  /\ UNCHANGED todo

Next == NextRun \/ \E id \in Items : WorkItem(id)

Spec == Init /\ [][Next]_vars

-----------------------------------------------------------------------------
(***************************************************************************)
(* The message of a hit, as the kernel hashed it and as the host rebuilds  *)
(* it: the words of the fast part of the blob, the word after it and the   *)
(* counter word of the last block.                                         *)
(***************************************************************************)
Added(h) == (h[1] + 4 * h[2]) % WORD

\* a | b.
Or[a \in Nat, b \in Nat] ==
  IF a = 0 THEN b
  ELSE 2 * Or[a \div 2, b \div 2] + (IF 1 \in {a % 2, b % 2} THEN 1 ELSE 0)

\* (id << 16) | id
Doubled(id) == HALF * Or[id % HALF, id \div HALF] + (id % HALF)

\* orig2 + (id << 16) + i, and (j >> 2) + (j << 24) + (i << 12).  Mutant: without
\* the inner counter's upper part.
CounterWithoutJ(h) == (h[3] \div 4 + SHIFT_I * h[2]) % WORD
After(h) == (HALF * h[1] + h[2]) % WORD
Counter(h) == (h[3] \div 4 + SHIFT_J * h[3] + SHIFT_I * h[2]) % WORD

AddAt(id) == (id + r0) % BLOB_LEN_FAST
XorAt(id) == (id + r1 + BLOB_LEN_FAST \div 4) % BLOB_LEN_FAST

\* Both assignments start from the words as they were before, so that the second
\* one wins when they meet.
KernelMessage(h) ==
  [blob |-> [x \in BlobWords |->
               IF x = XorAt(h[1]) THEN [add |-> 0, xor |-> Doubled(h[1])]
               ELSE [add |-> IF x = AddAt(h[1]) THEN Added(h) ELSE 0, xor |-> 0]],
   after |-> After(h), counter |-> Counter(h)]

\* message_for_id changes each word in turn.  Mutant: the offset of the second
\* index is forgotten.
MessageWithoutOffset(h) ==
  [blob |-> [x \in BlobWords |->
               [add |-> IF x = AddAt(h[1]) THEN Added(h) ELSE 0,
                xor |-> IF x = (h[1] + r1) % BLOB_LEN_FAST THEN Doubled(h[1]) ELSE 0]],
   after |-> After(h), counter |-> Counter(h)]
MessageForId(h) ==
  [blob |-> [x \in BlobWords |->
               [add |-> IF x = AddAt(h[1]) THEN Added(h) ELSE 0,
                xor |-> IF x = XorAt(h[1]) THEN Doubled(h[1]) ELSE 0]],
   after |-> After(h), counter |-> Counter(h)]

-----------------------------------------------------------------------------
(***************************************************************************)
(* Safety.                                                                 *)
(***************************************************************************)

\* A run reports something exactly if some work item found something in that
\* very run, whatever the items overwrite of one another.
HitsReported == Ended => (params_out[1] # Empty <=> hits # {})

\* When a single item reported, the host gets back its message, unless the two
\* changes of the blob meet in one word (one run in BLOB_LEN_FAST) and the first
\* of them was not zero.
RebuiltExactly ==
  \A w \in writers : Ended /\ writers = {w} =>
    (MessageForId(params_out) = KernelMessage(w)
       <=> AddAt(w[1]) # XorAt(w[1]) \/ Added(w) = 0)

\* What the host makes of two reports is at worst a mixture of their words; it
\* takes two items to mix them, and what an item writes it writes completely.
MixtureOfReports ==
  Ended /\ hits # {} => \A k \in 1..3 : \E w \in writers : params_out[k] = w[k]

\* The work is divided: no two work items, and no two rounds of one, hash the same
\* message in a run, unless the two changes of the blob meet in one word.  Even then
\* it takes ids that differ in their upper halves only, so more than 2^16 work
\* items: id << 16 drops that half, and of the change that would still have told
\* them apart the kernel keeps nothing.
NoMessageTwice ==
  \A g, h \in Hit :
    g # h /\ KernelMessage(g) = KernelMessage(h) =>
      /\ AddAt(g[1]) = XorAt(g[1])
      /\ g[1] # h[1] /\ g[1] % HALF = h[1] % HALF

\* "Same transformation as happens on the GPU".
SameTransformation ==
  \A w \in writers : Ended /\ writers = {w} => MessageForId(params_out) = KernelMessage(w)
=============================================================================
