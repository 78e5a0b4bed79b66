------------------------ MODULE ChunkAssemblerProofs ------------------------
(***************************************************************************)
(* What is proved of the assembler, for blocks, thresholds and timeouts of *)
(* any size and any number of blocks: state_, buffer_ and                  *)
(* silence_samples_ agree whenever the mutex is free (AppController's      *)
(* assembler, which is one buffer without a state, rests on it); a chunk   *)
(* is one stretch of speech and pauses, neither too long nor too short;    *)
(* chunks are handed over in the order they were spoken in; and no speech  *)
(* is lost.                                                                *)
(*                                                                         *)
(* Sizes are sums over sequences.  What is needed of them is proved by     *)
(* induction over the naturals, in the form of the least number that is    *)
(* not in a set (WFMin).                                                   *)
(***************************************************************************)
EXTENDS ChunkAssembler, WellFoundedInduction, TLAPS

\* What the agreement rests on: a block is in the tap's hand while it waits for the
\* mutex, and no pause has a negative length.
BufferTyped ==
  /\ state \in {"LISTENING", "RECORDING"}
  /\ buffer \in Seq(Block)
  /\ silence \in Nat
  /\ tapPc = "lock" => block \in Block

AssemblerInv == BufferTyped /\ ListeningIsEmpty

-----------------------------------------------------------------------------
\* The numbers of a block.
LEMMA BlockNumbers ==
  ASSUME NEW b \in Block
  PROVE  /\ b.id \in Nat /\ b.id \in 1..MaxBlocks
         /\ b.size \in Nat /\ 0 < b.size /\ b.size < MaxChunk
  <1>1. b.id \in 1..MaxBlocks /\ b.size \in BlockSizes
    BY DEF Block
  <1>2. b.size \in 1..MaxChunk - 1
    BY <1>1, AssemblerAssumption
  <1> QED
    BY <1>1, <1>2, AssemblerAssumption

\* At first the assembler is LISTENING and empty.
LEMMA AssemblerInitInv == Init => AssemblerInv
  BY DEF Init, AssemblerInv, BufferTyped, ListeningIsEmpty

\* A sequence that a block has been added to is not empty.
LEMMA AppendBlock ==
  ASSUME NEW b \in Block, buffer \in Seq(Block)
  PROVE  /\ Append(buffer, b) \in Seq(Block)
         /\ Append(buffer, b) # <<>>
  <1>1. Len(Append(buffer, b)) = Len(buffer) + 1 /\ Append(buffer, b) \in Seq(Block)
    OBVIOUS
  <1>2. Len(buffer) \in Nat
    OBVIOUS
  <1> QED
    BY <1>1, <1>2

\* feed() keeps the agreement: it opens a chunk and sets RECORDING at once, and
\* ends one through flush() only.
LEMMA FeedInv ==
  ASSUME AssemblerInv, Feed
  PROVE  AssemblerInv'
  <1> USE DEF AssemblerInv, BufferTyped, ListeningIsEmpty
  <1>1. CASE FeedDiscards
    BY <1>1 DEF FeedDiscards
  <1>2. CASE FeedOpens
    <2>1. Append(buffer, block) \in Seq(Block) /\ Append(buffer, block) # <<>>
      BY <1>2, AppendBlock DEF FeedOpens
    <2> QED
      BY <1>2, <2>1 DEF FeedOpens
  <1>3. CASE FeedRecords
    <2>1. block \in Block
      BY <1>3 DEF FeedRecords
    <2>2. /\ Append(buffer, block) \in Seq(Block)
          /\ Append(buffer, block) # <<>>
      BY <2>1, AppendBlock
    <2>3. block.size \in Nat
      BY <2>1, BlockNumbers
    <2>4. SilenceWith \in Nat
      BY <2>3 DEF SilenceWith
    <2>5. CASE Flush /\ tapPc' = "notify"
      BY <2>5 DEF Flush
    <2>6. CASE /\ buffer' = Append(buffer, block) /\ silence' = SilenceWith
               /\ tapPc' = "idle" /\ UNCHANGED state /\ state = "RECORDING"
      BY <2>2, <2>4, <2>6
    <2> QED
      BY <1>3, <2>5, <2>6 DEF FeedRecords
  <1>4. CASE FeedNotifies
    BY <1>4 DEF FeedNotifies
  <1>5. CASE FeedEmits
    BY <1>5 DEF FeedEmits
  <1> QED
    BY <1>1, <1>2, <1>3, <1>4, <1>5 DEF Feed

\* A block arrives with the VAD's verdict.
LEMMA TapBlockInv ==
  ASSUME AssemblerInv, NEW speech \in BOOLEAN, NEW size \in BlockSizes,
         TapBlock(speech, size), delivered \in Nat
  PROVE  AssemblerInv'
  <1>1. block' \in Block
    BY AssemblerAssumption DEF TapBlock, Block
  <1> QED
    BY <1>1 DEF TapBlock, AssemblerInv, BufferTyped, ListeningIsEmpty

\* main's calls: forceFlush() empties the buffer through flush() or leaves it alone.
LEMMA MainInv ==
  ASSUME AssemblerInv,
         \/ ForceFlush \/ ForceFlushEmits \/ StartMic \/ StopMic
         \/ \E t \in Timeouts : SetSilenceTimeout(t)
         \/ UNCHANGED vars
  PROVE  AssemblerInv'
  <1> USE DEF AssemblerInv, BufferTyped, ListeningIsEmpty
  <1>1. CASE ForceFlush
    BY <1>1 DEF ForceFlush, Flush
  <1>2. CASE ForceFlushEmits \/ StartMic \/ StopMic
    BY <1>2 DEF ForceFlushEmits, StartMic, StopMic
  <1>3. CASE \E t \in Timeouts : SetSilenceTimeout(t)
    BY <1>3 DEF SetSilenceTimeout
  <1>4. CASE UNCHANGED vars
    BY <1>4 DEF vars
  <1> QED
    BY <1>1, <1>2, <1>3, <1>4

\* Blocks are counted.
LEMMA DeliveredCounted == Spec => [](delivered \in Nat)
  <1>1. Init => delivered \in Nat
    BY DEF Init
  <1>2. delivered \in Nat /\ [Next]_vars => (delivered \in Nat)'
    BY DEF Next, vars, TapBlock, Feed, FeedFrame, FeedDiscards, FeedOpens, FeedRecords,
           FeedNotifies, FeedEmits, ForceFlush, ForceFlushEmits, SetSilenceTimeout,
           StartMic, StopMic
  <1> QED
    BY <1>1, <1>2, PTL DEF Spec

\* chunk_assembler.cpp:20, :44, :78: whatever blocks come, and whenever main flushes
\* or changes the timeout, the assembler is LISTENING exactly when it has no audio
\* and counts no pause, so that a chunk begins with the speech that opened it.
THEOREM ListeningIsEmptyAlways == Spec => []ListeningIsEmpty
  <1>1. AssemblerInv /\ delivered \in Nat /\ [Next]_vars => AssemblerInv'
    BY FeedInv, TapBlockInv, MainInv DEF Next
  <1>2. Spec => []AssemblerInv
    BY <1>1, AssemblerInitInv, DeliveredCounted, PTL DEF Spec
  <1>3. AssemblerInv => ListeningIsEmpty
    BY DEF AssemblerInv
  <1> QED
    BY <1>2, <1>3, PTL

-----------------------------------------------------------------------------
(***************************************************************************)
(* Sizes and stretches of blocks.                                          *)
(***************************************************************************)

\* Induction over the naturals, by the least number that is not in the set.
LEMMA NatSetInduction ==
  ASSUME NEW S \in SUBSET Nat, 0 \in S, \A n \in S : n + 1 \in S
  PROVE  S = Nat
  <1> DEFINE Less == OpToRel(<, Nat)
             T == Nat \ S
  <1> SUFFICES ASSUME T # {}
               PROVE  FALSE
    BY Zenon
  <1>1. IsWellFoundedOn(Less, Nat)
    BY NatLessThanWellFounded, Zenon
  <1>2. \E x \in T : \A y \in T : ~(<<y, x>> \in Less)
    <2>1. T \subseteq Nat
      BY Zenon
    <2> HIDE DEF T, Less
    <2> QED
      BY <1>1, <2>1, WFMin, Zenon
  <1>3. PICK x \in T : \A y \in T : ~(<<y, x>> \in Less)
    BY <1>2, Zenon
  <1>4. x \in Nat /\ x # 0 /\ x - 1 \in Nat /\ (x - 1) + 1 = x /\ x - 1 < x
    BY SMT
  <1>5. <<x - 1, x>> \in Less
    BY <1>4 DEF OpToRel
  <1>6. x - 1 \in S
    BY <1>3, <1>4, <1>5
  <1> QED
    BY <1>4, <1>6

\* Samples up to a block, as Size adds them.
Added(up, q) ==
  up = [n \in 0..Len(q) |-> IF n = 0 THEN 0 ELSE up[n - 1] + q[n].size]

SizesOf(q) == CHOOSE up : Added(up, q)

\* Size is the last of them.
LEMMA SizeIsChosen ==
  ASSUME NEW q
  PROVE  Size(q) = SizesOf(q)[Len(q)]
  BY DEF Size, SizesOf, Added

\* There are such sums: block by block, one more than before.
LEMMA SizesThere ==
  ASSUME NEW q \in Seq(Block)
  PROVE  \E up : Added(up, q)
  <1> DEFINE Good(up, n) ==
               up = [m \in 0..n |-> IF m = 0 THEN 0 ELSE up[m - 1] + q[m].size]
             S == {n \in Nat : n <= Len(q) => \E up : Good(up, n)}
  <1>1. 0 \in S
    <2>1. Good([m \in 0..0 |-> 0], 0)
      OBVIOUS
    <2> QED
      BY <2>1
  <1>2. ASSUME NEW n \in S
        PROVE  n + 1 \in S
    <2> SUFFICES ASSUME n + 1 <= Len(q)
                 PROVE  \E up : Good(up, n + 1)
      OBVIOUS
    <2>1. n \in Nat /\ n <= Len(q)
      OBVIOUS
    <2>2. PICK up : Good(up, n)
      <3> HIDE DEF Good
      <3> QED
        BY <2>1
    <2> DEFINE more == [m \in 0..n + 1 |-> IF m <= n THEN up[m] ELSE up[n] + q[n + 1].size]
    <2>3. Good(more, n + 1)
      BY <2>1, <2>2
    <2> QED
      BY <2>3
  <1>3. S = Nat
    <2> HIDE DEF Good
    <2>1. S \in SUBSET Nat
      OBVIOUS
    <2> HIDE DEF S
    <2> QED
      BY <1>1, <1>2, <2>1, NatSetInduction
  <1> QED
    BY <1>3 DEF Added

\* So the ones that Size takes add up.
LEMMA SizesAdd ==
  ASSUME NEW q \in Seq(Block)
  PROVE  /\ SizesOf(q)[0] = 0
         /\ \A n \in 1..Len(q) : SizesOf(q)[n] = SizesOf(q)[n - 1] + q[n].size
  <1>1. Added(SizesOf(q), q)
    BY SizesThere, Zenon DEF SizesOf
  <1> DEFINE up == SizesOf(q)
  <1>2. up = [n \in 0..Len(q) |-> IF n = 0 THEN 0 ELSE up[n - 1] + q[n].size]
    BY <1>1 DEF Added
  <1> HIDE DEF up
  <1>3. /\ up[0] = 0
        /\ \A n \in 1..Len(q) : up[n] = up[n - 1] + q[n].size
    BY <1>2
  <1> QED
    BY <1>3 DEF up

\* No blocks have no samples.
LEMMA SizeOfNone == Size(<<>>) = 0
  <1> DEFINE q == <<>>
  <1>1. q \in Seq(Block) /\ Len(q) = 0
    OBVIOUS
  <1> HIDE DEF q
  <1>2. Size(q) = 0
    BY <1>1, SizeIsChosen, SizesAdd
  <1> QED
    BY <1>2 DEF q

\* One more block adds its samples.
LEMMA SizeOfMore ==
  ASSUME NEW q \in Seq(Block), NEW e \in Block
  PROVE  /\ Size(q) \in Nat
         /\ Size(Append(q, e)) = Size(q) + e.size
  <1> DEFINE r == Append(q, e)
             S == {n \in Nat : n <= Len(q) => /\ SizesOf(r)[n] = SizesOf(q)[n]
                                              /\ SizesOf(q)[n] \in Nat}
  <1>1. /\ r \in Seq(Block) /\ Len(r) = Len(q) + 1 /\ r[Len(q) + 1] = e
        /\ \A n \in 1..Len(q) : r[n] = q[n] /\ q[n].size \in Nat
    <2>1. \A n \in 1..Len(q) : q[n] \in Block
      OBVIOUS
    <2>2. \A n \in 1..Len(q) : q[n].size \in Nat
      BY <2>1, BlockNumbers
    <2> QED
      BY <2>2
  <1> HIDE DEF r
  <1>2. 0 \in S
    BY <1>1, SizesAdd
  <1>3. ASSUME NEW n \in S
        PROVE  n + 1 \in S
    <2> SUFFICES ASSUME n + 1 <= Len(q)
                 PROVE  /\ SizesOf(r)[n + 1] = SizesOf(q)[n + 1]
                        /\ SizesOf(q)[n + 1] \in Nat
      OBVIOUS
    <2>1. n \in Nat /\ n + 1 \in 1..Len(q) /\ n + 1 \in 1..Len(r) /\ (n + 1) - 1 = n
      BY <1>1
    <2>2. /\ SizesOf(r)[n + 1] = SizesOf(r)[n] + q[n + 1].size
          /\ SizesOf(q)[n + 1] = SizesOf(q)[n] + q[n + 1].size
      BY <1>1, <2>1, SizesAdd
    <2> QED
      BY <1>1, <2>1, <2>2
  <1>4. S = Nat
    <2>1. S \in SUBSET Nat
      OBVIOUS
    <2> HIDE DEF S
    <2> QED
      BY <1>2, <1>3, <2>1, NatSetInduction
  <1>5. SizesOf(r)[Len(q)] = SizesOf(q)[Len(q)] /\ SizesOf(q)[Len(q)] \in Nat
    BY <1>4
  <1>6. SizesOf(r)[Len(q) + 1] = SizesOf(r)[Len(q)] + e.size
    <2>1. Len(q) + 1 \in 1..Len(r) /\ (Len(q) + 1) - 1 = Len(q)
      BY <1>1
    <2> QED
      BY <1>1, <2>1, SizesAdd
  <1> QED
    BY <1>1, <1>5, <1>6, SizeIsChosen DEF r

\* Without its last block a chunk is no longer.
LEMMA SizeOfFront ==
  ASSUME NEW q \in Seq(Block), q # <<>>
  PROVE  Size(Front(q)) <= Size(q)
  <1> DEFINE f == Front(q)
             e == Last(q)
  <1>1. f \in Seq(Block) /\ e \in Block /\ q = Append(f, e)
    <2>1. Len(q) \in Nat /\ Len(q) > 0
      OBVIOUS
    <2>2. f \in Seq(Block) /\ Len(f) = Len(q) - 1 /\ e \in Block
      <3>1. \A i \in 1..Len(q) - 1 : q[i] \in Block
        BY <2>1
      <3>2. f = [i \in 1..Len(q) - 1 |-> q[i]]
        BY <2>1 DEF Front
      <3>3. Len(q) - 1 \in Nat /\ Len(q) \in 1..Len(q)
        BY <2>1
      <3>4. f \in Seq(Block) /\ Len(f) = Len(q) - 1
        <4> HIDE DEF f
        <4> QED
          BY <3>1, <3>2, <3>3
      <3> QED
        BY <3>3, <3>4 DEF Last
    <2>3. \A i \in 1..Len(q) : q[i] = Append(f, e)[i]
      BY <2>1, <2>2 DEF Front, Last
    <2>4. Append(f, e) \in Seq(Block) /\ Len(Append(f, e)) = Len(q)
      BY <2>1, <2>2
    <2> HIDE DEF f, e
    <2> DEFINE r == Append(f, e)
    <2>5. r \in Seq(Block) /\ Len(r) = Len(q) /\ \A i \in 1..Len(q) : q[i] = r[i]
      BY <2>3, <2>4
    <2> HIDE DEF r
    <2>6. q = r
      BY <2>5
    <2> QED
      BY <2>2, <2>6 DEF r
  <1> HIDE DEF f, e
  <1>2. Size(Append(f, e)) = Size(f) + e.size /\ Size(f) \in Nat /\ e.size \in Nat
    BY <1>1, SizeOfMore, BlockNumbers
  <1>3. Size(f) <= Size(q)
    BY <1>1, <1>2
  <1> QED
    BY <1>3 DEF f

\* The block that opens a chunk is a stretch of its own ...
LEMMA StretchOfOne ==
  ASSUME NEW q, q = <<>>, NEW b \in Block, b.speech
  PROVE  /\ Append(q, b) \in Seq(Block) /\ Append(q, b) # <<>>
         /\ Stretch(Append(q, b))
         /\ Last(Append(q, b)) = b /\ Append(q, b)[1] = b
  <1>1. b.id \in Nat
    BY BlockNumbers
  <1>2. Len(Append(q, b)) = 1 /\ Append(q, b)[1] = b
    OBVIOUS
  <1>3. Stretch(Append(q, b))
    BY <1>1, <1>2 DEF Stretch
  <1>4. Append(q, b) \in Seq(Block) /\ Append(q, b) # <<>>
    OBVIOUS
  <1> QED
    BY <1>2, <1>3, <1>4 DEF Last

\* ... and the next one that is delivered makes it a longer one.
LEMMA StretchLonger ==
  ASSUME NEW q \in Seq(Block), q # <<>>, Stretch(q),
         NEW b \in Block, Last(q).id = b.id - 1
  PROVE  /\ Append(q, b) \in Seq(Block) /\ Append(q, b) # <<>>
         /\ Stretch(Append(q, b))
         /\ Last(Append(q, b)) = b /\ Append(q, b)[1] = q[1]
         /\ Front(Append(q, b)) = q
  <1> DEFINE r == Append(q, b)
  <1>1. Len(q) \in Nat /\ Len(q) > 0
    OBVIOUS
  <1>2. /\ r \in Seq(Block) /\ Len(r) = Len(q) + 1 /\ r[Len(r)] = b
        /\ \A i \in 1..Len(q) : r[i] = q[i]
    OBVIOUS
  <1>3. b.id \in Nat /\ q[1].id \in Nat /\ q[Len(q)].id \in Nat
    <2>1. q[1] \in Block /\ q[Len(q)] \in Block
      BY <1>1
    <2> QED
      BY <2>1, BlockNumbers
  <1>4. Front(r) = q
    <2>1. SubSeq(r, 1, Len(q)) = q
      BY <1>1
    <2> HIDE DEF r
    <2> QED
      BY <1>1, <1>2, <2>1 DEF Front
  <1> HIDE DEF r
  <1>5. b.id = q[1].id + Len(q)
    <2>1. Len(q) \in 1..Len(q)
      BY <1>1
    <2>2. q[Len(q)].id = q[1].id + Len(q) - 1
      BY <2>1 DEF Stretch
    <2> QED
      BY <1>1, <1>3, <2>2 DEF Last
  <1>6. Stretch(r)
    <2>1. r[1] = q[1]
      BY <1>1, <1>2
    <2>2. ASSUME NEW k \in 1..Len(r)
          PROVE  r[k].id = r[1].id + k - 1
      <3>1. CASE k \in 1..Len(q)
        BY <1>2, <2>1, <3>1 DEF Stretch
      <3>2. CASE k = Len(q) + 1
        BY <1>1, <1>2, <1>3, <1>5, <2>1, <3>2
      <3> QED
        BY <1>1, <1>2, <3>1, <3>2
    <2> QED
      BY <2>1, <2>2 DEF Stretch
  <1>7. r # <<>> /\ Last(r) = b /\ r[1] = q[1]
    BY <1>1, <1>2 DEF Last
  <1> QED
    BY <1>2, <1>4, <1>6, <1>7 DEF r

-----------------------------------------------------------------------------
(***************************************************************************)
(* The chunks.                                                             *)
(***************************************************************************)

\* The blocks that are through the mutex.
Seen == IF tapPc = "lock" THEN delivered - 1 ELSE delivered

ThreadsTyped ==
  /\ state \in {"LISTENING", "RECORDING"}
  /\ timeout \in Timeouts
  /\ feeding \in BOOLEAN
  /\ tapPc \in {"idle", "lock", "notify", "emit"}
  /\ delivered \in 0..MaxBlocks
  /\ IF tapPc = "lock" THEN block \in Block /\ block.id = delivered ELSE block = <<>>

\* A chunk as flush() hands it over, of the first n blocks.
Made(c, n) ==
  /\ c \in Seq(Block) /\ c # <<>>
  /\ Stretch(c) /\ Last(c).id <= n
  /\ Size(c) >= FlushMin /\ Size(Front(c)) < MaxChunk

ChunksInv ==
  /\ chunks \in Seq(Seq(Block)) /\ tapChunk \in Seq(Block) /\ mainChunk \in Seq(Block)
  /\ \A i \in 1..Len(chunks) : Made(chunks[i], Seen)
  /\ tapChunk # <<>> => Made(tapChunk, Seen)
  /\ mainChunk # <<>> => Made(mainChunk, Seen)

\* The buffer: it ends with the last block that came through, and the pause is part
\* of it.
BufferInv ==
  /\ buffer \in Seq(Block)
  /\ buffer # <<>> => Stretch(buffer) /\ Last(buffer).id = Seen
  /\ Size(buffer) < MaxChunk
  /\ silence \in 0..Size(buffer)
  /\ \E t \in Timeouts : silence < t

\* One chunk is on its way at a time: the tap's empties the buffer, and main's is
\* taken with the microphone off, when no block can end another one.
OneChunkInv ==
  /\ tapChunk # <<>> => tapPc \in {"notify", "emit"} /\ buffer = <<>>
  /\ tapPc = "emit" => tapChunk # <<>>
  /\ mainChunk # <<>> => /\ tapChunk = <<>> /\ ~feeding
                         /\ tapPc = "lock" => buffer = <<>>

\* What is handed over comes before what is on its way, and that before the buffer.
OrderInv ==
  /\ \A i, j \in 1..Len(chunks) : i < j => Before(chunks[i], chunks[j])
  /\ \A i \in 1..Len(chunks) : /\ Before(chunks[i], tapChunk)
                               /\ Before(chunks[i], mainChunk)
                               /\ Before(chunks[i], buffer)
  /\ Before(tapChunk, buffer) /\ Before(mainChunk, buffer)

StretchInv == ThreadsTyped /\ ChunksInv /\ BufferInv /\ OneChunkInv /\ OrderInv

\* Nothing has been delivered.
LEMMA StretchInit == Init => StretchInv
  <1> SUFFICES ASSUME Init
               PROVE  StretchInv
    OBVIOUS
  <1>1. ThreadsTyped
    <2>1. 0 \in 0..MaxBlocks
      BY AssemblerAssumption
    <2> QED
      BY <2>1 DEF Init, ThreadsTyped
  <1>2. ChunksInv
    BY DEF Init, ChunksInv
  <1>3. BufferInv
    <2>1. Size(<<>>) = 0
      BY SizeOfNone
    <2>2. \E t \in Timeouts : 0 < t
      BY AssemblerAssumption
    <2>3. 0 < MaxChunk
      BY AssemblerAssumption
    <2>4. buffer \in Seq(Block)
      BY DEF Init
    <2> QED
      BY <2>1, <2>2, <2>3, <2>4 DEF Init, BufferInv
  <1>4. OneChunkInv /\ OrderInv
    BY DEF Init, OneChunkInv, OrderInv, Before
  <1> QED
    BY <1>1, <1>2, <1>3, <1>4 DEF StretchInv

\* A chunk stays what it is when more blocks come.
LEMMA MadeLater ==
  ASSUME NEW c, NEW n \in Int, NEW m \in Int, n <= m, Made(c, n)
  PROVE  Made(c, m)
  <1>1. c \in Seq(Block) /\ Len(c) \in Nat /\ Len(c) > 0
    BY DEF Made
  <1>2. c[Len(c)] \in Block
    BY <1>1
  <1>3. Last(c).id \in Nat
    BY <1>2, BlockNumbers DEF Last
  <1>4. Last(c).id <= m
    BY <1>3 DEF Made
  <1> QED
    BY <1>4 DEF Made

\* The blocks through the mutex are a number.
LEMMA SeenIsInt ==
  ASSUME ThreadsTyped
  PROVE  Seen \in Int /\ delivered \in Int
  BY AssemblerAssumption DEF ThreadsTyped, Seen

\* The steps that move no block, and see the same ones or, with the buffer empty,
\* more.
LEMMA ChunksStay ==
  ASSUME StretchInv, UNCHANGED <<buffer, tapChunk, mainChunk, chunks>>,
         Seen' \in Int, Seen <= Seen', buffer = <<>> \/ Seen = Seen',
         silence' = silence
  PROVE  ChunksInv' /\ BufferInv' /\ OrderInv'
  <1>1. Seen \in Int
    BY SeenIsInt DEF StretchInv
  <1>2. \A c : Made(c, Seen) => Made(c, Seen')
    BY <1>1, MadeLater
  <1>3. ChunksInv'
    BY <1>2, Zenon DEF StretchInv, ChunksInv
  <1>4. BufferInv'
    BY Zenon DEF StretchInv, BufferInv
  <1>5. OrderInv'
    BY Zenon DEF StretchInv, OrderInv
  <1> QED
    BY <1>3, <1>4, <1>5

\* What the threads do themselves is typed.
LEMMA ThreadsStep ==
  ASSUME ThreadsTyped, [Next]_vars
  PROVE  ThreadsTyped'
  <1>1. CASE \E speech \in BOOLEAN, size \in BlockSizes : TapBlock(speech, size)
    <2>1. PICK speech \in BOOLEAN, size \in BlockSizes : TapBlock(speech, size)
      BY <1>1
    <2>2. delivered + 1 \in 1..MaxBlocks /\ delivered' = delivered + 1
      BY <2>1, AssemblerAssumption DEF TapBlock, ThreadsTyped
    <2>3. block' \in Block /\ block'.id = delivered'
      BY <2>1, <2>2 DEF TapBlock, Block
    <2>4. delivered' \in 0..MaxBlocks
      BY <2>2, AssemblerAssumption
    <2> QED
      BY <2>1, <2>3, <2>4 DEF TapBlock, ThreadsTyped
  <1>2. CASE FeedDiscards \/ FeedOpens \/ FeedRecords
    BY <1>2 DEF FeedDiscards, FeedOpens, FeedRecords, FeedFrame, Flush, ThreadsTyped
  <1>3. CASE FeedNotifies \/ FeedEmits
    BY <1>3 DEF FeedNotifies, FeedEmits, ThreadsTyped
  <1>4. CASE ForceFlush \/ ForceFlushEmits \/ StartMic \/ StopMic
    BY <1>4 DEF ForceFlush, ForceFlushEmits, StartMic, StopMic, Flush, ThreadsTyped
  <1>5. CASE (\E t \in Timeouts : SetSilenceTimeout(t)) \/ UNCHANGED vars
    BY <1>5 DEF SetSilenceTimeout, vars, ThreadsTyped
  <1> QED
    BY <1>1, <1>2, <1>3, <1>4, <1>5 DEF Next, Feed

\* A block has come before it is through, and so it is not seen yet.
LEMMA TapBlockStretch ==
  ASSUME StretchInv, NEW speech \in BOOLEAN, NEW size \in BlockSizes,
         TapBlock(speech, size)
  PROVE  ChunksInv' /\ BufferInv' /\ OrderInv' /\ OneChunkInv'
  <1>1. Seen' = Seen /\ Seen \in Int
    BY SeenIsInt DEF StretchInv, TapBlock, Seen
  <1>2. ChunksInv' /\ BufferInv' /\ OrderInv'
    BY <1>1, ChunksStay DEF TapBlock
  <1>3. OneChunkInv'
    BY DEF TapBlock, StretchInv, OneChunkInv
  <1> QED
    BY <1>2, <1>3

\* Silence while LISTENING is thrown away: it is seen, and the buffer is empty.
LEMMA DiscardStretch ==
  ASSUME StretchInv, ListeningIsEmpty, FeedDiscards
  PROVE  ChunksInv' /\ BufferInv' /\ OrderInv' /\ OneChunkInv'
  <1>1. Seen <= Seen' /\ Seen' \in Int
    BY SeenIsInt DEF StretchInv, FeedDiscards, FeedFrame, Seen
  <1>2. buffer = <<>>
    BY DEF ListeningIsEmpty, FeedDiscards
  <1>3. ChunksInv' /\ BufferInv' /\ OrderInv'
    BY <1>1, <1>2, ChunksStay DEF FeedDiscards, FeedFrame
  <1>4. OneChunkInv'
    BY <1>2 DEF FeedDiscards, FeedFrame, StretchInv, OneChunkInv
  <1> QED
    BY <1>3, <1>4

\* on_state, the microphone and the timeout move no block.
LEMMA QuietStretch ==
  ASSUME StretchInv,
         \/ FeedNotifies \/ StartMic \/ StopMic
         \/ \E t \in Timeouts : SetSilenceTimeout(t)
         \/ UNCHANGED vars
  PROVE  ChunksInv' /\ BufferInv' /\ OrderInv' /\ OneChunkInv'
  <1>1. Seen' = Seen /\ Seen \in Int
    BY SeenIsInt
    DEF StretchInv, FeedNotifies, StartMic, StopMic, SetSilenceTimeout, vars, Seen
  <1>2. UNCHANGED <<buffer, tapChunk, mainChunk, chunks, silence, block>>
    BY DEF FeedNotifies, StartMic, StopMic, SetSilenceTimeout, vars
  <1>3. ChunksInv' /\ BufferInv' /\ OrderInv'
    BY <1>1, <1>2, ChunksStay
  <1>4. OneChunkInv'
    BY DEF FeedNotifies, StartMic, StopMic, SetSilenceTimeout, vars, StretchInv,
           OneChunkInv
  <1> QED
    BY <1>3, <1>4

\* What comes before the first block of a buffer comes before the buffer that has
\* one more.
LEMMA BeforeLonger ==
  ASSUME NEW c, NEW q \in Seq(Block), NEW b \in Block, Before(c, q),
         c # <<>> => Last(c).id < b.id
  PROVE  Before(c, Append(q, b))
  <1> DEFINE r == Append(q, b)
  <1>1. q = <<>> => r[1] = b
    OBVIOUS
  <1>2. q # <<>> => r[1] = q[1]
    OBVIOUS
  <1> HIDE DEF r
  <1>3. Before(c, r)
    BY <1>1, <1>2 DEF Before
  <1> QED
    BY <1>3 DEF r

\* The buffer when the block in hand is added to it: one stretch, longer by a block
\* of which nothing has been seen, and after everything that has left the buffer.
LEMMA Longer ==
  ASSUME StretchInv, tapPc = "lock", buffer = <<>> => block.speech
  PROVE  LET longer == Append(buffer, block)
         IN  /\ block \in Block /\ block.id = delivered /\ Seen = delivered - 1
             /\ longer \in Seq(Block) /\ longer # <<>>
             /\ Stretch(longer) /\ Last(longer) = block
             /\ Size(buffer) \in Nat /\ Size(longer) = Size(buffer) + block.size
             /\ Front(longer) = buffer
             /\ \A i \in 1..Len(chunks) : Before(chunks[i], longer)
             /\ Before(tapChunk, longer) /\ Before(mainChunk, longer)
  <1> DEFINE longer == Append(buffer, block)
  <1>1. block \in Block /\ block.id = delivered /\ Seen = delivered - 1 /\ buffer \in Seq(Block)
    BY DEF StretchInv, ThreadsTyped, BufferInv, Seen
  <1>2. Size(buffer) \in Nat /\ Size(longer) = Size(buffer) + block.size
    BY <1>1, SizeOfMore
  <1>3. /\ longer \in Seq(Block) /\ longer # <<>>
        /\ Stretch(longer) /\ Last(longer) = block
        /\ Front(longer) = buffer
    <2>1. CASE buffer = <<>>
      <3>1. Front(longer) = buffer
        BY <2>1 DEF Front
      <3> QED
        BY <1>1, <2>1, <3>1, StretchOfOne
    <2>2. CASE buffer # <<>>
      <3>1. Stretch(buffer) /\ Last(buffer).id = block.id - 1
        BY <1>1, <2>2 DEF StretchInv, BufferInv
      <3> QED
        BY <1>1, <2>2, <3>1, StretchLonger
    <2> QED
      BY <2>1, <2>2
  <1>4. \A c \in Seq(Block) : c # <<>> /\ Made(c, Seen) => Last(c).id < block.id
    <2> SUFFICES ASSUME NEW c \in Seq(Block), c # <<>>, Made(c, Seen)
                 PROVE  Last(c).id < block.id
      OBVIOUS
    <2>1. Len(c) \in 1..Len(c)
      OBVIOUS
    <2>2. Last(c).id \in Nat
      BY <2>1, BlockNumbers DEF Last
    <2> QED
      BY <1>1, <2>2, SeenIsInt DEF Made, StretchInv
  <1> HIDE DEF longer
  <1>5. ASSUME NEW i \in 1..Len(chunks)
        PROVE  Before(chunks[i], longer)
    <2>1. chunks[i] \in Seq(Block) /\ Made(chunks[i], Seen) /\ Before(chunks[i], buffer)
      BY DEF StretchInv, ChunksInv, OrderInv
    <2> QED
      BY <1>1, <1>4, <2>1, BeforeLonger DEF longer
  <1>6. Before(tapChunk, longer) /\ Before(mainChunk, longer)
    <2>1. /\ tapChunk \in Seq(Block) /\ mainChunk \in Seq(Block)
          /\ tapChunk # <<>> => Made(tapChunk, Seen)
          /\ mainChunk # <<>> => Made(mainChunk, Seen)
          /\ Before(tapChunk, buffer) /\ Before(mainChunk, buffer)
      BY DEF StretchInv, ChunksInv, OrderInv
    <2> QED
      BY <1>1, <1>4, <2>1, BeforeLonger DEF longer
  <1> QED
    BY <1>1, <1>2, <1>3, <1>5, <1>6 DEF longer

\* While a block waits for the mutex nothing of the tap's is on its way; and where it
\* finds RECORDING, nothing of main's.
LEMMA NothingOnItsWay ==
  ASSUME StretchInv, ListeningIsEmpty, tapPc = "lock"
  PROVE  /\ tapChunk = <<>>
         /\ state = "RECORDING" => buffer # <<>> /\ mainChunk = <<>>
         /\ state = "LISTENING" => buffer = <<>>
  <1>1. tapChunk = <<>>
    BY DEF StretchInv, OneChunkInv
  <1>2. buffer = <<>> => silence = 0
    <2>1. buffer = <<>> => silence \in 0..0
      BY SizeOfNone DEF StretchInv, BufferInv
    <2> QED
      BY <2>1
  <1>3. state = "RECORDING" => buffer # <<>>
    BY <1>2 DEF ListeningIsEmpty
  <1>4. buffer # <<>> => mainChunk = <<>>
    BY DEF StretchInv, OneChunkInv
  <1> QED
    BY <1>1, <1>3, <1>4 DEF ListeningIsEmpty

\* Nothing comes before or after nothing.
LEMMA BeforeNone == \A c : Before(c, <<>>) /\ Before(<<>>, c)
  BY DEF Before

\* Speech opens a chunk.
LEMMA OpensStretch ==
  ASSUME StretchInv, ListeningIsEmpty, FeedOpens
  PROVE  ChunksInv' /\ BufferInv' /\ OrderInv' /\ OneChunkInv'
  <1> DEFINE longer == Append(buffer, block)
  <1>1. /\ tapPc = "lock" /\ tapPc' = "notify" /\ silence' = 0 /\ buffer' = longer
        /\ UNCHANGED <<tapChunk, mainChunk, chunks, feeding, delivered>>
        /\ block.speech /\ state = "LISTENING"
    BY DEF FeedOpens, FeedFrame
  <1>2. /\ block \in Block /\ block.id = delivered /\ Seen = delivered - 1
        /\ longer \in Seq(Block) /\ longer # <<>>
        /\ Stretch(longer) /\ Last(longer) = block
        /\ Size(longer) = Size(buffer) + block.size
        /\ \A i \in 1..Len(chunks) : Before(chunks[i], longer)
        /\ Before(tapChunk, longer) /\ Before(mainChunk, longer)
    BY <1>1, Longer
  <1>3. Seen' = delivered /\ Seen \in Int /\ Seen' \in Int /\ Seen <= Seen'
    BY <1>1, <1>2, SeenIsInt DEF Seen, StretchInv
  <1>4. tapChunk = <<>> /\ buffer = <<>>
    BY <1>1, NothingOnItsWay
  <1>5. Size(longer) \in Nat /\ Size(longer) < MaxChunk
    BY <1>2, <1>4, SizeOfNone, BlockNumbers
  <1> HIDE DEF longer
  <1>6. ChunksInv'
    <2>1. \A c : Made(c, Seen) => Made(c, Seen')
      BY <1>3, MadeLater
    <2> QED
      BY <1>1, <2>1, Zenon DEF StretchInv, ChunksInv
  <1>7. BufferInv'
    <2>1. \E t \in Timeouts : 0 < t
      BY AssemblerAssumption
    <2>2. 0 \in 0..Size(longer)
      BY <1>5
    <2> QED
      BY <1>1, <1>2, <1>3, <1>5, <2>1, <2>2 DEF BufferInv
  <1>8. OrderInv'
    BY <1>1, <1>2, Zenon DEF StretchInv, OrderInv
  <1>9. OneChunkInv'
    BY <1>1, <1>4 DEF StretchInv, OneChunkInv
  <1> QED
    BY <1>6, <1>7, <1>8, <1>9

\* A block that ends the chunk: the buffer and the block are the tap's chunk.
LEMMA EndsStretch ==
  ASSUME StretchInv, ListeningIsEmpty, tapPc = "lock", state = "RECORDING",
         Ends(Append(buffer, block)), tapChunk' = Append(buffer, block), Flush,
         tapPc' = "notify", FeedFrame
  PROVE  ChunksInv' /\ BufferInv' /\ OrderInv' /\ OneChunkInv'
  <1> DEFINE longer == Append(buffer, block)
  <1>1. /\ silence' = 0 /\ buffer' = <<>> /\ tapChunk' = longer
        /\ UNCHANGED <<mainChunk, chunks, feeding, delivered>>
    BY DEF Flush, FeedFrame
  <1>2. buffer # <<>> /\ mainChunk = <<>>
    BY NothingOnItsWay
  <1>3. /\ block \in Block /\ block.id = delivered /\ Seen = delivered - 1
        /\ longer \in Seq(Block) /\ longer # <<>>
        /\ Stretch(longer) /\ Last(longer) = block
        /\ Size(buffer) \in Nat /\ Size(longer) = Size(buffer) + block.size
        /\ Front(longer) = buffer
        /\ \A i \in 1..Len(chunks) : Before(chunks[i], longer)
    BY <1>2, Longer
  <1>4. Seen' = delivered /\ Seen \in Int /\ Seen' \in Int /\ Seen <= Seen'
    BY <1>1, <1>3, SeenIsInt DEF Seen, StretchInv
  <1>5. Size(longer) >= FlushMin
    <2>1. Size(longer) \in Nat
      BY <1>3, BlockNumbers
    <2>2. Size(longer) >= MinChunk \/ Size(longer) >= MaxChunk
      BY DEF Ends
    <2> QED
      BY <2>1, <2>2, AssemblerAssumption
  <1> HIDE DEF longer
  <1>6. Made(longer, Seen')
    <2>1. Size(Front(longer)) < MaxChunk
      BY <1>3 DEF StretchInv, BufferInv
    <2>2. Last(longer).id <= Seen'
      BY <1>3, <1>4
    <2> QED
      BY <1>3, <1>5, <2>1, <2>2 DEF Made
  <1>7. ChunksInv'
    <2>1. \A c : Made(c, Seen) => Made(c, Seen')
      BY <1>4, MadeLater
    <2>2. mainChunk' = <<>> /\ mainChunk' \in Seq(Block)
      BY <1>1, <1>2
    <2> QED
      BY <1>1, <1>3, <1>6, <2>1, <2>2, Zenon DEF StretchInv, ChunksInv
  <1>8. BufferInv'
    <2>1. \E t \in Timeouts : 0 < t
      BY AssemblerAssumption
    <2>2. <<>> \in Seq(Block) /\ 0 < MaxChunk /\ 0 \in 0..0
      BY AssemblerAssumption
    <2> QED
      BY <1>1, <2>1, <2>2, SizeOfNone DEF BufferInv
  <1>9. OrderInv'
    BY <1>1, <1>2, <1>3, BeforeNone, Zenon DEF StretchInv, OrderInv
  <1>10. OneChunkInv'
    BY <1>1, <1>2, <1>3 DEF OneChunkInv
  <1> QED
    BY <1>7, <1>8, <1>9, <1>10

\* A block that does not: the pause stays shorter than some timeout, because it is
\* shorter than the one in force or than MinChunk.
LEMMA GrowsStretch ==
  ASSUME StretchInv, ListeningIsEmpty, tapPc = "lock", state = "RECORDING",
         ~Ends(Append(buffer, block)), buffer' = Append(buffer, block),
         silence' = SilenceWith, tapPc' = "idle", UNCHANGED tapChunk, FeedFrame
  PROVE  ChunksInv' /\ BufferInv' /\ OrderInv' /\ OneChunkInv'
  <1> DEFINE longer == Append(buffer, block)
  <1>1. /\ silence' = SilenceWith /\ buffer' = longer
        /\ UNCHANGED <<tapChunk, mainChunk, chunks, feeding, delivered>>
    BY DEF FeedFrame
  <1>2. buffer # <<>> /\ mainChunk = <<>> /\ tapChunk = <<>>
    BY NothingOnItsWay
  <1>3. /\ block \in Block /\ block.id = delivered /\ Seen = delivered - 1
        /\ longer \in Seq(Block) /\ longer # <<>>
        /\ Stretch(longer) /\ Last(longer) = block
        /\ Size(buffer) \in Nat /\ Size(longer) = Size(buffer) + block.size
        /\ \A i \in 1..Len(chunks) : Before(chunks[i], longer)
    BY <1>2, Longer
  <1>4. Seen' = delivered /\ Seen \in Int /\ Seen' \in Int /\ Seen <= Seen'
    BY <1>1, <1>3, SeenIsInt DEF Seen, StretchInv
  <1>5. block.size \in Nat /\ Size(longer) \in Nat
    BY <1>3, BlockNumbers
  <1>6. /\ Size(longer) < MaxChunk
        /\ SilenceWith < timeout \/ Size(longer) < MinChunk
    <2>1. MaxChunk \in Nat /\ MinChunk \in Nat /\ timeout \in Nat
      BY AssemblerAssumption DEF StretchInv, ThreadsTyped
    <2>2. SilenceWith \in Nat
      BY <1>5 DEF SilenceWith, StretchInv, BufferInv
    <2> QED
      BY <1>5, <2>1, <2>2 DEF Ends
  <1>7. SilenceWith \in 0..Size(longer)
    <2>1. silence \in 0..Size(buffer)
      BY DEF StretchInv, BufferInv
    <2> QED
      BY <1>3, <1>5, <2>1 DEF SilenceWith
  <1> HIDE DEF longer
  <1>8. ChunksInv'
    <2>1. \A c : Made(c, Seen) => Made(c, Seen')
      BY <1>4, MadeLater
    <2> QED
      BY <1>1, <2>1, Zenon DEF StretchInv, ChunksInv
  <1>9. BufferInv'
    <2>1. \E t \in Timeouts : SilenceWith < t
      <3>1. CASE SilenceWith < timeout
        BY <3>1 DEF StretchInv, ThreadsTyped
      <3>2. CASE Size(longer) < MinChunk
        <4>1. PICK t \in Timeouts : t \in MinChunk..MaxChunk
          BY AssemblerAssumption
        <4>2. SilenceWith < t
          BY <1>5, <1>7, <3>2, <4>1, AssemblerAssumption
        <4> QED
          BY <4>2
      <3> QED
        BY <1>6, <3>1, <3>2
    <2> QED
      BY <1>1, <1>3, <1>4, <1>6, <1>7, <2>1 DEF BufferInv
  <1>10. OrderInv'
    BY <1>1, <1>2, <1>3, BeforeNone, Zenon DEF StretchInv, OrderInv
  <1>11. OneChunkInv'
    BY <1>1, <1>2 DEF OneChunkInv
  <1> QED
    BY <1>8, <1>9, <1>10, <1>11

\* on_chunk: a chunk that was on its way is the last one handed over.
LEMMA HandedOver ==
  ASSUME StretchInv, NEW c \in Seq(Block), Made(c, Seen), Before(c, buffer),
         \A i \in 1..Len(chunks) : Before(chunks[i], c)
  PROVE  LET more == Append(chunks, c)
         IN  /\ more \in Seq(Seq(Block))
             /\ \A i \in 1..Len(more) : Made(more[i], Seen) /\ Before(more[i], buffer)
             /\ \A i, j \in 1..Len(more) : i < j => Before(more[i], more[j])
  <1> DEFINE more == Append(chunks, c)
  <1>1. chunks \in Seq(Seq(Block))
    BY DEF StretchInv, ChunksInv
  <1>2. /\ more \in Seq(Seq(Block)) /\ Len(chunks) \in Nat /\ Len(more) = Len(chunks) + 1
        /\ more[Len(more)] = c
        /\ \A i \in 1..Len(chunks) : more[i] = chunks[i]
    BY <1>1
  <1> HIDE DEF more
  <1>3. ASSUME NEW i \in 1..Len(more)
        PROVE  Made(more[i], Seen) /\ Before(more[i], buffer)
    <2>1. CASE i \in 1..Len(chunks)
      BY <1>2, <2>1 DEF StretchInv, ChunksInv, OrderInv
    <2>2. CASE i = Len(more)
      BY <1>2, <2>2
    <2> QED
      BY <1>2, <2>1, <2>2
  <1>4. ASSUME NEW i \in 1..Len(more), NEW j \in 1..Len(more), i < j
        PROVE  Before(more[i], more[j])
    <2>1. i \in 1..Len(chunks)
      BY <1>2, <1>4
    <2>2. CASE j \in 1..Len(chunks)
      BY <1>2, <1>4, <2>1, <2>2 DEF StretchInv, OrderInv
    <2>3. CASE j = Len(more)
      BY <1>2, <2>1, <2>3
    <2> QED
      BY <1>2, <2>2, <2>3
  <1> QED
    BY <1>2, <1>3, <1>4 DEF more

\* The tap hands its chunk over; main has none.
LEMMA EmitsStretch ==
  ASSUME StretchInv, FeedEmits
  PROVE  ChunksInv' /\ BufferInv' /\ OrderInv' /\ OneChunkInv'
  <1> DEFINE more == Append(chunks, tapChunk)
  <1>1. /\ tapPc = "emit" /\ tapPc' = "idle" /\ chunks' = more /\ tapChunk' = <<>>
        /\ UNCHANGED <<buffer, silence, mainChunk, feeding, delivered>>
    BY DEF FeedEmits
  <1>2. Seen' = Seen
    BY <1>1 DEF Seen
  <1>3. tapChunk # <<>> /\ mainChunk = <<>>
    BY <1>1 DEF StretchInv, OneChunkInv
  <1>4. /\ tapChunk \in Seq(Block) /\ Made(tapChunk, Seen) /\ Before(tapChunk, buffer)
        /\ \A i \in 1..Len(chunks) : Before(chunks[i], tapChunk)
    BY <1>3 DEF StretchInv, ChunksInv, OrderInv
  <1>5. /\ more \in Seq(Seq(Block))
        /\ \A i \in 1..Len(more) : Made(more[i], Seen) /\ Before(more[i], buffer)
        /\ \A i, j \in 1..Len(more) : i < j => Before(more[i], more[j])
    BY <1>4, HandedOver
  <1> HIDE DEF more
  <1>6. ChunksInv'
    <2>1. tapChunk' \in Seq(Block) /\ mainChunk' \in Seq(Block)
      BY <1>1, <1>3
    <2> QED
      BY <1>1, <1>2, <1>3, <1>5, <2>1, Zenon DEF ChunksInv
  <1>7. BufferInv'
    BY <1>1, <1>2, Zenon DEF StretchInv, BufferInv
  <1>8. OrderInv'
    BY <1>1, <1>3, <1>5, BeforeNone, Zenon DEF OrderInv
  <1>9. OneChunkInv'
    BY <1>1, <1>3 DEF OneChunkInv
  <1> QED
    BY <1>6, <1>7, <1>8, <1>9

\* main takes the buffer, when there is enough of it.
LEMMA ForceFlushStretch ==
  ASSUME StretchInv, ForceFlush
  PROVE  ChunksInv' /\ BufferInv' /\ OrderInv' /\ OneChunkInv'
  <1>1. /\ mainChunk = <<>> /\ ~feeding /\ Size(buffer) >= FlushMin
        /\ mainChunk' = buffer /\ buffer' = <<>> /\ silence' = 0
        /\ UNCHANGED <<chunks, tapChunk, feeding, tapPc, delivered>>
    BY DEF ForceFlush, LongEnough, Flush
  <1>2. Seen' = Seen /\ Seen \in Int
    BY <1>1, SeenIsInt DEF Seen, StretchInv
  <1>3. buffer # <<>>
    BY <1>1, SizeOfNone, AssemblerAssumption
  <1>4. tapChunk = <<>> /\ tapPc # "emit"
    BY <1>3 DEF StretchInv, OneChunkInv
  <1>5. /\ buffer \in Seq(Block) /\ Stretch(buffer) /\ Last(buffer).id = Seen
        /\ Size(buffer) < MaxChunk
    BY <1>3 DEF StretchInv, BufferInv
  <1>6. Made(buffer, Seen)
    <2>1. Size(buffer) \in Nat /\ Size(Front(buffer)) \in Nat
      <3>1. Front(buffer) \in Seq(Block) /\ Last(buffer) \in Block
        <4>1. Len(buffer) \in 1..Len(buffer) /\ Len(buffer) - 1 \in Nat
          BY <1>3, <1>5
        <4>2. SubSeq(buffer, 1, Len(buffer) - 1) \in Seq(Block)
          BY <1>5, <4>1
        <4> QED
          BY <1>5, <4>1, <4>2 DEF Front, Last
      <3> QED
        BY <1>5, <3>1, SizeOfMore
    <2>2. Size(Front(buffer)) < MaxChunk
      BY <1>3, <1>5, <2>1, SizeOfFront, AssemblerAssumption
    <2>3. Last(buffer).id <= Seen
      BY <1>2, <1>5
    <2> QED
      BY <1>1, <1>3, <1>5, <2>2, <2>3 DEF Made
  <1>7. ChunksInv'
    BY <1>1, <1>2, <1>5, <1>6, Zenon DEF StretchInv, ChunksInv
  <1>8. BufferInv'
    <2>1. \E t \in Timeouts : 0 < t
      BY AssemblerAssumption
    <2>2. <<>> \in Seq(Block) /\ 0 < MaxChunk /\ 0 \in 0..0
      BY AssemblerAssumption
    <2> QED
      BY <1>1, <2>1, <2>2, SizeOfNone DEF BufferInv
  <1>9. OrderInv'
    BY <1>1, <1>4, BeforeNone, Zenon DEF StretchInv, OrderInv
  <1>10. OneChunkInv'
    BY <1>1, <1>4 DEF OneChunkInv
  <1> QED
    BY <1>7, <1>8, <1>9, <1>10

\* main hands its chunk over, and the tap has none, whatever block it is about to add.
LEMMA ForceFlushEmitsStretch ==
  ASSUME StretchInv, ForceFlushEmits
  PROVE  ChunksInv' /\ BufferInv' /\ OrderInv' /\ OneChunkInv'
  <1> DEFINE more == Append(chunks, mainChunk)
  <1>1. /\ mainChunk # <<>> /\ chunks' = more /\ mainChunk' = <<>>
        /\ UNCHANGED <<buffer, silence, tapChunk, tapPc, feeding, delivered>>
    BY DEF ForceFlushEmits
  <1>2. Seen' = Seen
    BY <1>1 DEF Seen
  <1>3. tapChunk = <<>>
    BY <1>1 DEF StretchInv, OneChunkInv
  <1>4. /\ mainChunk \in Seq(Block) /\ Made(mainChunk, Seen) /\ Before(mainChunk, buffer)
        /\ \A i \in 1..Len(chunks) : Before(chunks[i], mainChunk)
    BY <1>1 DEF StretchInv, ChunksInv, OrderInv
  <1>5. /\ more \in Seq(Seq(Block))
        /\ \A i \in 1..Len(more) : Made(more[i], Seen) /\ Before(more[i], buffer)
        /\ \A i, j \in 1..Len(more) : i < j => Before(more[i], more[j])
    BY <1>4, HandedOver
  <1> HIDE DEF more
  <1>6. ChunksInv'
    <2>1. tapChunk' \in Seq(Block) /\ mainChunk' \in Seq(Block)
      BY <1>1, <1>3
    <2> QED
      BY <1>1, <1>2, <1>3, <1>5, <2>1, Zenon DEF ChunksInv
  <1>7. BufferInv'
    BY <1>1, <1>2, Zenon DEF StretchInv, BufferInv
  <1>8. OrderInv'
    BY <1>1, <1>3, <1>5, BeforeNone, Zenon DEF OrderInv
  <1>9. OneChunkInv'
    BY <1>1, <1>3 DEF StretchInv, OneChunkInv
  <1> QED
    BY <1>6, <1>7, <1>8, <1>9

\* Every step keeps the invariant.
LEMMA StretchStep ==
  ASSUME StretchInv, ListeningIsEmpty, [Next]_vars
  PROVE  StretchInv'
  <1>1. ThreadsTyped'
    BY ThreadsStep DEF StretchInv
  <1> SUFFICES ChunksInv' /\ BufferInv' /\ OrderInv' /\ OneChunkInv'
    BY <1>1 DEF StretchInv
  <1>2. CASE \E speech \in BOOLEAN, size \in BlockSizes : TapBlock(speech, size)
    BY <1>2, TapBlockStretch
  <1>3. CASE Feed
    <2>1. CASE FeedRecords
      BY <2>1, EndsStretch, GrowsStretch DEF FeedRecords
    <2> QED
      BY <1>3, <2>1, DiscardStretch, OpensStretch, QuietStretch, EmitsStretch DEF Feed
  <1>4. CASE ForceFlush \/ ForceFlushEmits
    BY <1>4, ForceFlushStretch, ForceFlushEmitsStretch
  <1>5. CASE \/ StartMic \/ StopMic \/ (\E t \in Timeouts : SetSilenceTimeout(t))
             \/ UNCHANGED vars
    BY <1>5, QuietStretch
  <1> QED
    BY <1>2, <1>3, <1>4, <1>5 DEF Next

\* So it always holds.
LEMMA StretchAlways == Spec => []StretchInv
  <1>1. StretchInv /\ ListeningIsEmpty /\ [Next]_vars => StretchInv'
    BY StretchStep
  <1> QED
    BY <1>1, StretchInit, ListeningIsEmptyAlways, PTL DEF Spec

\* Two sequences after one another.
LEMMA ConcatIs ==
  ASSUME NEW S, NEW p \in Seq(S), NEW q \in Seq(S)
  PROVE  /\ Len(p) \in Nat /\ Len(p \o q) = Len(p) + Len(q)
         /\ \A i \in 1..Len(p) : (p \o q)[i] = p[i]
         /\ \A i \in 1..Len(q) : (p \o q)[Len(p) + i] = q[i]
  OBVIOUS

\* All the chunks there are, one by one.
LEMMA PlacesOf ==
  ASSUME NEW S, NEW cs \in Seq(S), NEW t \in S, NEW m \in S, NEW b \in S
  PROVE  LET all == cs \o <<t, m, b>>
         IN  /\ Len(cs) \in Nat /\ Len(all) = Len(cs) + 3
             /\ \A i \in 1..Len(cs) : all[i] = cs[i]
             /\ all[Len(cs) + 1] = t /\ all[Len(cs) + 2] = m /\ all[Len(cs) + 3] = b
  <1> DEFINE last == <<t, m, b>>
             all == cs \o last
  <1>1. last \in Seq(S) /\ Len(last) = 3
    OBVIOUS
  <1>2. last[1] = t /\ last[2] = m /\ last[3] = b
    OBVIOUS
  <1> HIDE DEF last
  <1>3. /\ Len(cs) \in Nat /\ Len(all) = Len(cs) + Len(last)
        /\ \A i \in 1..Len(cs) : all[i] = cs[i]
        /\ \A i \in 1..Len(last) : all[Len(cs) + i] = last[i]
    BY <1>1, ConcatIs
  <1>4. Len(all) = Len(cs) + 3 /\ \A i \in 1..3 : all[Len(cs) + i] = last[i]
    BY <1>1, <1>3
  <1> QED
    BY <1>2, <1>3, <1>4 DEF last

\* The blocks in some chunks.
BlocksIn(cs) == UNION {ToSet(c) : c \in ToSet(cs)}

\* The blocks in all the chunks there are, place by place.
LEMMA BlocksOf ==
  ASSUME NEW S, NEW cs \in Seq(S), NEW t \in S, NEW m \in S, NEW b \in S
  PROVE  BlocksIn(cs \o <<t, m, b>>)
           = BlocksIn(cs) \union ToSet(t) \union ToSet(m) \union ToSet(b)
  <1> DEFINE all == cs \o <<t, m, b>>
  <1>1. /\ Len(cs) \in Nat /\ Len(all) = Len(cs) + 3
        /\ \A i \in 1..Len(cs) : all[i] = cs[i]
        /\ all[Len(cs) + 1] = t /\ all[Len(cs) + 2] = m /\ all[Len(cs) + 3] = b
    BY PlacesOf
  <1>2. DOMAIN all = 1..Len(all) /\ DOMAIN cs = 1..Len(cs)
    OBVIOUS
  <1> HIDE DEF all
  <1>3. \A i \in 1..Len(all) : i \in 1..Len(cs) \/ i = Len(cs) + 1
                               \/ i = Len(cs) + 2 \/ i = Len(cs) + 3
    BY <1>1
  <1>4. ToSet(all) = ToSet(cs) \union {t, m, b}
    <2>1. ToSet(all) \subseteq ToSet(cs) \union {t, m, b}
      <3> SUFFICES ASSUME NEW c \in ToSet(all)
                   PROVE  c \in ToSet(cs) \union {t, m, b}
        OBVIOUS
      <3>1. PICK i \in 1..Len(all) : c = all[i]
        BY <1>2 DEF ToSet
      <3> QED
        BY <1>1, <1>2, <1>3, <3>1 DEF ToSet
    <2>2. {t, m, b} \subseteq ToSet(all)
      <3>1. Len(cs) + 1 \in 1..Len(all) /\ Len(cs) + 2 \in 1..Len(all)
            /\ Len(cs) + 3 \in 1..Len(all)
        BY <1>1
      <3> QED
        BY <1>1, <1>2, <3>1 DEF ToSet
    <2>3. ToSet(cs) \subseteq ToSet(all)
      <3>1. \A i \in 1..Len(cs) : i \in 1..Len(all)
        BY <1>1
      <3> QED
        BY <1>1, <1>2, <3>1 DEF ToSet
    <2> QED
      BY <2>1, <2>2, <2>3
  <1>5. UNION {ToSet(c) : c \in ToSet(cs) \union {t, m, b}}
          = (UNION {ToSet(c) : c \in ToSet(cs)}) \union ToSet(t) \union ToSet(m)
            \union ToSet(b)
    <2> DEFINE C == ToSet(cs)
    <2> HIDE DEF C
    <2>1. UNION {ToSet(c) : c \in C \union {t, m, b}}
            = (UNION {ToSet(c) : c \in C}) \union ToSet(t) \union ToSet(m)
              \union ToSet(b)
      OBVIOUS
    <2> QED
      BY <2>1 DEF C
  <1> QED
    BY <1>4, <1>5 DEF all, BlocksIn

\* One more member.
LEMMA MembersOf ==
  ASSUME NEW S, NEW q \in Seq(S), NEW e \in S
  PROVE  ToSet(Append(q, e)) = ToSet(q) \union {e}
  <1> DEFINE r == Append(q, e)
  <1>1. /\ Len(q) \in Nat /\ DOMAIN q = 1..Len(q) /\ DOMAIN r = 1..Len(q) + 1
        /\ r[Len(q) + 1] = e /\ \A i \in 1..Len(q) : r[i] = q[i]
    OBVIOUS
  <1> HIDE DEF r
  <1>2. DOMAIN r = DOMAIN q \union {Len(q) + 1}
    BY <1>1
  <1>3. ToSet(r) = ToSet(q) \union {e}
    BY <1>1, <1>2 DEF ToSet
  <1> QED
    BY <1>3 DEF r

\* Nor is anything in nothing.
LEMMA NoMembers == ToSet(<<>>) = {}
  <1>1. DOMAIN <<>> = {}
    OBVIOUS
  <1> QED
    BY <1>1 DEF ToSet

\* What is kept, place by place.
Placed == BlocksIn(chunks) \union ToSet(tapChunk)
          \union ToSet(mainChunk) \union ToSet(buffer)

\* What is kept is what is in the places, before a step and after it.
LEMMA KeptIsPlaced ==
  /\ StretchInv => Kept = Placed
  /\ StretchInv' => Kept' = Placed'
  <1>1. ASSUME StretchInv
        PROVE  Kept = Placed
    <2>1. /\ chunks \in Seq(Seq(Block)) /\ tapChunk \in Seq(Block)
          /\ mainChunk \in Seq(Block) /\ buffer \in Seq(Block)
      BY <1>1 DEF StretchInv, ChunksInv, BufferInv
    <2>2. Kept = BlocksIn(Everywhere)
      BY DEF Kept, BlocksIn
    <2>3. BlocksIn(Everywhere)
            = BlocksIn(chunks) \union ToSet(tapChunk) \union ToSet(mainChunk)
              \union ToSet(buffer)
      BY <2>1, BlocksOf DEF Everywhere
    <2> QED
      BY <2>2, <2>3 DEF Placed
  <1>2. ASSUME StretchInv'
        PROVE  Kept' = Placed'
    <2>1. /\ chunks' \in Seq(Seq(Block)) /\ tapChunk' \in Seq(Block)
          /\ mainChunk' \in Seq(Block) /\ buffer' \in Seq(Block)
      BY <1>2 DEF StretchInv, ChunksInv, BufferInv
    <2>2. Kept' = BlocksIn(Everywhere')
      BY DEF Kept, BlocksIn
    <2>3. BlocksIn(Everywhere')
            = BlocksIn(chunks') \union ToSet(tapChunk') \union ToSet(mainChunk')
              \union ToSet(buffer')
      BY <2>1, BlocksOf DEF Everywhere
    <2> QED
      BY <2>2, <2>3 DEF Placed
  <1> QED
    BY <1>1, <1>2

-----------------------------------------------------------------------------
\* chunk_assembler.h:40: the buffer, the chunks and the pause are what they are said
\* to be; the pause never outlasts the longest timeout of the menu by a block, because a
\* shorter timeout takes effect at the next block.
THEOREM AssemblerTyped == Spec => []TypeOK
  <1>1. StretchInv => TypeOK
    <2> SUFFICES ASSUME StretchInv
                 PROVE  TypeOK
      OBVIOUS
    <2>1. \A s \in {buffer, tapChunk, mainChunk} \union ToSet(chunks) : s \in Seq(Block)
      BY DEF StretchInv, ChunksInv, BufferInv, ToSet
    <2>2. \E t \in Timeouts : silence \in 0..t - 1
      <3>1. PICK t \in Timeouts : silence < t
        BY DEF StretchInv, BufferInv
      <3>2. t \in Nat
        BY AssemblerAssumption
      <3>3. silence \in Nat
        <4>1. silence \in 0..Size(buffer)
          BY DEF StretchInv, BufferInv
        <4> QED
          BY <4>1
      <3> QED
        BY <3>1, <3>2, <3>3
    <2>3. block \in Block \union {<<>>}
      BY DEF StretchInv, ThreadsTyped
    <2> QED
      BY <2>1, <2>2, <2>3 DEF StretchInv, ThreadsTyped, TypeOK
  <1> QED
    BY <1>1, StretchAlways, PTL

\* chunk_assembler.cpp:25, :63, :70: whatever blocks come, and however forceFlush() on
\* main meets feed() on the tap, every chunk is one stretch of what the microphone
\* delivered, beginning with speech, and no two share a block: they are handed over
\* in the order they were spoken in, although on_chunk is called without the mutex.
THEOREM ChunksAreStretchesAlways == Spec => []ChunksAreStretches
  <1>1. StretchInv => ChunksAreStretches
    <2> SUFFICES ASSUME StretchInv
                 PROVE  ChunksAreStretches
      OBVIOUS
    <2> DEFINE n == Len(chunks)
               all == Everywhere
    <2>1. /\ n \in Nat /\ Len(all) = n + 3
          /\ \A i \in 1..n : all[i] = chunks[i]
          /\ all[n + 1] = tapChunk /\ all[n + 2] = mainChunk /\ all[n + 3] = buffer
      BY PlacesOf DEF StretchInv, ChunksInv, BufferInv, Everywhere
    <2>2. DOMAIN all = 1..Len(all)
      BY DEF StretchInv, ChunksInv, BufferInv, Everywhere
    <2>3. 1..Len(all) = 1..n \union {n + 1, n + 2, n + 3}
      BY <2>1
    <2>4. /\ \A i \in 1..n : Stretch(chunks[i])
          /\ tapChunk # <<>> => Stretch(tapChunk)
          /\ mainChunk # <<>> => Stretch(mainChunk)
          /\ buffer # <<>> => Stretch(buffer)
      BY DEF StretchInv, ChunksInv, BufferInv, Made
    <2>5. /\ \A i, j \in 1..n : i < j => Before(chunks[i], chunks[j])
          /\ \A i \in 1..n : /\ Before(chunks[i], tapChunk)
                             /\ Before(chunks[i], mainChunk)
                             /\ Before(chunks[i], buffer)
          /\ Before(tapChunk, buffer) /\ Before(mainChunk, buffer)
      BY DEF StretchInv, OrderInv
    <2>6. Before(tapChunk, mainChunk)
      BY DEF StretchInv, OneChunkInv, Before
    <2> HIDE DEF n, all
    <2>7. ASSUME NEW c \in ToSet(all), c # <<>>
          PROVE  Stretch(c)
      <3>1. PICK i \in 1..Len(all) : c = all[i]
        BY <2>2 DEF ToSet
      <3> QED
        BY <2>1, <2>3, <2>4, <2>7, <3>1
    <2>8. ASSUME NEW i \in 1..Len(all), NEW j \in 1..Len(all), i < j
          PROVE  Before(all[i], all[j])
      <3>1. CASE i \in 1..n
        <4>1. CASE j \in 1..n
          BY <2>1, <2>5, <2>8, <3>1, <4>1
        <4>2. CASE j \in {n + 1, n + 2, n + 3}
          BY <2>1, <2>5, <3>1, <4>2
        <4> QED
          BY <2>3, <4>1, <4>2
      <3>2. CASE i \in {n + 1, n + 2, n + 3}
        <4>1. \/ i = n + 1 /\ j = n + 2
              \/ i = n + 1 /\ j = n + 3
              \/ i = n + 2 /\ j = n + 3
          BY <2>1, <2>8, <3>2
        <4> QED
          BY <2>1, <2>5, <2>6, <4>1
      <3> QED
        BY <2>3, <3>1, <3>2
    <2> QED
      BY <2>7, <2>8 DEF ChunksAreStretches, all
  <1> QED
    BY <1>1, StretchAlways, PTL

\* chunk_assembler.cpp:50, :69: no chunk is longer than max_chunk_s by more than its
\* last block, and none is shorter than forceFlush() asks for, whichever thread took it.
THEOREM ChunksAreBoundedAlways == Spec => []ChunksAreBounded
  <1>1. StretchInv => ChunksAreBounded
    <2> SUFFICES ASSUME StretchInv
                 PROVE  ChunksAreBounded
      OBVIOUS
    <2>1. DOMAIN chunks = 1..Len(chunks)
      BY DEF StretchInv, ChunksInv
    <2>2. \A c \in ToSet(chunks) \union ({tapChunk, mainChunk} \ {<<>>}) : Made(c, Seen)
      BY <2>1 DEF StretchInv, ChunksInv, ToSet
    <2> QED
      BY <2>2 DEF StretchInv, BufferInv, Made, ChunksAreBounded
  <1> QED
    BY <1>1, StretchAlways, PTL

\* A step that moves a chunk on moves its blocks with it.
LEMMA StaysKept ==
  ASSUME StretchInv, ListeningIsEmpty, [Next]_vars
  PROVE  /\ Kept \subseteq Kept'
         /\ block # <<>> /\ block' = <<>> /\ block.speech => block \in Kept'
  <1>1. StretchInv'
    BY StretchStep
  <1>2. /\ Kept = Placed /\ Kept' = Placed'
        /\ chunks \in Seq(Seq(Block)) /\ tapChunk \in Seq(Block)
        /\ mainChunk \in Seq(Block) /\ buffer \in Seq(Block)
        /\ tapPc = "lock" => block \in Block
    BY <1>1, KeptIsPlaced DEF StretchInv, ThreadsTyped, ChunksInv, BufferInv
  <1>3. CASE FeedOpens
    <2>1. ToSet(buffer') = ToSet(buffer) \union {block}
      BY <1>2, <1>3, MembersOf DEF FeedOpens
    <2>2. UNCHANGED <<chunks, tapChunk, mainChunk>>
      BY <1>3 DEF FeedOpens, FeedFrame
    <2>3. Placed \subseteq Placed' /\ block \in Placed'
      BY <2>1, <2>2 DEF Placed
    <2> QED
      BY <1>2, <2>3
  <1>4. CASE FeedRecords
    <2> DEFINE longer == Append(buffer, block)
    <2>1. ToSet(longer) = ToSet(buffer) \union {block}
      BY <1>2, <1>4, MembersOf DEF FeedRecords
    <2>2. UNCHANGED <<chunks, mainChunk>>
      BY <1>4 DEF FeedRecords, FeedFrame
    <2>3. tapChunk = <<>>
      BY <1>4, NothingOnItsWay DEF FeedRecords
    <2>4. \/ tapChunk' = longer
          \/ buffer' = longer /\ tapChunk' = tapChunk
      BY <1>4 DEF FeedRecords
    <2> HIDE DEF longer
    <2>5. Placed \subseteq Placed' /\ block \in Placed'
      BY <2>1, <2>2, <2>3, <2>4, NoMembers DEF Placed
    <2> QED
      BY <1>2, <2>5
  <1>5. CASE FeedEmits
    <2> USE <1>5 DEF FeedEmits
    <2>1. ToSet(chunks') = ToSet(chunks) \union {tapChunk}
      BY <1>2, MembersOf
    <2>2. UNCHANGED <<buffer, mainChunk, block>>
      OBVIOUS
    <2>3. Placed \subseteq Placed'
      BY <2>1, <2>2 DEF Placed, BlocksIn
    <2>4. block = <<>>
      BY DEF StretchInv, ThreadsTyped
    <2> QED
      BY <1>2, <2>3, <2>4
  <1>6. CASE ForceFlush
    <2>1. /\ mainChunk = <<>> /\ mainChunk' = buffer
          /\ UNCHANGED <<chunks, tapChunk, block>>
      BY <1>6 DEF ForceFlush
    <2>2. Placed \subseteq Placed'
      BY <2>1, NoMembers DEF Placed
    <2> QED
      BY <1>2, <2>1, <2>2
  <1>7. CASE ForceFlushEmits
    <2>1. ToSet(chunks') = ToSet(chunks) \union {mainChunk}
      BY <1>2, <1>7, MembersOf DEF ForceFlushEmits
    <2>2. UNCHANGED <<buffer, tapChunk, block>>
      BY <1>7 DEF ForceFlushEmits
    <2>3. Placed \subseteq Placed'
      BY <2>1, <2>2 DEF Placed, BlocksIn
    <2> QED
      BY <1>2, <2>2, <2>3
  <1>8. CASE \/ \E speech \in BOOLEAN, size \in BlockSizes : TapBlock(speech, size)
             \/ FeedDiscards \/ FeedNotifies \/ StartMic \/ StopMic
             \/ \E t \in Timeouts : SetSilenceTimeout(t)
             \/ UNCHANGED vars
    <2>1. UNCHANGED <<buffer, chunks, tapChunk, mainChunk>>
      BY <1>8 DEF TapBlock, FeedDiscards, FeedFrame, FeedNotifies, StartMic, StopMic,
                  SetSilenceTimeout, vars
    <2>2. Placed' = Placed
      BY <2>1 DEF Placed
    <2>3. block' = block \/ block' # <<>> \/ ~block.speech
      <3>1. CASE \E speech \in BOOLEAN, size \in BlockSizes : TapBlock(speech, size)
        <4>1. block' \in Block
          BY <1>1, <3>1 DEF TapBlock, StretchInv, ThreadsTyped
        <4>2. <<>> \notin Block
          BY DEF Block
        <4> QED
          BY <4>1, <4>2
      <3>2. CASE FeedDiscards
        BY <3>2 DEF FeedDiscards
      <3> QED
        BY <1>8, <3>1, <3>2 DEF FeedNotifies, StartMic, StopMic, SetSilenceTimeout, vars
    <2> QED
      BY <1>2, <2>2, <2>3
  <1> QED
    BY <1>3, <1>4, <1>5, <1>6, <1>7, <1>8 DEF Next, Feed

\* chunk_assembler.cpp:19, :27, :81: a block of speech that feed() has taken is in
\* the buffer, on its way or handed over from then on, whichever thread flushes the
\* buffer and whatever it costs to call back.
THEOREM SpeechIsKeptAlways == Spec => SpeechIsKept
  <1>1. StretchInv /\ ListeningIsEmpty /\ [Next]_vars =>
          [/\ block # <<>> /\ block' = <<>> /\ block.speech => block \in Kept'
           /\ Kept \subseteq Kept']_vars
    BY StaysKept
  <1> QED
    BY <1>1, StretchAlways, ListeningIsEmptyAlways, PTL DEF Spec, SpeechIsKept

=============================================================================
