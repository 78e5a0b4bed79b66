--------------------------- MODULE ChunkAssembler ---------------------------
(***************************************************************************)
(* The assembler of session chunks (src/src/chunk_assembler.cpp): the tap  *)
(* thread feeds it blocks of speech and silence, main flushes what is left *)
(* and sets the silence timeout.  feed() and forceFlush() change the       *)
(* buffer under one mutex and call back after it, so a chunk spends some   *)
(* time in a local variable of the thread that took it.                    *)
(*                                                                         *)
(* Lengths are in samples, in a unit that keeps the order of the           *)
(* thresholds: FlushMin is the 0.5 s of forceFlush(), MinChunk is          *)
(* MIN_CHUNK_MS, MaxChunk is max_chunk_s, and every timeout of the menu    *)
(* is at least MinChunk.  A block is what one callback of the microphone   *)
(* delivers, a fraction of a second, and shorter than MaxChunk.            *)
(***************************************************************************)
EXTENDS Naturals, SequencesExt

CONSTANTS
  BlockSizes,   \* samples in a block
  FlushMin,     \* least that forceFlush() emits
  MinChunk,     \* MIN_CHUNK_MS
  MaxChunk,     \* max_chunk_s
  Timeouts,     \* values of the silence timeout
  MaxBlocks     \* bound: blocks delivered

ASSUME AssemblerAssumption ==
  /\ FlushMin \in Nat \ {0} /\ MinChunk \in Nat /\ MaxChunk \in Nat
  /\ MaxBlocks \in Nat
  /\ BlockSizes \subseteq 1..MaxChunk - 1
  /\ FlushMin < MinChunk /\ MinChunk < MaxChunk
  /\ Timeouts # {} /\ \A t \in Timeouts : t \in MinChunk..MaxChunk

VARIABLES
  state,       \* state_
  buffer,      \* buffer_, block by block
  silence,     \* silence_samples_
  timeout,     \* silence_timeout_s_
  feeding,     \* the microphone is on
  tapPc,       \* where the tap thread is in feed()
  block,       \* the block it was given, with the VAD's verdict
  tapChunk,    \* feed()'s to_emit
  mainChunk,   \* forceFlush()'s to_emit
  delivered,   \* history: blocks delivered
  chunks       \* history: what on_chunk was called with, in order

vars == <<state, buffer, silence, timeout, feeding, tapPc, block, tapChunk,
          mainChunk, delivered, chunks>>

Block == [id : 1..MaxBlocks, speech : BOOLEAN, size : BlockSizes]

\* Samples in a sequence of blocks.
Size(blocks) ==
  LET upTo[n \in 0..Len(blocks)] ==
        IF n = 0 THEN 0 ELSE upTo[n - 1] + blocks[n].size
  IN  upTo[Len(blocks)]

TypeOK ==
  /\ state \in {"LISTENING", "RECORDING"}
  /\ \A s \in {buffer, tapChunk, mainChunk} \union ToSet(chunks) : s \in Seq(Block)
  /\ \E t \in Timeouts : silence \in 0..t - 1
  /\ timeout \in Timeouts
  /\ feeding \in BOOLEAN
  /\ tapPc \in {"idle", "lock", "notify", "emit"}
  /\ block \in Block \union {<<>>}
  /\ delivered \in 0..MaxBlocks

Init ==
  /\ state = "LISTENING" /\ buffer = <<>> /\ silence = 0
  /\ timeout \in Timeouts
  /\ feeding = FALSE
  /\ tapPc = "idle" /\ block = <<>>
  /\ tapChunk = <<>> /\ mainChunk = <<>>
  /\ delivered = 0 /\ chunks = <<>>

-----------------------------------------------------------------------------
(***************************************************************************)
(* The tap thread: feed().                                                 *)
(***************************************************************************)

\* Mutants: the buffer is emitted and kept; the pause length survives.
FlushKeepsBuffer ==
  state' = "LISTENING" /\ silence' = 0 /\ UNCHANGED buffer
FlushKeepsSilence ==
  state' = "LISTENING" /\ buffer' = <<>> /\ UNCHANGED silence

\* flush(), with the mutex held; the caller takes buffer.
Flush == state' = "LISTENING" /\ buffer' = <<>> /\ silence' = 0

\* A block arrives and the VAD judges it, before the mutex.
TapBlock(speech, size) ==
  /\ tapPc = "idle" /\ feeding /\ delivered < MaxBlocks
  /\ tapPc' = "lock"
  /\ block' = [id |-> delivered + 1, speech |-> speech, size |-> size]
  /\ delivered' = delivered + 1
  /\ UNCHANGED <<state, buffer, silence, timeout, feeding, tapChunk, mainChunk,
                 chunks>>

FeedFrame == UNCHANGED <<timeout, feeding, mainChunk, delivered, chunks>>

\* LISTENING: silence is thrown away.
FeedDiscards ==
  /\ tapPc = "lock" /\ state = "LISTENING" /\ ~block.speech
  /\ tapPc' = "idle" /\ block' = <<>>
  /\ UNCHANGED <<state, buffer, silence, tapChunk>>
  /\ FeedFrame

\* LISTENING: speech opens a chunk.
FeedOpens ==
  /\ tapPc = "lock" /\ state = "LISTENING" /\ block.speech
  /\ tapPc' = "notify" /\ block' = <<>>
  /\ state' = "RECORDING"
  /\ silence' = 0
  /\ buffer' = Append(buffer, block)
  /\ UNCHANGED tapChunk
  /\ FeedFrame

\* The pause so far, the block in hand included.
SilenceWith == IF block.speech THEN 0 ELSE silence + block.size

\* Mutants: a chunk is ended by its length only, or by silence only.
EndsAtMax(longer) == Size(longer) >= MaxChunk
EndsOnSilence(longer) == SilenceWith >= timeout /\ Size(longer) >= MinChunk

\* silence_flush || hard_flush
Ends(longer) ==
  \/ SilenceWith >= timeout /\ Size(longer) >= MinChunk
  \/ Size(longer) >= MaxChunk

\* Mutant: the block that ends a chunk is not in it.
FeedRecordsOthers ==
  LET longer == Append(buffer, block)
  IN  /\ tapPc = "lock" /\ state = "RECORDING"
      /\ block' = <<>>
      /\ \/ /\ Ends(longer)
            /\ tapChunk' = buffer
            /\ Flush
            /\ tapPc' = "notify"
         \/ /\ ~Ends(longer)
            /\ buffer' = longer
            /\ silence' = SilenceWith
            /\ tapPc' = "idle"
            /\ UNCHANGED <<state, tapChunk>>
      /\ FeedFrame

\* RECORDING: the block is added, and may end the chunk.
FeedRecords ==
  LET longer == Append(buffer, block)
  IN  /\ tapPc = "lock" /\ state = "RECORDING"
      /\ block' = <<>>
      /\ \/ /\ Ends(longer)
            /\ tapChunk' = longer
            /\ Flush
            /\ tapPc' = "notify"
         \/ /\ ~Ends(longer)
            /\ buffer' = longer
            /\ silence' = SilenceWith
            /\ tapPc' = "idle"
            /\ UNCHANGED <<state, tapChunk>>
      /\ FeedFrame

\* After the mutex: on_state, whose listener only colours the menu bar.
FeedNotifies ==
  /\ tapPc = "notify"
  /\ tapPc' = IF tapChunk = <<>> THEN "idle" ELSE "emit"
  /\ UNCHANGED <<state, buffer, silence, timeout, feeding, block, tapChunk,
                 mainChunk, delivered, chunks>>

\* After on_state: on_chunk.
FeedEmits ==
  /\ tapPc = "emit"
  /\ tapPc' = "idle"
  /\ chunks' = Append(chunks, tapChunk)
  /\ tapChunk' = <<>>
  /\ UNCHANGED <<state, buffer, silence, timeout, feeding, block, mainChunk,
                 delivered>>

Feed == FeedDiscards \/ FeedOpens \/ FeedRecords \/ FeedNotifies \/ FeedEmits

-----------------------------------------------------------------------------
(***************************************************************************)
(* The main thread.                                                        *)
(***************************************************************************)

LongEnough == Size(buffer) >= FlushMin

\* forceFlush(), under the mutex; less than FlushMin stays where it is.  Both
\* callers, stopSession() and stop(), turn the microphone off first.
ForceFlush ==
  /\ mainChunk = <<>>
  /\ ~feeding
  /\ LongEnough
  /\ mainChunk' = buffer
  /\ Flush
  /\ UNCHANGED <<timeout, feeding, tapPc, block, tapChunk, delivered, chunks>>

\* After the mutex: on_chunk.  No on_state.
ForceFlushEmits ==
  /\ mainChunk # <<>>
  /\ chunks' = Append(chunks, mainChunk)
  /\ mainChunk' = <<>>
  /\ UNCHANGED <<state, buffer, silence, timeout, feeding, tapPc, block, tapChunk,
                 delivered>>

SetSilenceTimeout(t) ==
  /\ timeout' = t
  /\ UNCHANGED <<state, buffer, silence, feeding, tapPc, block, tapChunk, mainChunk,
                 delivered, chunks>>

\* startMic() and stopMic(), by main: between two calls of forceFlush().  A
\* block may still be in feed() when the microphone is off.
StartMic ==
  /\ mainChunk = <<>>
  /\ ~feeding /\ feeding' = TRUE
  /\ UNCHANGED <<state, buffer, silence, timeout, tapPc, block, tapChunk, mainChunk,
                 delivered, chunks>>

StopMic ==
  /\ mainChunk = <<>>
  /\ feeding /\ feeding' = FALSE
  /\ UNCHANGED <<state, buffer, silence, timeout, tapPc, block, tapChunk, mainChunk,
                 delivered, chunks>>

Next ==
  \/ \E speech \in BOOLEAN, size \in BlockSizes : TapBlock(speech, size)
  \/ Feed
  \/ ForceFlush \/ ForceFlushEmits
  \/ \E t \in Timeouts : SetSilenceTimeout(t)
  \/ StartMic \/ StopMic

Spec == Init /\ [][Next]_vars

-----------------------------------------------------------------------------
(***************************************************************************)
(* Properties.                                                             *)
(***************************************************************************)

\* Every block that is kept, wherever it is now, and the ones there are.
Everywhere == chunks \o <<tapChunk, mainChunk, buffer>>
Kept == UNION {ToSet(c) : c \in ToSet(Everywhere)}

\* LISTENING means an empty buffer and no pause under way, at every moment the
\* mutex is free: AppController's assembler is this buffer.
ListeningIsEmpty == state = "LISTENING" <=> buffer = <<>> /\ silence = 0

\* One stretch of what the microphone delivered, from a block of speech on.
Stretch(c) ==
  /\ c[1].speech
  /\ \A k \in 1..Len(c) : c[k].id = c[1].id + k - 1

\* c ends before d begins, if both are chunks.
Before(c, d) == c # <<>> /\ d # <<>> => Last(c).id < d[1].id

\* No block is missing between two blocks of a chunk, pauses included, and none is
\* kept twice: a chunk is one stretch, and it ends before the next one begins.  So
\* chunks are handed over in the order they were spoken in, although each thread
\* calls on_chunk after it has let the mutex go.
ChunksAreStretches ==
  /\ \A c \in ToSet(Everywhere) \ {<<>>} : Stretch(c)
  /\ \A i, j \in 1..Len(Everywhere) : i < j => Before(Everywhere[i], Everywhere[j])

\* A chunk reaches max_chunk_s at most with its last block, and is never
\* shorter than what forceFlush() asks for.
ChunksAreBounded ==
  /\ Size(buffer) < MaxChunk
  /\ \A c \in ToSet(chunks) \union ({tapChunk, mainChunk} \ {<<>>}) :
       /\ Size(c) >= FlushMin
       /\ Size(Front(c)) < MaxChunk

\* No speech is lost: once its feed() is through the mutex, a block of speech is
\* in the buffer, on its way, or in a chunk, and there it stays.
SpeechIsKept ==
  [][/\ block # <<>> /\ block' = <<>> /\ block.speech => block \in Kept'
     /\ Kept \subseteq Kept']_vars

=============================================================================
