------------------------- MODULE TranscriptionQueue -------------------------
(***************************************************************************)
(* What the transcription worker promises its users, without threads,      *)
(* mutex or condition variable (whisper_worker.h): chunks are settled one  *)
(* at a time and in the order they were submitted; a producer never        *)
(* blocks, at the price of losing a chunk that at least Capacity newer     *)
(* ones follow; the drain notice is given only when nothing waits; the     *)
(* queue closes only when nothing waits and no notice is owed.             *)
(***************************************************************************)
EXTENDS Naturals

CONSTANTS
  Capacity,   \* chunks that may wait behind the one being transcribed
  MaxChunks   \* bound: number of chunks submitted

VARIABLES
  status,     \* what became of each chunk
  submitted,  \* number of chunks submitted
  noticeOwed, \* a drain notice was asked for and not yet given
  phase       \* "open", "noticing" (giving the notice) or "closed"

queueVars == <<status, submitted, noticeOwed, phase>>

Chunk == 1..MaxChunks

QueueTypeOK ==
  /\ status \in [Chunk -> {"none", "waiting", "done", "dropped"}]
  /\ submitted \in 0..MaxChunks
  /\ noticeOwed \in BOOLEAN
  /\ phase \in {"open", "noticing", "closed"}

QueueInit ==
  /\ status = [i \in Chunk |-> "none"]
  /\ submitted = 0
  /\ noticeOwed = FALSE
  /\ phase = "open"

IsWaiting(i) == status[i] = "waiting"
NothingWaits == \A i \in Chunk : ~IsWaiting(i)
Oldest(i)    == IsWaiting(i) /\ \A j \in Chunk : IsWaiting(j) => i <= j

\* A producer submits a chunk; there is room for it.
Submit ==
  /\ submitted < MaxChunks
  /\ submitted' = submitted + 1
  /\ status' = [status EXCEPT ![submitted + 1] = "waiting"]
  /\ UNCHANGED <<noticeOwed, phase>>

\* A producer submits a chunk and an old one is lost for it.
SubmitAndDrop(i) ==
  /\ submitted < MaxChunks
  /\ IsWaiting(i)
  /\ i + Capacity <= submitted + 1
  /\ submitted' = submitted + 1
  /\ status' = [status EXCEPT ![i] = "dropped", ![submitted + 1] = "waiting"]
  /\ UNCHANGED <<noticeOwed, phase>>

\* The oldest waiting chunk is transcribed, or its transcription fails.
Settle(i) ==
  /\ Oldest(i)
  /\ phase = "open"
  /\ status' = [status EXCEPT ![i] = "done"]
  /\ UNCHANGED <<submitted, noticeOwed, phase>>

AskForNotice(b) ==
  /\ noticeOwed' = b
  /\ UNCHANGED <<status, submitted, phase>>

GiveNotice ==
  /\ noticeOwed /\ NothingWaits
  /\ phase = "open"
  /\ phase' = "noticing"
  /\ noticeOwed' = FALSE
  /\ UNCHANGED <<status, submitted>>

NoticeGiven ==
  /\ phase = "noticing"
  /\ phase' = "open"
  /\ UNCHANGED <<status, submitted, noticeOwed>>

Close ==
  /\ phase = "open"
  /\ NothingWaits /\ ~noticeOwed
  /\ phase' = "closed"
  /\ UNCHANGED <<status, submitted, noticeOwed>>

QueueNext ==
  \/ Submit
  \/ \E i \in Chunk : SubmitAndDrop(i)
  \/ \E i \in Chunk : Settle(i)
  \/ \E b \in BOOLEAN : AskForNotice(b)
  \/ GiveNotice \/ NoticeGiven \/ Close

QueueSpec == QueueInit /\ [][QueueNext]_queueVars

=============================================================================
