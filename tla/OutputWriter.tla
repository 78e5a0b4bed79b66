---------------------------- MODULE OutputWriter ----------------------------
(***************************************************************************)
(* The session's files (src/src/output_writer.cpp).  A writer collects     *)
(* segments and after every chunk writes all of them, JSON first and then  *)
(* the plain text, each through a temporary file and a rename.  The        *)
(* process may crash between any two system calls and come back with the   *)
(* next session; a system call may fail.  The worker's thread is the only  *)
(* one in a writer (stop() joins it before main flushes), so the mutex     *)
(* around pending_ is not modelled.                                        *)
(*                                                                         *)
(* What a file holds is abstracted to the session it is of, how many of    *)
(* the session's segments it starts with, and whether it is whole.         *)
(***************************************************************************)
EXTENDS Naturals

CONSTANTS
  Stems,         \* file name stems: session ids, seconds of local time
  NoStem,        \* no id yet
  MaxSessions,   \* bound: sessions
  MaxSegments,   \* bound: segments of a session
  Faults,        \* the calls that may fail: "open", "write", "close", "rename"
  StemsRepeat    \* two sessions may get the same id

ASSUME WriterAssumption ==
  /\ NoStem \notin Stems
  /\ MaxSessions \in Nat /\ MaxSegments \in Nat
  /\ Faults \subseteq {"open", "write", "close", "rename"}
  /\ StemsRepeat \in BOOLEAN

VARIABLES
  pc,        \* where the worker is in flush(); "none": no writer
  file,      \* which of the two files it is writing
  session,   \* which session's writer it is
  stemOf,    \* the session ids given out
  pending,   \* pending_.size()
  all,       \* all_segments_.size()
  ok,        \* write_atomic()'s ok
  reported,  \* on_error_ was called by this flush()
  disk,      \* the two files of every stem
  tmp,       \* their .tmp files
  safe       \* history: segments in the last flush() that reported nothing

vars == <<pc, file, session, stemOf, pending, all, ok, reported, disk, tmp, safe>>
memory == <<session, stemOf, pending, all>>

Files == {"json", "txt"}
Sessions == 1..MaxSessions
Content == [of : 0..MaxSessions, segments : 0..MaxSegments, whole : BOOLEAN]
Absent == [of |-> 0, segments |-> 0, whole |-> TRUE]

TypeOK ==
  /\ pc \in {"none", "idle", "open", "write", "close", "rename", "dead"}
  /\ file \in Files
  /\ session \in 0..MaxSessions
  /\ stemOf \in [Sessions -> Stems \union {NoStem}]
  /\ pending + all \in 0..MaxSegments
  /\ ok \in BOOLEAN /\ reported \in BOOLEAN
  /\ disk \in [Stems \X Files -> Content] /\ tmp \in [Stems \X Files -> Content]
  /\ safe \in [Sessions -> 0..MaxSegments]

Init ==
  /\ pc = "none" /\ file = "json"
  /\ session = 0 /\ stemOf = [s \in Sessions |-> NoStem]
  /\ pending = 0 /\ all = 0
  /\ ok = TRUE /\ reported = FALSE
  /\ disk = [f \in Stems \X Files |-> Absent]
  /\ tmp = [f \in Stems \X Files |-> Absent]
  /\ safe = [s \in Sessions |-> 0]

-----------------------------------------------------------------------------
(***************************************************************************)
(* The writer.                                                             *)
(***************************************************************************)

\* startSession(): a writer with an id of its own, or not.
CreateWriter(stem) ==
  /\ pc = "none" /\ session < MaxSessions
  /\ StemsRepeat \/ \A s \in Sessions : stemOf[s] # stem
  /\ pc' = "idle"
  /\ session' = session + 1
  /\ stemOf' = [stemOf EXCEPT ![session + 1] = stem]
  /\ pending' = 0 /\ all' = 0
  /\ reported' = FALSE
  /\ UNCHANGED <<file, ok, disk, tmp, safe>>

AddSegment ==
  /\ pc = "idle" /\ pending + all < MaxSegments
  /\ pending' = pending + 1
  /\ UNCHANGED <<pc, file, session, stemOf, all, ok, reported, disk, tmp, safe>>

\* Mutant: the new segments replace the old.
FlushReplaces ==
  /\ pc = "idle" /\ pending > 0
  /\ all' = pending /\ pending' = 0
  /\ file' = "json" /\ pc' = "open"
  /\ reported' = FALSE
  /\ UNCHANGED <<session, stemOf, ok, disk, tmp, safe>>

\* Mutant: the new segments are not moved but copied.
FlushCopies ==
  /\ pc = "idle" /\ pending > 0
  /\ all' = all + pending
  /\ file' = "json" /\ pc' = "open"
  /\ reported' = FALSE
  /\ UNCHANGED <<pending, session, stemOf, ok, disk, tmp, safe>>

\* flush(): nothing to do, or the pending segments join the others.
Flush ==
  /\ pc = "idle" /\ pending > 0
  /\ all' = all + pending /\ pending' = 0
  /\ file' = "json" /\ pc' = "open"
  /\ reported' = FALSE
  /\ UNCHANGED <<session, stemOf, ok, disk, tmp, safe>>

\* The file being written.
Target == <<stemOf[session], file>>

\* write_atomic() returns: on to the text, or out of flush().
Return(success) ==
  /\ reported' = (reported \/ ~success)
  /\ \/ /\ file = "json"
        /\ file' = "txt" /\ pc' = "open"
        /\ UNCHANGED safe
     \/ /\ file = "txt"
        /\ file' = "json" /\ pc' = "idle"
        /\ safe' = IF reported' THEN safe ELSE [safe EXCEPT ![session] = all]

\* open() with O_TRUNC.
OpenTmp ==
  /\ pc = "open"
  /\ pc' = "write"
  /\ tmp' = [tmp EXCEPT ![Target] = [of |-> session, segments |-> 0, whole |-> FALSE]]
  /\ UNCHANGED <<memory, file, ok, reported, disk, safe>>

\* open() or fdopen() fails.
OpenFails ==
  /\ pc = "open" /\ "open" \in Faults
  /\ Return(FALSE)
  /\ UNCHANGED <<memory, ok, disk, tmp>>

\* fwrite(), into the stream's buffer or part of it to the file.
WriteTmp(full) ==
  /\ pc = "write" /\ (full \/ "write" \in Faults)
  /\ pc' = "close"
  /\ ok' = full
  /\ UNCHANGED <<memory, file, reported, disk, tmp, safe>>

\* fclose() writes what is still buffered; its result is ignored.
CloseTmp(succeeds) ==
  /\ pc = "close" /\ (succeeds \/ "close" \in Faults)
  /\ pc' = "rename"
  /\ tmp' = [tmp EXCEPT ![Target] = IF ok /\ succeeds
               THEN [of |-> session, segments |-> all, whole |-> TRUE]
               ELSE @]
  /\ UNCHANGED <<memory, file, ok, reported, disk, safe>>

\* Mutant: the file is copied over before it is complete.
RenameEarly ==
  /\ pc = "write"
  /\ disk' = [disk EXCEPT ![Target] = tmp[Target]]
  /\ tmp' = [tmp EXCEPT ![Target] = Absent]
  /\ Return(TRUE)
  /\ UNCHANGED <<memory, ok>>

\* rename(), whatever was written.
RenameTmp ==
  /\ pc = "rename"
  /\ disk' = [disk EXCEPT ![Target] = tmp[Target]]
  /\ tmp' = [tmp EXCEPT ![Target] = Absent]
  /\ Return(ok)
  /\ UNCHANGED <<memory, ok>>

\* Mutant: the error is not passed on.
RenameFailsSilently ==
  /\ pc = "rename" /\ "rename" \in Faults
  /\ tmp' = [tmp EXCEPT ![Target] = Absent]
  /\ Return(ok)
  /\ UNCHANGED <<memory, ok, disk>>

\* rename() fails: unlink() the temporary file.
RenameFails ==
  /\ pc = "rename" /\ "rename" \in Faults
  /\ tmp' = [tmp EXCEPT ![Target] = Absent]
  /\ Return(FALSE)
  /\ UNCHANGED <<memory, ok, disk>>

\* closeSessionWriter(): a last flush() if anything is pending, and the writer
\* is gone.
DropWriter ==
  /\ pc = "idle" /\ pending = 0
  /\ pc' = "none"
  /\ UNCHANGED <<memory, file, ok, reported, disk, tmp, safe>>

-----------------------------------------------------------------------------

\* The process dies; what it had in memory and in the stream is gone.
Crash ==
  /\ pc # "dead"
  /\ pc' = "dead" /\ file' = "json"
  /\ pending' = 0 /\ all' = 0
  /\ ok' = TRUE /\ reported' = FALSE
  /\ UNCHANGED <<session, stemOf, disk, tmp, safe>>

\* The app is started again.
Restart ==
  /\ pc = "dead"
  /\ pc' = "none"
  /\ UNCHANGED <<memory, file, ok, reported, disk, tmp, safe>>

Next ==
  \/ \E stem \in Stems : CreateWriter(stem)
  \/ AddSegment \/ Flush \/ DropWriter
  \/ OpenTmp \/ OpenFails
  \/ \E full \in BOOLEAN : WriteTmp(full)
  \/ \E succeeds \in BOOLEAN : CloseTmp(succeeds)
  \/ RenameTmp \/ RenameFails
  \/ Crash \/ Restart

Spec == Init /\ [][Next]_vars

-----------------------------------------------------------------------------
(***************************************************************************)
(* Properties.                                                             *)
(***************************************************************************)

\* output_writer.h:9: a crash mid-write never corrupts output.  Whoever opens
\* a file, at any moment, finds a whole one.
NeverTorn == \A f \in Stems \X Files : disk[f].whole

\* README.md:96: completed segments are not lost, even if the app crashes.
\* What a flush() that reported no error has written is in both files, then and
\* ever after.
SegmentsSurvive ==
  \A s \in Sessions : safe[s] > 0 =>
    \A f \in Files :
      LET content == disk[<<stemOf[s], f>>]
      IN  content.whole /\ content.of = s /\ content.segments >= safe[s]

\* A file never goes back to fewer segments, and never to another session.
FilesOnlyGrow ==
  [][\A f \in Stems \X Files : disk[f] # Absent =>
       /\ disk'[f].of = disk[f].of
       /\ disk'[f].segments >= disk[f].segments]_vars

=============================================================================
