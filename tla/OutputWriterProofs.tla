------------------------- MODULE OutputWriterProofs -------------------------
(***************************************************************************)
(* The session's files, for any number of sessions, segments and crashes:  *)
(* when open() and rename() may fail, write() and close() do not, and no   *)
(* two sessions share an id, the files are whole, keep what they hold, and *)
(* hold what a flush() without an error has written.                       *)
(***************************************************************************)
EXTENDS OutputWriter, TLAPS

\* The conditions.
DiskHasRoom == "write" \notin Faults /\ "close" \notin Faults
IdsDiffer   == ~StemsRepeat

\* There is a writer.
Active == pc \in {"idle", "open", "write", "close", "rename"}
Writing == pc \in {"open", "write", "close", "rename"}

\* What the current session's file holds once it is written.
Current == [of |-> session, segments |-> all, whole |-> TRUE]
FileOf(s, f) == disk[<<stemOf[s], f>>]

\* Counts are counts.
Counts == pending \in Nat /\ all \in Nat

\* Every session so far has an id, and its own.
StemsDistinct ==
  /\ \A s \in Sessions : stemOf[s] = NoStem <=> s > session
  /\ \A r, s \in 1..session : stemOf[r] = stemOf[s] => r = s
  /\ Active => session \in Sessions
  /\ pc \in {"none", "idle", "dead"} => file = "json"

\* A file is whole, and of the session whose id it has.
DiskOwned ==
  \A stem \in Stems, f \in Files :
    LET content == disk[<<stem, f>>]
    IN  \/ content = Absent
        \/ /\ content.whole /\ content.of \in 1..session
           /\ stemOf[content.of] = stem

\* The files of the current session hold no more than its writer remembers.
NotAhead ==
  Active => /\ \A f \in Files : FileOf(session, f).segments <= all
            /\ safe[session] <= all

\* A temporary file about to be renamed is complete.
TmpComplete ==
  /\ pc \in {"close", "rename"} => ok
  /\ pc = "rename" => tmp[Target] = Current

\* In the second half of a flush() without an error the JSON file is written.
FirstHalfDone ==
  Writing /\ file = "txt" /\ ~reported => FileOf(session, "json") = Current

\* What was safe is in the files.
SafeIsThere == SegmentsSurvive /\ \A s \in Sessions : safe[s] > 0 => s <= session

\* The inductive invariant.
WriterInv ==
  /\ TypeOK /\ Counts /\ StemsDistinct /\ DiskOwned /\ NotAhead /\ TmpComplete
  /\ FirstHalfDone /\ SafeIsThere

\* A file that is absent.
LEMMA AbsentTyped == Absent \in Content /\ Absent.segments = 0 /\ Absent.whole
  BY WriterAssumption DEF Absent, Content

\* Nothing counted yet.
LEMMA Zero == 0 \in 0..MaxSessions /\ 0 \in 0..MaxSegments /\ 0 + 0 \in 0..MaxSegments
  BY WriterAssumption

\* It holds at first.
LEMMA WriterInitInv == Init => WriterInv
  <1> SUFFICES ASSUME Init PROVE WriterInv
    OBVIOUS
  <1> USE WriterAssumption DEF Init
  <1>1. TypeOK
    BY AbsentTyped, Zero DEF TypeOK, Files
  <1>2. Counts /\ StemsDistinct
    BY DEF Counts, StemsDistinct, Active, Sessions
  <1>3. DiskOwned
    BY DEF DiskOwned
  <1>4. NotAhead /\ TmpComplete /\ FirstHalfDone /\ SafeIsThere
    BY DEF NotAhead, TmpComplete, FirstHalfDone, SafeIsThere, Active, Writing,
           SegmentsSurvive
  <1> QED
    BY <1>1, <1>2, <1>3, <1>4 DEF WriterInv

\* A step that leaves the files, the sessions and the counts alone.
LEMMA FilesKept ==
  ASSUME WriterInv, UNCHANGED <<session, stemOf, disk, safe>>
  PROVE  DiskOwned' /\ SafeIsThere'
  BY DEF WriterInv, DiskOwned, SafeIsThere, SegmentsSurvive

\* A new session has no file yet.
LEMMA CreateInv ==
  ASSUME IdsDiffer, WriterInv, NEW stem \in Stems, CreateWriter(stem)
  PROVE  WriterInv'
  <1> USE WriterAssumption
  <1>1. /\ session \in 0..MaxSessions /\ session + 1 \in Sessions
        /\ stemOf \in [Sessions -> Stems \union {NoStem}]
        /\ \A s \in Sessions : stemOf[s] # stem
        /\ pc' = "idle" /\ session' = session + 1
        /\ stemOf' = [stemOf EXCEPT ![session + 1] = stem]
        /\ pending' = 0 /\ all' = 0 /\ reported' = FALSE
        /\ UNCHANGED <<file, ok, disk, tmp, safe>>
    BY DEF CreateWriter, WriterInv, TypeOK, Sessions, IdsDiffer
  <1>2. /\ stemOf'[session'] = stem
        /\ \A s \in 1..session : s \in Sessions /\ stemOf'[s] = stemOf[s]
    BY <1>1 DEF Sessions
  <1>3. TypeOK' /\ Counts'
    <2>1. /\ session' \in 0..MaxSessions
          /\ stemOf' \in [Sessions -> Stems \union {NoStem}]
          /\ pending' + all' \in 0..MaxSegments
      BY <1>1, Zero DEF Sessions
    <2>2. pending' \in Nat /\ all' \in Nat
      BY <1>1
    <2> QED
      BY <1>1, <2>1, <2>2 DEF WriterInv, TypeOK, Counts
  <1>4. \A f \in Files : disk[<<stem, f>>] = Absent
    BY <1>1, <1>2 DEF WriterInv, DiskOwned
  <1>5. safe[session + 1] = 0
    BY <1>1 DEF WriterInv, SafeIsThere, TypeOK
  <1>6. StemsDistinct'
    <2>1. \A s \in Sessions : stemOf'[s] = NoStem <=> s > session'
      BY <1>1 DEF WriterInv, StemsDistinct, Sessions
    <2>2. \A r, s \in 1..session' : stemOf'[r] = stemOf'[s] => r = s
      BY <1>1, <1>2 DEF WriterInv, StemsDistinct, Sessions
    <2>3. file = "json"
      BY DEF CreateWriter, WriterInv, StemsDistinct
    <2> QED
      BY <1>1, <2>1, <2>2, <2>3 DEF StemsDistinct
  <1>7. DiskOwned'
    <2> SUFFICES ASSUME NEW t \in Stems, NEW f \in Files, disk[<<t, f>>] # Absent
                 PROVE  /\ disk[<<t, f>>].whole /\ disk[<<t, f>>].of \in 1..session'
                        /\ stemOf'[disk[<<t, f>>].of] = t
      BY <1>1 DEF DiskOwned
    <2>1. /\ disk[<<t, f>>].whole /\ disk[<<t, f>>].of \in 1..session
          /\ stemOf[disk[<<t, f>>].of] = t
      BY DEF WriterInv, DiskOwned
    <2> QED
      BY <1>1, <1>2, <2>1
  <1>8. NotAhead'
    BY <1>1, <1>2, <1>4, <1>5, AbsentTyped DEF NotAhead, FileOf
  <1>9. TmpComplete' /\ FirstHalfDone'
    BY <1>1 DEF TmpComplete, FirstHalfDone, Writing
  <1>10. SafeIsThere'
    <2>1. \A s \in Sessions : safe[s] > 0 => s \in 1..session
      BY <1>1 DEF WriterInv, SafeIsThere, Sessions
    <2>2. SegmentsSurvive'
      BY <1>1, <1>2, <2>1 DEF WriterInv, SafeIsThere, SegmentsSurvive
    <2> QED
      BY <1>1, <2>1, <2>2 DEF SafeIsThere
  <1> QED
    BY <1>3, <1>6, <1>7, <1>8, <1>9, <1>10 DEF WriterInv

\* The current session's files are among the files.
LEMMA TargetTyped ==
  ASSUME WriterInv, Active
  PROVE  /\ session \in Sessions /\ session \in 1..session
         /\ stemOf[session] \in Stems /\ stemOf[session] # NoStem
         /\ Target \in Stems \X Files /\ Target = <<stemOf[session], file>>
         /\ Current \in Content
  <1> USE WriterAssumption
  <1>1. session \in Sessions /\ session \in 1..session
    BY DEF WriterInv, StemsDistinct, Sessions
  <1>2. stemOf[session] \in Stems /\ stemOf[session] # NoStem
    BY <1>1 DEF WriterInv, StemsDistinct, TypeOK, Sessions
  <1>3. all \in 0..MaxSegments
    BY DEF WriterInv, Counts, TypeOK
  <1> QED
    BY <1>1, <1>2, <1>3 DEF Target, WriterInv, TypeOK, Current, Content, Sessions

\* Adding segments, beginning a flush(), and filling the temporary file leave the
\* files alone.
LEMMA MemoryInv ==
  ASSUME DiskHasRoom, WriterInv,
         AddSegment \/ Flush \/ OpenTmp \/ (\E full \in BOOLEAN : WriteTmp(full))
  PROVE  WriterInv'
  <1> USE WriterAssumption
  <1>1. Active /\ UNCHANGED <<session, stemOf, disk, safe>>
    BY DEF AddSegment, Flush, OpenTmp, WriteTmp, memory, Active
  <1>2. DiskOwned' /\ SafeIsThere'
    BY <1>1, FilesKept
  <1>3. CASE AddSegment
    <2>1. TypeOK' /\ Counts'
      BY <1>3 DEF AddSegment, WriterInv, TypeOK, Counts
    <2>2. StemsDistinct' /\ NotAhead' /\ TmpComplete' /\ FirstHalfDone'
      BY <1>3 DEF AddSegment, WriterInv, StemsDistinct, NotAhead, TmpComplete,
                  FirstHalfDone, Active, Writing, FileOf
    <2> QED
      BY <1>2, <2>1, <2>2 DEF WriterInv
  <1>4. CASE Flush
    <2>1. /\ pc = "idle" /\ pc' = "open" /\ file' = "json" /\ reported' = FALSE
          /\ pending' = 0 /\ all' = all + pending /\ UNCHANGED <<ok, tmp>>
      BY <1>4 DEF Flush
    <2>2. TypeOK' /\ Counts'
      <3>1. pending' + all' = pending + all /\ pending' \in Nat /\ all' \in Nat
        BY <2>1 DEF WriterInv, Counts
      <3> QED
        BY <1>1, <2>1, <3>1 DEF WriterInv, TypeOK, Counts, Files
    <2>3. StemsDistinct' /\ TmpComplete' /\ FirstHalfDone'
      BY <1>1, <2>1 DEF WriterInv, StemsDistinct, TmpComplete, FirstHalfDone, Active
    <2>4. NotAhead'
      <3>1. \A f \in Files : FileOf(session, f).segments \in Nat
        BY <1>1, TargetTyped DEF FileOf, WriterInv, TypeOK, Content
      <3>2. safe[session] \in Nat
        BY <1>1, TargetTyped DEF WriterInv, TypeOK
      <3> QED
        BY <1>1, <2>1, <3>1, <3>2 DEF WriterInv, NotAhead, Active, FileOf, Counts
    <2> QED
      BY <1>2, <2>2, <2>3, <2>4 DEF WriterInv
  <1>5. CASE OpenTmp
    <2>1. [of |-> session, segments |-> 0, whole |-> FALSE] \in Content
      BY <1>1, TargetTyped DEF Content, Sessions
    <2>2. TypeOK' /\ Counts'
      BY <1>5, <2>1 DEF OpenTmp, memory, WriterInv, TypeOK, Counts
    <2>3. StemsDistinct' /\ NotAhead' /\ TmpComplete' /\ FirstHalfDone'
      BY <1>5 DEF OpenTmp, memory, WriterInv, StemsDistinct, NotAhead, TmpComplete,
                  FirstHalfDone, Active, Writing, FileOf, Current
    <2> QED
      BY <1>2, <2>2, <2>3 DEF WriterInv
  <1>6. ASSUME NEW full \in BOOLEAN, WriteTmp(full) PROVE WriterInv'
    <2>1. full = TRUE
      BY <1>6 DEF WriteTmp, DiskHasRoom
    <2>2. TypeOK' /\ Counts'
      BY <1>6 DEF WriteTmp, memory, WriterInv, TypeOK, Counts
    <2>3. StemsDistinct' /\ NotAhead' /\ TmpComplete' /\ FirstHalfDone'
      BY <1>6, <2>1 DEF WriteTmp, memory, WriterInv, StemsDistinct, NotAhead, TmpComplete,
                        FirstHalfDone, Active, Writing, FileOf, Current
    <2> QED
      BY <1>2, <2>2, <2>3 DEF WriterInv
  <1> QED
    BY <1>3, <1>4, <1>5, <1>6

\* Closing completes the temporary file.
LEMMA CloseInv ==
  ASSUME DiskHasRoom, WriterInv, NEW succeeds \in BOOLEAN, CloseTmp(succeeds)
  PROVE  WriterInv'
  <1> USE WriterAssumption
  <1>1. /\ Active /\ pc = "close" /\ pc' = "rename" /\ succeeds /\ ok
        /\ UNCHANGED <<session, stemOf, pending, all, file, ok, reported, disk, safe>>
        /\ tmp' = [tmp EXCEPT ![Target] = Current]
    BY DEF CloseTmp, memory, Active, DiskHasRoom, WriterInv, TmpComplete, Current
  <1>2. DiskOwned' /\ SafeIsThere'
    BY <1>1, FilesKept
  <1>3. TypeOK' /\ Counts'
    BY <1>1, TargetTyped DEF WriterInv, TypeOK, Counts
  <1>4. TmpComplete'
    BY <1>1, TargetTyped DEF TmpComplete, Current, WriterInv, TypeOK, Target
  <1>5. StemsDistinct' /\ NotAhead' /\ FirstHalfDone'
    BY <1>1 DEF WriterInv, StemsDistinct, NotAhead, FirstHalfDone, Active, Writing, FileOf,
                Current
  <1> QED
    BY <1>2, <1>3, <1>4, <1>5 DEF WriterInv

\* The end of the process, or of a writer, forgets nothing that was safe.
LEMMA GoneInv ==
  ASSUME WriterInv, DropWriter \/ Crash \/ Restart
  PROVE  WriterInv'
  <1> USE WriterAssumption
  <1>1. /\ UNCHANGED <<session, stemOf, disk, safe, tmp>>
        /\ pc' \in {"none", "dead"} /\ file' = "json"
    BY DEF DropWriter, Crash, Restart, memory, WriterInv, StemsDistinct
  <1>2. DiskOwned' /\ SafeIsThere'
    BY <1>1, FilesKept
  <1>3. TypeOK' /\ Counts'
    <2>1. /\ pending' + all' \in 0..MaxSegments /\ pending' \in Nat /\ all' \in Nat
          /\ ok' \in BOOLEAN /\ reported' \in BOOLEAN
      <3>1. CASE Crash
        <4>1. pending' = 0 /\ all' = 0 /\ ok' = TRUE /\ reported' = FALSE
          BY <3>1 DEF Crash
        <4> QED
          BY <4>1, Zero
      <3>2. CASE DropWriter \/ Restart
        BY <3>2 DEF DropWriter, Restart, memory, WriterInv, TypeOK, Counts
      <3> QED
        BY <3>1, <3>2
    <2> QED
      BY <1>1, <2>1 DEF WriterInv, TypeOK, Counts, Files
  <1>4. StemsDistinct' /\ NotAhead' /\ TmpComplete' /\ FirstHalfDone'
    BY <1>1 DEF WriterInv, StemsDistinct, NotAhead, TmpComplete, FirstHalfDone, Active,
                Writing
  <1> QED
    BY <1>2, <1>3, <1>4 DEF WriterInv

\* A file that could not be opened or renamed stays as it was, and is reported.
LEMMA FailInv ==
  ASSUME WriterInv, OpenFails \/ RenameFails
  PROVE  WriterInv'
  <1> USE WriterAssumption
  <1>1. /\ Active /\ Writing /\ reported' = TRUE
        /\ UNCHANGED <<session, stemOf, pending, all, ok, disk>>
        /\ \/ file = "json" /\ file' = "txt" /\ pc' = "open"
           \/ file = "txt" /\ file' = "json" /\ pc' = "idle"
    BY DEF OpenFails, RenameFails, Return, memory, Active, Writing
  <1>2. safe' = safe /\ tmp' \in [Stems \X Files -> Content]
    BY <1>1, TargetTyped, AbsentTyped
    DEF OpenFails, RenameFails, Return, WriterInv, TypeOK
  <1>3. DiskOwned' /\ SafeIsThere'
    BY <1>1, <1>2, FilesKept
  <1>4. TypeOK' /\ Counts'
    BY <1>1, <1>2 DEF WriterInv, TypeOK, Counts, Files
  <1>5. StemsDistinct' /\ NotAhead' /\ TmpComplete' /\ FirstHalfDone'
    BY <1>1, <1>2 DEF WriterInv, StemsDistinct, NotAhead, TmpComplete, FirstHalfDone,
                      Active, Writing, FileOf
  <1> QED
    BY <1>3, <1>4, <1>5 DEF WriterInv

\* What RenameTmp does to the files.
LEMMA RenameFiles ==
  ASSUME WriterInv, RenameTmp
  PROVE  /\ Active /\ Writing
         /\ disk' = [disk EXCEPT ![<<stemOf[session], file>>] = Current]
         /\ \A f \in Files : FileOf(session, f)' =
              IF f = file THEN Current ELSE FileOf(session, f)
         /\ \A t \in Stems, f \in Files : t # stemOf[session] =>
              disk'[<<t, f>>] = disk[<<t, f>>]
         /\ UNCHANGED <<session, stemOf, pending, all, ok, reported>>
         /\ tmp' \in [Stems \X Files -> Content]
         /\ \/ file = "json" /\ file' = "txt" /\ pc' = "open" /\ safe' = safe
            \/ /\ file = "txt" /\ file' = "json" /\ pc' = "idle"
               /\ safe' = IF reported THEN safe ELSE [safe EXCEPT ![session] = all]
  <1>1. Active /\ Writing /\ ok /\ tmp[Target] = Current
    BY DEF RenameTmp, Active, Writing, WriterInv, TmpComplete
  <1>2. /\ disk' = [disk EXCEPT ![Target] = Current]
        /\ Target \in Stems \X Files /\ Target = <<stemOf[session], file>>
        /\ file \in Files /\ stemOf[session] \in Stems
        /\ disk \in [Stems \X Files -> Content]
    BY <1>1, TargetTyped DEF RenameTmp, WriterInv, TypeOK
  <1>3. /\ UNCHANGED <<session, stemOf, pending, all, ok>>
        /\ reported' = (reported \/ ~ok)
    BY DEF RenameTmp, Return, memory
  <1>4. reported' = reported
    BY <1>1, <1>3 DEF WriterInv, TypeOK
  <1>5. tmp' \in [Stems \X Files -> Content]
    BY <1>2, AbsentTyped DEF RenameTmp, WriterInv, TypeOK
  <1>6. \A f \in Files : FileOf(session, f)' =
          IF f = file THEN Current ELSE FileOf(session, f)
    BY <1>2, <1>3 DEF FileOf
  <1>7. \A t \in Stems, f \in Files : t # stemOf[session] =>
          disk'[<<t, f>>] = disk[<<t, f>>]
    BY <1>2
  <1>8. \/ file = "json" /\ file' = "txt" /\ pc' = "open" /\ safe' = safe
        \/ /\ file = "txt" /\ file' = "json" /\ pc' = "idle"
           /\ safe' = IF reported THEN safe ELSE [safe EXCEPT ![session] = all]
    BY <1>4 DEF RenameTmp, Return
  <1> QED
    BY <1>1, <1>2, <1>3, <1>4, <1>5, <1>6, <1>7, <1>8

\* A rename brings one file up to date; after the second of a flush() without an
\* error, both are.
LEMMA RenameInv ==
  ASSUME WriterInv, RenameTmp
  PROVE  WriterInv'
  <1> USE WriterAssumption
  <1>1. /\ Active /\ Writing
        /\ UNCHANGED <<session, stemOf, pending, all, ok, reported>>
        /\ session \in Sessions /\ session \in 1..session
        /\ stemOf[session] \in Stems /\ Current \in Content
        /\ file \in Files /\ pc' \in {"open", "idle"} /\ file' \in Files
        /\ pc' = "idle" => file' = "json"
    BY RenameFiles, TargetTyped DEF WriterInv, TypeOK, Files
  <1>2. all \in 0..MaxSegments /\ all \in Nat
    BY DEF WriterInv, TypeOK, Counts
  <1>3. TypeOK' /\ Counts'
    <2>1. safe' \in [Sessions -> 0..MaxSegments]
      BY <1>1, <1>2, RenameFiles DEF WriterInv, TypeOK
    <2>2. disk' \in [Stems \X Files -> Content] /\ tmp' \in [Stems \X Files -> Content]
      BY <1>1, RenameFiles DEF WriterInv, TypeOK
    <2> QED
      BY <1>1, <2>1, <2>2 DEF WriterInv, TypeOK, Counts
  <1>4. StemsDistinct'
    BY <1>1 DEF WriterInv, StemsDistinct, Active
  <1>5. \A f \in Files : FileOf(session, f)' = Current \/ FileOf(session, f)' = FileOf(session, f)
    BY RenameFiles
  <1>6. DiskOwned'
    <2> SUFFICES ASSUME NEW t \in Stems, NEW f \in Files, disk'[<<t, f>>] # Absent
                 PROVE  /\ disk'[<<t, f>>].whole /\ disk'[<<t, f>>].of \in 1..session
                        /\ stemOf[disk'[<<t, f>>].of] = t
      BY <1>1 DEF DiskOwned
    <2>1. disk'[<<t, f>>] = disk[<<t, f>>]
          \/ (t = stemOf[session] /\ disk'[<<t, f>>] = Current)
      <3>1. CASE t = stemOf[session]
        BY <1>1, <1>5, <3>1 DEF FileOf
      <3>2. CASE t # stemOf[session]
        BY <3>2, RenameFiles
      <3> QED
        BY <3>1, <3>2
    <2> QED
      BY <1>1, <2>1 DEF WriterInv, DiskOwned, Current
  <1>7. NotAhead'
    <2>1. Current.segments = all
      BY DEF Current
    <2>2. safe'[session] <= all
      BY <1>1, <1>2, RenameFiles DEF WriterInv, NotAhead, TypeOK
    <2>3. \A f \in Files : FileOf(session, f)'.segments <= all
      BY <1>1, <1>2, <1>5, <2>1 DEF WriterInv, NotAhead
    <2> QED
      BY <1>1, <2>2, <2>3 DEF NotAhead, FileOf
  <1>8. TmpComplete'
    BY <1>1 DEF TmpComplete
  <1>9. FirstHalfDone'
    <2> SUFFICES ASSUME file' = "txt" PROVE FileOf(session, "json")' = Current
      BY <1>1 DEF FirstHalfDone, FileOf, Current
    <2> QED
      BY RenameFiles DEF Files
  <1>10. SafeIsThere'
    <2> SUFFICES ASSUME NEW s \in Sessions, safe'[s] > 0
                 PROVE  /\ s <= session
                        /\ \A f \in Files : /\ FileOf(s, f)'.whole
                                            /\ FileOf(s, f)'.of = s
                                            /\ FileOf(s, f)'.segments >= safe'[s]
      BY <1>1 DEF SafeIsThere, SegmentsSurvive, FileOf
    <2>0. safe \in [Sessions -> 0..MaxSegments]
      BY DEF WriterInv, TypeOK
    <2>1. CASE s # session
      <3>1. safe'[s] = safe[s]
        BY <1>1, <2>0, <2>1, RenameFiles
      <3>2. s <= session /\ s \in 1..session /\ stemOf[s] # stemOf[session]
            /\ stemOf[s] \in Stems
        BY <1>1, <2>1, <3>1 DEF WriterInv, SafeIsThere, StemsDistinct, Sessions, TypeOK
      <3>3. \A f \in Files : FileOf(s, f)' = FileOf(s, f)
        BY <1>1, <3>2, RenameFiles DEF FileOf
      <3> QED
        BY <3>1, <3>2, <3>3 DEF WriterInv, SafeIsThere, SegmentsSurvive, FileOf
    <2>2. CASE s = session
      <3>1. /\ Current.whole /\ Current.of = session /\ Current.segments = all
            /\ safe'[session] <= all
        BY <1>1, <1>2, RenameFiles DEF Current, WriterInv, NotAhead, TypeOK
      <3>2. CASE safe' = safe
        <4>1. \A f \in Files : /\ FileOf(session, f).whole
                               /\ FileOf(session, f).of = session
                               /\ FileOf(session, f).segments >= safe[session]
          BY <2>2, <3>2 DEF WriterInv, SafeIsThere, SegmentsSurvive, FileOf
        <4> QED
          BY <1>1, <1>2, <1>5, <2>0, <2>2, <3>1, <3>2, <4>1
      <3>3. CASE file = "txt" /\ ~reported
        <4>1. FileOf(session, "json") = Current
          BY <1>1, <3>3 DEF WriterInv, FirstHalfDone
        <4>2. \A f \in Files : FileOf(session, f)' = Current
          BY <3>3, <4>1, RenameFiles DEF Files
        <4>3. safe'[session] \in Nat
          BY <1>1, <1>2, <2>0, RenameFiles
        <4> QED
          BY <1>1, <1>2, <2>2, <3>1, <4>2, <4>3
      <3> QED
        BY <3>2, <3>3, RenameFiles
    <2> QED
      BY <2>1, <2>2
  <1> QED
    BY <1>3, <1>4, <1>6, <1>7, <1>8, <1>9, <1>10 DEF WriterInv

\* The inductive invariant holds in every state.
THEOREM WriterInvariant ==
  ASSUME DiskHasRoom, IdsDiffer
  PROVE  Spec => []WriterInv
  <1>1. WriterInv /\ [Next]_vars => WriterInv'
    <2> SUFFICES ASSUME WriterInv, [Next]_vars PROVE WriterInv'
      OBVIOUS
    <2>1. CASE UNCHANGED vars
      BY <2>1 DEF vars, memory, WriterInv, TypeOK, Counts, StemsDistinct, DiskOwned,
                  NotAhead, TmpComplete, FirstHalfDone, SafeIsThere, SegmentsSurvive,
                  Active, Writing, FileOf, Current, Target
    <2> QED
      BY <2>1, CreateInv, MemoryInv, CloseInv, GoneInv, FailInv, RenameInv DEF Next
  <1> QED
    BY <1>1, WriterInitInv, PTL DEF Spec

\* Every variable has its type: one writer at most is in write_atomic(), at one of
\* its system calls (output_writer.cpp:27).
THEOREM WriterTyped ==
  ASSUME DiskHasRoom, IdsDiffer
  PROVE  Spec => []TypeOK
  BY WriterInvariant, PTL DEF WriterInv

\* output_writer.h:9: with room on the disk, whoever opens a file at any moment, a
\* crash between any two system calls included, finds a whole one.
THEOREM NeverTornAlways ==
  ASSUME DiskHasRoom, IdsDiffer
  PROVE  Spec => []NeverTorn
  <1>1. WriterInv => NeverTorn
    <2> SUFFICES ASSUME WriterInv, NEW t \in Stems, NEW f \in Files
                 PROVE  disk[<<t, f>>].whole
      BY DEF NeverTorn
    <2> QED
      BY AbsentTyped DEF WriterInv, DiskOwned
  <1> QED
    BY <1>1, WriterInvariant, PTL

\* README.md:96: what a flush() that reported no error has written is in both
\* files of its session, then and ever after, whatever fails or crashes later.
THEOREM SegmentsSurviveAlways ==
  ASSUME DiskHasRoom, IdsDiffer
  PROVE  Spec => []SegmentsSurvive
  <1>1. WriterInv => SegmentsSurvive
    BY DEF WriterInv, SafeIsThere
  <1> QED
    BY <1>1, WriterInvariant, PTL

\* A step leaves a file as it is, or is the rename of a later version of it.
LEMMA FileGrows ==
  ASSUME WriterInv, [Next]_vars, NEW t \in Stems, NEW f \in Files,
         disk[<<t, f>>] # Absent
  PROVE  /\ disk'[<<t, f>>].of = disk[<<t, f>>].of
         /\ disk'[<<t, f>>].segments >= disk[<<t, f>>].segments
  <1>0. disk[<<t, f>>].segments \in Nat
    BY DEF WriterInv, TypeOK, Content
  <1>1. CASE disk' = disk
    BY <1>0, <1>1
  <1>2. CASE RenameTmp
    <2>1. CASE t # stemOf[session]
      BY <1>0, <1>2, <2>1, RenameFiles
    <2>2. CASE t = stemOf[session]
      <3>1. /\ FileOf(session, f) = disk[<<t, f>>] /\ FileOf(session, f)' = disk'[<<t, f>>]
            /\ session' = session /\ Active /\ session \in 1..session
        BY <1>2, <2>2, RenameFiles, TargetTyped DEF FileOf
      <3>2. /\ disk[<<t, f>>].of \in 1..session
            /\ stemOf[disk[<<t, f>>].of] = stemOf[session]
        BY <2>2 DEF WriterInv, DiskOwned
      <3>3. disk[<<t, f>>].of = session
        BY <3>1, <3>2 DEF WriterInv, StemsDistinct
      <3>4. disk[<<t, f>>].segments <= all /\ all \in Nat
        BY <3>1 DEF WriterInv, NotAhead, Counts
      <3>5. disk'[<<t, f>>] = Current \/ disk'[<<t, f>>] = disk[<<t, f>>]
        BY <1>2, <3>1, RenameFiles
      <3> QED
        BY <1>0, <3>3, <3>4, <3>5 DEF Current
    <2> QED
      BY <2>1, <2>2
  <1>3. CASE Next /\ ~RenameTmp
    BY <1>1, <1>3 DEF Next, CreateWriter, AddSegment, Flush, DropWriter, OpenTmp, OpenFails,
                      WriteTmp, CloseTmp, RenameFails, Crash, Restart
  <1> QED
    BY <1>1, <1>2, <1>3 DEF vars

\* A rename never brings an older version or another session's segments: the files
\* only grow.
THEOREM FilesOnlyGrowAlways ==
  ASSUME DiskHasRoom, IdsDiffer
  PROVE  Spec => FilesOnlyGrow
  <1>1. WriterInv /\ [Next]_vars =>
          [\A f \in Stems \X Files : disk[f] # Absent =>
             /\ disk'[f].of = disk[f].of
             /\ disk'[f].segments >= disk[f].segments]_vars
    <2> SUFFICES ASSUME WriterInv, [Next]_vars, NEW f \in Stems \X Files,
                        disk[f] # Absent
                 PROVE  /\ disk'[f].of = disk[f].of
                        /\ disk'[f].segments >= disk[f].segments
      OBVIOUS
    <2>1. PICK t \in Stems, g \in Files : f = <<t, g>>
      OBVIOUS
    <2> QED
      BY <2>1, FileGrows
  <1> QED
    BY <1>1, WriterInvariant, PTL DEF Spec, FilesOnlyGrow

=============================================================================
