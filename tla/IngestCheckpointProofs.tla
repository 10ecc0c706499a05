----------------------- MODULE IngestCheckpointProofs ------------------------
(* Theorems about IngestCheckpoint, for every size of the result and of the   *)
(* batches, every number of attempts and every kind of trouble.               *)
EXTENDS IngestCheckpoint, SequenceTheorems, TLAPS

USE SizesAssumption, LinesAssumption, SkippedAssumption, SourcesAssumption, AttemptsAssumption,
    TroubleAssumption

-----------------------------------------------------------------------------
(* Types.                                                                     *)

\* A part of a sequence of records is one.
LEMMA PartTyped ==
  ASSUME NEW s \in Seq(Records), NEW m \in Nat, NEW n \in Nat, n <= Len(s)
  PROVE  SubSeq(s, m + 1, n) \in Seq(Records)
  <1>1. CASE m + 1 <= n
    BY <1>1
  <1>2. CASE n < m + 1
    <2>1. SubSeq(s, m + 1, n) = << >>
      BY <1>2
    <2> QED  BY <2>1
  <1> QED  BY <1>1, <1>2

LEMMA TypedInit == Init => TypeOK
  BY DEF Init, TypeOK, NoCheckpoint, CheckpointType, NoMemory, MemoryType, Phases

LEMMA NoMemoryTyped == NoMemory \in MemoryType
  BY DEF NoMemory, MemoryType

LEMMA InterruptedTyped ==
  ASSUME TypeOK, NEW b \in SUBSET Records, Interrupted(b)
  PROVE  at' \in MemoryType /\ pc' \in Phases
  <1>1. at \in MemoryType /\ file \in Seq(Records)
    BY DEF TypeOK
  <1>2. SubSeq(file, at.from + 1, Len(file)) \in Seq(Records)
    BY <1>1, PartTyped DEF MemoryType
  <1> DEFINE rest == SubSeq(file, at.from + 1, Len(file))
  <1>3. CASE /\ at' = [at EXCEPT !.input = rest, !.queue = << >>, !.buffer = b,
                                  !.persist = FALSE, !.streaming = FALSE,
                                  !.resolving = FALSE]
             /\ pc' = "read"
    <2>1. rest \in Seq(Records)
      BY <1>2
    <2> HIDE DEF rest
    <2>2. << >> \in Seq(Records)
      OBVIOUS
    <2> QED  BY <1>1, <1>3, <2>1, <2>2 DEF MemoryType, Phases
  <1>4. CASE at' = NoMemory /\ pc' = "idle"
    BY <1>4, NoMemoryTyped DEF Phases
  <1> QED  BY <1>3, <1>4 DEF Interrupted

\* An attempt starts with well-formed memory and a well-formed copy.
LEMMA BeginTyped == TypeOK /\ Begin => TypeOK'
  <1> SUFFICES ASSUME TypeOK, Begin PROVE TypeOK'
    OBVIOUS
  <1>1. ckpt \in CheckpointType /\ counted \in Nat /\ file \in Seq(Records)
    BY DEF TypeOK
  <1>2. PICK b \in Offsets :
          /\ at' = [NoMemory EXCEPT
                      !.committed = ckpt.records, !.from = b, !.input = Input(b),
                      !.persist = Persists(b), !.streaming = source = "remote"]
          /\ file' = IF source = "remote" THEN Prepared(b) ELSE file
    BY DEF Begin
  <1>3. b \in Nat
    BY <1>1 DEF Offsets, CheckpointType
  <1>4. Input(b) \in Seq(Records)
    BY <1>3, PartTyped DEF Input
  <1>5. Prepared(b) \in Seq(Records)
    <2>1. CASE b > 0 /\ Len(file) >= b
      BY <1>1, <1>3, <2>1, PartTyped DEF Prepared
    <2>2. CASE b = 0 \/ Len(file) < b
      BY <1>1, <1>3, <2>2 DEF Prepared
    <2> QED  BY <1>1, <1>3, <2>1, <2>2
  <1> DEFINE input == Input(b)
             persist == Persists(b)
  <1>6. at' \in MemoryType
    <2>1. at' = [NoMemory EXCEPT !.committed = ckpt.records, !.from = b, !.input = input,
                                 !.persist = persist, !.streaming = source = "remote"]
      BY <1>2
    <2>2. input \in Seq(Records) /\ persist \in BOOLEAN /\ ckpt.records \in Nat
      BY <1>1, <1>4 DEF Persists, CheckpointType
    <2> HIDE DEF input, persist
    <2> QED  BY <1>3, <2>1, <2>2, NoMemoryTyped DEF MemoryType
  <1>7. file' \in Seq(Records)
    BY <1>1, <1>2, <1>5
  <1>8. pc' \in Phases /\ attempts' \in 0..MaxAttempts
    BY DEF Begin, TypeOK, FirstPhase, Phases
  <1> QED  BY <1>6, <1>7, <1>8 DEF Begin, TypeOK

LEMMA ArriveTyped == TypeOK /\ Arrive => TypeOK'
  <1> SUFFICES ASSUME TypeOK, Arrive PROVE TypeOK'
    OBVIOUS
  <1>1. at \in MemoryType /\ file \in Seq(Records) /\ counted \in Nat
    BY DEF TypeOK
  <1>2. /\ at.input \in Seq(Records) /\ at.queue \in Seq(Records)
        /\ at.got \in Nat /\ at.from \in Nat /\ at.input # << >>
    BY <1>1 DEF MemoryType, Arrive
  <1>3. Head(at.input) \in Records /\ Tail(at.input) \in Seq(Records)
    BY <1>2
  <1> DEFINE input == Tail(at.input)
             queue == Append(at.queue, Head(at.input))
  <1>4. at' \in MemoryType
    <2>1. at' = [at EXCEPT !.input = input, !.queue = queue, !.got = at.got + 1]
      BY DEF Arrive
    <2>2. input \in Seq(Records) /\ queue \in Seq(Records) /\ at.got + 1 \in Nat
      BY <1>2, <1>3
    <2> HIDE DEF input, queue
    <2> QED  BY <1>1, <2>1, <2>2 DEF MemoryType
  <1>5. file' \in Seq(Records) /\ counted' \in Nat
    BY <1>1, <1>2, <1>3 DEF Arrive
  <1> QED  BY <1>4, <1>5 DEF Arrive, TypeOK

LEMMA HandleTyped == TypeOK /\ Handle => TypeOK'
  <1> SUFFICES ASSUME TypeOK, Handle PROVE TypeOK'
    OBVIOUS
  <1>1. at \in MemoryType
    BY DEF TypeOK
  <1>2. /\ at.queue \in Seq(Records) /\ at.queue # << >>
        /\ at.seen \in Nat /\ at.buffer \in SUBSET Records
    BY <1>1 DEF MemoryType, Handle
  <1>3. Head(at.queue) \in Records /\ Tail(at.queue) \in Seq(Records)
    BY <1>2
  <1> DEFINE queue == Tail(at.queue)
             buffer == IF Wanted(Head(at.queue)) THEN at.buffer \cup {Head(at.queue)}
                       ELSE at.buffer
  <1>4. at' \in MemoryType
    <2>1. at' = [at EXCEPT !.queue = queue, !.seen = at.seen + 1, !.buffer = buffer]
      BY DEF Handle
    <2>2. queue \in Seq(Records) /\ buffer \in SUBSET Records /\ at.seen + 1 \in Nat
      BY <1>2, <1>3
    <2> HIDE DEF queue, buffer
    <2> QED  BY <1>1, <2>1, <2>2 DEF MemoryType
  <1>5. pc' \in Phases
    BY DEF Handle, Phases
  <1> QED  BY <1>4, <1>5 DEF Handle, TypeOK

LEMMA SpillTyped == TypeOK /\ Spill => TypeOK'
  <1> SUFFICES ASSUME TypeOK, Spill PROVE TypeOK'
    OBVIOUS
  <1>1. at \in MemoryType /\ bucket \in Seq(Records)
    BY DEF TypeOK
  <1>2. at.queue \in Seq(Records) /\ at.queue # << >>
    BY <1>1 DEF MemoryType, Spill
  <1>3. Head(at.queue) \in Records /\ Tail(at.queue) \in Seq(Records)
    BY <1>2
  <1> DEFINE queue == Tail(at.queue)
  <1>4. at' \in MemoryType
    <2>1. at' = [at EXCEPT !.queue = queue]
      BY DEF Spill
    <2>2. queue \in Seq(Records)
      BY <1>3
    <2> HIDE DEF queue
    <2> QED  BY <1>1, <2>1, <2>2 DEF MemoryType
  <1>5. bucket' \in Seq(Records)
    BY <1>1, <1>3 DEF Spill
  <1> QED  BY <1>4, <1>5 DEF Spill, TypeOK

LEMMA ResolveTyped == TypeOK /\ Resolve => TypeOK'
  <1> SUFFICES ASSUME TypeOK, Resolve PROVE TypeOK'
    OBVIOUS
  <1>1. at' \in MemoryType
    BY DEF Resolve, TypeOK, MemoryType
  <1> QED  BY <1>1 DEF Resolve, TypeOK

\* Copying only moves rows that are to be staged, because only those are buffered.
BufferIsStaged == at.buffer \subseteq Staged

LEMMA TypedStep == TypeOK /\ BufferIsStaged /\ [Next]_vars => TypeOK'
  <1> SUFFICES ASSUME TypeOK, BufferIsStaged, [Next]_vars PROVE TypeOK'
    OBVIOUS
  <1>t. at \in MemoryType /\ pc \in Phases /\ ckpt \in CheckpointType
    BY DEF TypeOK
  <1>1. CASE BeginRefused
    BY <1>1 DEF BeginRefused, TypeOK
  <1>2. CASE Begin
    BY <1>2, BeginTyped
  <1>3. CASE Clean
    BY <1>3 DEF Clean, TypeOK, Phases
  <1>4. CASE Move
    BY <1>4 DEF Move, TypeOK, Happens
  <1>5. CASE Arrive
    BY <1>5, ArriveTyped
  <1>6. CASE Handle
    BY <1>6, HandleTyped
  <1>7. CASE Copy
    <2>1. PICK rows \in SUBSET at.buffer :
            /\ staging' = staging \cup rows
            /\ at' = [at EXCEPT !.buffer = at.buffer \ rows]
            /\ pc' = IF at.buffer # rows THEN pc ELSE IF pc = "flush" THEN "save" ELSE "lastsave"
      BY <1>7 DEF Copy
    <2>2. staging' \subseteq Staged
      BY <2>1 DEF TypeOK, BufferIsStaged
    <2>3. at' \in MemoryType
      BY <2>1, <1>t DEF MemoryType
    <2>4. pc' \in Phases
      BY <2>1, <1>t DEF Phases
    <2> QED  BY <1>7, <2>2, <2>3, <2>4 DEF Copy, TypeOK
  <1>8. CASE Save
    <2>1. ckpt' \in CheckpointType
      BY <1>8, <1>t DEF Save, Checkpoint, CheckpointType, MemoryType
    <2> QED  BY <1>8, <2>1 DEF Save, TypeOK, Phases
  <1>9. CASE EndOfInput
    BY <1>9 DEF EndOfInput, TypeOK, Phases
  <1>10. CASE MarkProcessing
    BY <1>10 DEF MarkProcessing, TypeOK, Phases
  <1>11. CASE MergeStaging
    BY <1>11 DEF MergeStaging, TypeOK, Phases
  <1>12. CASE MarkCompleted
    BY <1>12, NoMemoryTyped DEF MarkCompleted, TypeOK, Phases
  <1>13. CASE Cut
    <2>1. at' \in MemoryType /\ pc' \in Phases
      BY <1>13, <1>t, InterruptedTyped DEF Cut, MemoryType
    <2> QED  BY <1>13, <2>1 DEF Cut, TypeOK, Happens
  <1>14. CASE CopyFails
    <2>1. PICK rows \in SUBSET at.buffer \ {{}} :
            IF pc = "flush" THEN Interrupted(at.buffer \ rows)
                            ELSE at' = NoMemory /\ pc' = "idle"
      BY <1>14 DEF CopyFails
    <2>2. at.buffer \ rows \in SUBSET Records
      BY <1>t DEF MemoryType
    <2>3. at' \in MemoryType /\ pc' \in Phases
      BY <2>1, <2>2, InterruptedTyped, NoMemoryTyped DEF Phases
    <2> QED  BY <1>14, <2>3 DEF CopyFails, TypeOK, Happens
  <1>15. CASE SaveFails
    <2>1. at.buffer \in SUBSET Records
      BY <1>t DEF MemoryType
    <2>2. at' \in MemoryType /\ pc' \in Phases
      BY <1>15, <2>1, InterruptedTyped, NoMemoryTyped DEF SaveFails, Phases
    <2> QED  BY <1>15, <2>2 DEF SaveFails, TypeOK, Happens
  <1>16. CASE MergeFails
    BY <1>16, NoMemoryTyped DEF MergeFails, TypeOK, Phases, Happens
  <1>17. CASE Crash
    BY <1>17, NoMemoryTyped DEF Crash, TypeOK, Phases, Happens
  <1>18. CASE UNCHANGED vars
    BY <1>18 DEF vars, TypeOK
  <1>19. CASE Spill \/ Resolve
    BY <1>19, SpillTyped, ResolveTyped
  <1> QED
    BY <1>1, <1>2, <1>3, <1>4, <1>5, <1>6, <1>7, <1>8, <1>9, <1>10, <1>11, <1>12,
       <1>13, <1>14, <1>15, <1>16, <1>17, <1>18, <1>19 DEF Next

LEMMA InterruptedBuffer ==
  ASSUME TypeOK, NEW b, Interrupted(b)
  PROVE  at'.buffer \subseteq b
  <1> DEFINE rest == SubSeq(file, at.from + 1, Len(file))
  <1>1. at \in MemoryType
    BY DEF TypeOK
  <1>2. CASE at' = [at EXCEPT !.input = rest, !.queue = << >>, !.buffer = b,
                              !.persist = FALSE, !.streaming = FALSE, !.resolving = FALSE]
    <2> HIDE DEF rest
    <2> QED  BY <1>1, <1>2 DEF MemoryType
  <1>3. CASE at' = NoMemory
    BY <1>3 DEF NoMemory
  <1> QED  BY <1>2, <1>3 DEF Interrupted

LEMMA BufferStep == TypeOK /\ BufferIsStaged /\ [Next]_vars => BufferIsStaged'
  <1> SUFFICES ASSUME TypeOK, BufferIsStaged, [Next]_vars PROVE BufferIsStaged'
    OBVIOUS
  <1>t. at \in MemoryType
    BY DEF TypeOK
  <1>1. CASE at' = NoMemory \/ UNCHANGED at
    BY <1>1 DEF BufferIsStaged, NoMemory
  <1>2. CASE Begin
    BY <1>2 DEF Begin, NoMemory, BufferIsStaged
  <1>3. CASE Arrive
    BY <1>3, <1>t DEF Arrive, MemoryType, BufferIsStaged
  <1>8. CASE Spill \/ Resolve
    BY <1>8, <1>t DEF Spill, Resolve, MemoryType, BufferIsStaged
  <1>4. CASE Handle
    <2>1. Head(at.queue) \in Records
      BY <1>4, <1>t DEF Handle, MemoryType
    <2>2. at'.buffer = IF Wanted(Head(at.queue)) THEN at.buffer \cup {Head(at.queue)}
                       ELSE at.buffer
      BY <1>4, <1>t DEF Handle, MemoryType
    <2> QED  BY <2>1, <2>2 DEF Wanted, Staged, BufferIsStaged
  <1>5. CASE Copy
    BY <1>5, <1>t DEF Copy, MemoryType, BufferIsStaged
  <1>6. CASE Cut \/ SaveFails
    BY <1>6, InterruptedBuffer DEF Cut, SaveFails, NoMemory, BufferIsStaged
  <1>7. CASE CopyFails
    <2>1. PICK rows \in SUBSET at.buffer \ {{}} :
            IF pc = "flush" THEN Interrupted(at.buffer \ rows)
                            ELSE at' = NoMemory /\ pc' = "idle"
      BY <1>7 DEF CopyFails
    <2>2. at'.buffer \subseteq at.buffer \ rows
      BY <2>1, InterruptedBuffer DEF NoMemory
    <2> QED  BY <2>2 DEF BufferIsStaged
  <1> QED
    BY <1>1, <1>2, <1>3, <1>4, <1>5, <1>6, <1>7, <1>8
    DEF Next, vars, BeginRefused, Clean, Move, Save, EndOfInput, MarkProcessing,
        MergeStaging, MarkCompleted, MergeFails, Crash

\* The type invariant holds of every behaviour.
THEOREM TypeCorrect == Spec => []TypeOK
  <1>1. Init => BufferIsStaged
    BY DEF Init, NoMemory, BufferIsStaged
  <1> QED  BY <1>1, TypedInit, TypedStep, BufferStep, PTL DEF Spec

-----------------------------------------------------------------------------
(* Staged rows are kept.                                                      *)

\* Staging is about to be cleaned only when the checkpoint counts nothing.
CleanIsFresh == pc = "clean" => ckpt.records = 0

LEMMA CleanFirst == Spec => []CleanIsFresh
  <1>1. Init => CleanIsFresh
    BY DEF Init, CleanIsFresh
  <1>2. CleanIsFresh /\ [Next]_vars => CleanIsFresh'
    BY DEF CleanIsFresh, Next, vars, BeginRefused, Begin, FirstPhase, Clean, Move, Arrive, Spill, Resolve,
           Handle, Copy, Save, EndOfInput, MarkProcessing, MergeStaging, MarkCompleted,
           Cut, CopyFails, SaveFails, Interrupted, MergeFails, Crash
  <1> QED  BY <1>1, <1>2, PTL DEF Spec

\* Whatever goes wrong, no attempt deletes staged rows once a checkpoint counts
\* records: the DELETE of a fresh ingest is behind the test of the checkpoint.
THEOREM Kept == Spec => CommittedKept
  <1>1. CleanIsFresh /\ [Next]_vars => [ckpt.records > 0 => staging \subseteq staging']_vars
    <2> SUFFICES ASSUME CleanIsFresh, [Next]_vars, ckpt.records > 0
                 PROVE  staging \subseteq staging'
      OBVIOUS
    <2>1. CASE Clean
      BY <2>1 DEF Clean, CleanIsFresh
    <2>2. CASE Copy
      BY <2>2 DEF Copy
    <2>3. CASE UNCHANGED staging
      BY <2>3
    <2> QED
      BY <2>1, <2>2, <2>3
      DEF Next, vars, BeginRefused, Begin, Move, Arrive, Spill, Resolve, Handle, Save, EndOfInput,
          MarkProcessing, MergeStaging, MarkCompleted, Cut, CopyFails, SaveFails,
          MergeFails, Crash
  <1> QED  BY <1>1, CleanFirst, PTL DEF Spec, CommittedKept

-----------------------------------------------------------------------------
(* Resuming loses nothing.                                                    *)

\* The records the checkpoint counted, and those handed on since, are not lost.
Covered ==
    /\ \A k \in 1..at.committed : HandedOn(k) \in Staged => HandedOn(k) \in staging
    /\ \A k \in 1..at.seen : HandedOn(k) \in Staged => HandedOn(k) \in staging \cup at.buffer

\* p lines were handled, those of q and i are still to be.
OnTheWay(p, q, i) ==
    /\ p + Len(q) + Len(i) = N
    /\ \A k \in 1..Len(q) : q[k] = Lines[p + k]
    /\ \A k \in 1..Len(i) : i[k] = Lines[p + Len(q) + k]

\* Of p lines, n were handed on, and the others are in the bucket file b.
Sorted(p, n, b) ==
    /\ n <= Direct
    /\ \A k \in Records : Lines[k] <= Direct => (k <= p <=> Lines[k] <= n)
    /\ \A k \in Records : k <= p /\ Lines[k] > Direct => \E j \in 1..Len(b) : b[j] = Lines[k]

\* What is left of the bucket file, which has every line that was not handed on.
Rest(n, q, b) ==
    /\ n >= Direct
    /\ n + Len(q) = Direct + Len(b)
    /\ \A k \in 1..Len(q) : q[k] = b[(n - Direct) + k]
    /\ \A r \in Records : r > Direct => \E j \in 1..Len(b) : b[j] = r

\* A stream from the beginning delivers the records in order.
InOrder ==
    \/ /\ ~at.resolving
       /\ \E p \in 0..N : OnTheWay(p, at.queue, at.input) /\ Sorted(p, at.seen, bucket)
    \/ at.resolving /\ at.input = << >> /\ Rest(at.seen, at.queue, bucket)

Reading == {"clean", "read", "flush", "save"}
Closing == {"lastflush", "lastsave", "mark", "merge", "complete"}
Known == Direct + Len(bucket)

\* The attempt in progress, when all that happened is what resuming is for.
Attempt ==
    /\ pc # "idle" =>
        /\ at.streaming
        /\ at.committed <= Known
        /\ ckpt.records = at.committed \/ ckpt.records <= at.seen
        /\ InOrder
        /\ pc # "clean" => Covered
    /\ pc = "clean" => at.committed = 0 /\ at.seen = 0 /\ at.buffer = {}
    /\ pc \in {"flush", "save"} => at.seen > at.committed
    /\ pc \in Closing => at.resolving /\ at.queue = << >>
    /\ pc \in {"save", "lastsave", "mark", "merge", "complete"} => at.buffer = {}

\* From the mark on, staging is complete and nothing changes it.
Marked ==
    /\ pc \in {"merge", "complete"} => status # "open"
    /\ status # "open" => pc \in {"idle", "merge", "complete"} /\ Staged \subseteq staging
    /\ merged # {} => status # "open" /\ merged = Staged

Resume == Resumable => Attempt /\ Marked /\ CommittedAreStaged

LEMMA ResumeInit == Init => Resume
  BY DEF Init, Resume, Attempt, Marked, CommittedAreStaged, NoCheckpoint, Closing

LEMMA StillResumable == [Next]_vars /\ Resumable' => Resumable
  BY DEF Resumable, Next, vars, BeginRefused, Begin, Clean, Move, Arrive, Spill, Resolve,
         Handle, Copy, Save, EndOfInput, MarkProcessing, MergeStaging, MarkCompleted, Cut,
         CopyFails, SaveFails, MergeFails, Crash, Happens

LEMMA KnownTyped == TypeOK => Known \in Nat /\ Len(bucket) \in Nat
  BY DEF TypeOK, Known

\* No more records are handed on than are known.
LEMMA SeenAreKnown == TypeOK /\ InOrder => at.seen <= Known
  <1> SUFFICES ASSUME TypeOK, InOrder PROVE at.seen <= Known
    OBVIOUS
  <1>1. at.seen \in Nat /\ at.queue \in Seq(Records) /\ Len(bucket) \in Nat
    BY KnownTyped DEF TypeOK, MemoryType
  <1>2. CASE \E p \in 0..N : Sorted(p, at.seen, bucket)
    <2>1. at.seen <= Direct
      BY <1>2 DEF Sorted
    <2> QED  BY <1>1, <2>1 DEF Known
  <1>3. CASE Rest(at.seen, at.queue, bucket)
    <2> DEFINE l == Len(at.queue)
    <2>1. l \in Nat
      BY <1>1
    <2>2. at.seen + l = Direct + Len(bucket)
      BY <1>3 DEF Rest
    <2> HIDE DEF l
    <2> QED  BY <1>1, <2>1, <2>2 DEF Known
  <1> QED  BY <1>2, <1>3 DEF InOrder

\* An attempt begins at the first record, with what the checkpoint counts staged.
LEMMA BeginResumes ==
  ASSUME TypeOK, Resume, Resumable, Begin
  PROVE  Attempt' /\ Marked'
  <1>1. ckpt.records \in Nat /\ ckpt.records <= Known /\ bucket' = bucket
    BY DEF Resume, TypeOK, CheckpointType, CommittedAreStaged, Known, Begin
  <1>2. PICK b \in Offsets :
          at' = [NoMemory EXCEPT
                   !.committed = ckpt.records, !.from = b, !.input = Input(b),
                   !.persist = Persists(b), !.streaming = source = "remote"]
    BY DEF Begin
  <1>3. Input(b) = Lines /\ source = "remote"
    BY DEF Input, Resumable
  <1>4. /\ at'.committed = ckpt.records /\ at'.seen = 0 /\ at'.buffer = {}
        /\ at'.input = Lines /\ at'.queue = << >> /\ at'.streaming /\ ~at'.resolving
    BY <1>2, <1>3 DEF NoMemory
  <1>5. /\ ckpt' = ckpt /\ staging' = staging /\ status' = status /\ merged' = merged
        /\ status = "open"
        /\ pc' = IF ckpt.records = 0 THEN "clean" ELSE "read"
    BY DEF Begin, FirstPhase
  <1>6. InOrder'
    <2>1. OnTheWay(0, << >>, Lines)
      BY DEF OnTheWay
    <2>2. \A k \in Records : Lines[k] \in Records
      <3>1. \A s \in Seq(Records) : \A k \in 1..Len(s) : s[k] \in Records
        OBVIOUS
      <3>2. \A k \in 1..Len(Lines) : Lines[k] \in Records
        BY <3>1
      <3> QED  BY <3>2 DEF Records
    <2>3. Sorted(0, 0, bucket)
      BY <2>2 DEF Sorted, Records
    <2>4. OnTheWay(0, at'.queue, at'.input) /\ Sorted(0, at'.seen, bucket')
      BY <1>1, <1>4, <2>1, <2>3
    <2>5. 0 \in 0..N
      OBVIOUS
    <2> QED  BY <1>4, <2>4, <2>5 DEF InOrder
  <1>7. \A k \in 1..ckpt.records : HandedOn(k) \in Staged => HandedOn(k) \in staging
    BY DEF Resume, CommittedAreStaged
  <1>8. Covered'
    BY <1>1, <1>4, <1>5, <1>7 DEF Covered, HandedOn
  <1>9. Attempt'
    BY <1>1, <1>4, <1>5, <1>6, <1>8 DEF Attempt, Closing, Known
  <1>10. Marked'
    BY <1>5 DEF Marked, Resume
  <1> QED  BY <1>9, <1>10

\* Moving the first line of the input to the end of the queue keeps the order.
LEMMA HeadMoves ==
  ASSUME NEW n \in Nat, NEW q \in Seq(Records), NEW i \in Seq(Records), i # << >>,
         OnTheWay(n, q, i)
  PROVE  OnTheWay(n, Append(q, Head(i)), Tail(i))
  <1> DEFINE lq == Len(q)
             li == Len(i)
             queue == Append(q, Head(i))
             input == Tail(i)
  <1>1. lq \in Nat /\ li \in Nat /\ li > 0
    OBVIOUS
  <1>2. Len(queue) = lq + 1 /\ Len(input) = li - 1
    OBVIOUS
  <1>3. \A k \in 1..lq : queue[k] = q[k]
    OBVIOUS
  <1>4. queue[lq + 1] = i[1]
    OBVIOUS
  <1>5. \A k \in 1..(li - 1) : input[k] = i[k + 1]
    OBVIOUS
  <1>6. /\ n + lq + li = N
        /\ \A k \in 1..lq : q[k] = Lines[n + k]
        /\ \A k \in 1..li : i[k] = Lines[n + lq + k]
    BY DEF OnTheWay
  <1> HIDE DEF lq, li, queue, input
  <1>7. n + (lq + 1) + (li - 1) = N
    BY <1>1, <1>6
  <1>8. \A k \in 1..(lq + 1) : queue[k] = Lines[n + k]
    <2> TAKE k \in 1..(lq + 1)
    <2>1. CASE k \in 1..lq
      BY <1>3, <1>6, <2>1
    <2>2. CASE k = lq + 1
      <3>1. i[1] = Lines[n + lq + 1]
        BY <1>1, <1>6
      <3>2. n + lq + 1 = n + k
        BY <1>1, <2>2
      <3> QED  BY <1>4, <2>2, <3>1, <3>2
    <2> QED  BY <1>1, <2>1, <2>2
  <1>9. \A k \in 1..(li - 1) : input[k] = Lines[n + (lq + 1) + k]
    <2> TAKE k \in 1..(li - 1)
    <2>1. k + 1 \in 1..li
      BY <1>1
    <2>2. i[k + 1] = Lines[n + lq + (k + 1)]
      BY <1>6, <2>1
    <2>3. n + lq + (k + 1) = n + (lq + 1) + k
      BY <1>1
    <2> QED  BY <1>5, <2>2, <2>3
  <1>10. OnTheWay(n, queue, input)
    BY <1>2, <1>7, <1>8, <1>9 DEF OnTheWay
  <1> QED  BY <1>10 DEF queue, input

\* The first line of the queue is the next one of the result.
LEMMA HeadHandled ==
  ASSUME NEW n \in Nat, NEW q \in Seq(Records), NEW i \in Seq(Records), q # << >>,
         OnTheWay(n, q, i)
  PROVE  n + 1 \in Records /\ Head(q) = Lines[n + 1] /\ OnTheWay(n + 1, Tail(q), i)
  <1> DEFINE lq == Len(q)
             li == Len(i)
             queue == Tail(q)
  <1>1. lq \in Nat /\ li \in Nat /\ lq > 0
    OBVIOUS
  <1>2. Len(queue) = lq - 1 /\ Head(q) = q[1]
    OBVIOUS
  <1>3. \A k \in 1..(lq - 1) : queue[k] = q[k + 1]
    OBVIOUS
  <1>4. /\ n + lq + li = N
        /\ \A k \in 1..lq : q[k] = Lines[n + k]
        /\ \A k \in 1..li : i[k] = Lines[n + lq + k]
    BY DEF OnTheWay
  <1>l. Len(i) = li
    OBVIOUS
  <1> HIDE DEF lq, li, queue
  <1>5. q[1] = Lines[n + 1] /\ n + 1 \in Records
    BY <1>1, <1>4 DEF Records
  <1>6. (n + 1) + (lq - 1) + li = N
    BY <1>1, <1>4
  <1>7. \A k \in 1..(lq - 1) : queue[k] = Lines[(n + 1) + k]
    <2> TAKE k \in 1..(lq - 1)
    <2>1. k + 1 \in 1..lq
      BY <1>1
    <2>2. q[k + 1] = Lines[n + (k + 1)]
      BY <1>4, <2>1
    <2>3. n + (k + 1) = (n + 1) + k
      OBVIOUS
    <2> QED  BY <1>3, <2>2, <2>3
  <1>8. \A k \in 1..li : i[k] = Lines[(n + 1) + (lq - 1) + k]
    <2> TAKE k \in 1..li
    <2>1. i[k] = Lines[n + lq + k]
      BY <1>4
    <2>2. n + lq + k = (n + 1) + (lq - 1) + k
      BY <1>1
    <2> QED  BY <2>1, <2>2
  <1>9. OnTheWay(n + 1, queue, i)
    BY <1>2, <1>6, <1>7, <1>8, <1>l DEF OnTheWay
  <1> QED  BY <1>2, <1>5, <1>9 DEF queue

LEMMA LineTyped == \A k \in Records : Lines[k] \in Nat
  BY DEF Records

\* The next line is either the next record, and is handed on, ...
LEMMA DirectIsNext ==
  ASSUME NEW n \in Nat, n + 1 \in Records, NEW m \in Nat, NEW b \in Seq(Records),
         Sorted(n, m, b), Lines[n + 1] <= Direct
  PROVE  Lines[n + 1] = m + 1 /\ Sorted(n + 1, m + 1, b)
  <1>1. \A k \in Records : k \in Nat /\ k >= 1 /\ k <= N
    BY DEF Records
  <1>2. \A i, j \in Records : i < j /\ Lines[i] <= Direct /\ Lines[j] <= Direct
                              => Lines[i] < Lines[j]
    OBVIOUS
  <1>3. /\ m <= Direct
        /\ \A k \in Records : Lines[k] <= Direct => (k <= n <=> Lines[k] <= m)
        /\ \A k \in Records : k <= n /\ Lines[k] > Direct => \E j \in 1..Len(b) : b[j] = Lines[k]
    BY DEF Sorted
  <1>4. ~(Lines[n + 1] <= m) /\ Lines[n + 1] \in Nat
    BY <1>3, LineTyped
  <1>5. m + 1 \in Records
    BY <1>4 DEF Records
  <1>6. PICK j \in Records : Lines[j] = m + 1
    BY <1>5
  <1>7. m + 1 <= Direct
    BY <1>4
  <1>8. ~(j <= n)
    BY <1>3, <1>6, <1>7
  <1>9. ~(n + 1 < j)
    <2> SUFFICES ASSUME n + 1 < j PROVE FALSE
      OBVIOUS
    <2>1. Lines[n + 1] < Lines[j]
      BY <1>2, <1>6, <1>7
    <2> QED  BY <2>1, <1>4, <1>6
  <1>n. j \in Nat /\ n \in Nat
    BY <1>1
  <1>10. j = n + 1
    BY ONLY <1>n, <1>8, <1>9
  <1>11. Lines[n + 1] = m + 1
    BY <1>6, <1>10
  <1>12. ASSUME NEW k \in Records, Lines[k] <= Direct
         PROVE  k <= n + 1 <=> Lines[k] <= m + 1
    <2>0. k \in Nat
      BY <1>1
    <2>4. k <= n \/ k = n + 1 \/ n + 1 < k
      BY ONLY <2>0, <1>n
    <2>1. CASE k <= n
      BY <1>1, <1>3, <1>12, <2>1, LineTyped
    <2>2. CASE k = n + 1
      BY <1>11, <2>2
    <2>3. CASE n + 1 < k
      <3>1. Lines[n + 1] < Lines[k]
        BY <1>2, <1>12, <2>3
      <3> QED  BY <1>1, <1>11, <2>3, <3>1, LineTyped
    <2> QED  BY <2>1, <2>2, <2>3, <2>4
  <1>13. ASSUME NEW k \in Records, k <= n + 1, Lines[k] > Direct
         PROVE  \E i \in 1..Len(b) : b[i] = Lines[k]
    <2>1. k # n + 1
      BY <1>7, <1>11, <1>13
    <2>0. k \in Nat
      BY <1>1
    <2>2. k <= n
      BY ONLY <2>0, <1>n, <1>13, <2>1
    <2> QED  BY <1>3, <1>13, <2>2
  <1> QED  BY <1>7, <1>11, <1>12, <1>13 DEF Sorted

\* ... or goes to the bucket file.
LEMMA OtherIsSpilled ==
  ASSUME NEW n \in Nat, n + 1 \in Records, NEW m \in Nat, NEW b \in Seq(Records),
         Sorted(n, m, b), Lines[n + 1] > Direct
  PROVE  Sorted(n + 1, m, Append(b, Lines[n + 1]))
  <1> DEFINE l == Len(b)
             c == Append(b, Lines[n + 1])
  <1>1. l \in Nat /\ Len(c) = l + 1
    BY DEF Records
  <1>2. \A j \in 1..l : c[j] = b[j]
    BY DEF Records
  <1>3. c[l + 1] = Lines[n + 1]
    BY DEF Records
  <1>4. /\ m <= Direct
        /\ \A k \in Records : Lines[k] <= Direct => (k <= n <=> Lines[k] <= m)
        /\ \A k \in Records : k <= n /\ Lines[k] > Direct => \E j \in 1..l : b[j] = Lines[k]
    BY DEF Sorted
  <1>5. \A k \in Records : k \in Nat
    BY DEF Records
  <1> HIDE DEF l, c
  <1>6. ASSUME NEW k \in Records, Lines[k] <= Direct
        PROVE  k <= n + 1 <=> Lines[k] <= m
    <2>1. k # n + 1
      BY <1>6, LineTyped
    <2>0. k \in Nat /\ n \in Nat
      BY <1>5
    <2>2. k <= n + 1 <=> k <= n
      BY ONLY <2>0, <2>1
    <2> QED  BY <1>4, <1>6, <2>2
  <1>7. ASSUME NEW k \in Records, k <= n + 1, Lines[k] > Direct
        PROVE  \E j \in 1..(l + 1) : c[j] = Lines[k]
    <2>1. CASE k = n + 1
      BY <1>1, <1>3, <2>1
    <2>2. CASE k <= n
      <3>1. PICK j \in 1..l : b[j] = Lines[k]
        BY <1>4, <1>7, <2>2
      <3>2. j \in 1..(l + 1)
        BY <1>1
      <3> QED  BY <1>2, <3>1, <3>2
    <2> QED  BY <1>5, <1>7, <2>1, <2>2
  <1>8. Sorted(n + 1, m, c)
    BY <1>1, <1>4, <1>6, <1>7 DEF Sorted
  <1> QED  BY <1>8 DEF c

\* The first line of what is left of the bucket file is the next record.
LEMMA RestHandled ==
  ASSUME NEW n \in Nat, NEW q \in Seq(Records), NEW b \in Seq(Records), q # << >>,
         Rest(n, q, b)
  PROVE  /\ n + 1 > Direct
         /\ Head(q) = b[(n + 1) - Direct] /\ Rest(n + 1, Tail(q), b)
  <1> DEFINE lq == Len(q)
             lb == Len(b)
             queue == Tail(q)
  <1>1. lq \in Nat /\ lb \in Nat /\ lq > 0
    OBVIOUS
  <1>2. Len(queue) = lq - 1 /\ Head(q) = q[1]
    OBVIOUS
  <1>3. \A k \in 1..(lq - 1) : queue[k] = q[k + 1]
    OBVIOUS
  <1>4. /\ n >= Direct
        /\ n + lq = Direct + lb
        /\ \A k \in 1..lq : q[k] = b[(n - Direct) + k]
        /\ \A r \in Records : r > Direct => \E j \in 1..lb : b[j] = r
    BY DEF Rest
  <1>l. Len(b) = lb
    OBVIOUS
  <1> HIDE DEF lq, lb, queue
  <1>5. q[1] = b[(n - Direct) + 1] /\ (n - Direct) + 1 = (n + 1) - Direct
    BY <1>1, <1>4
  <1>6. (n + 1) + (lq - 1) = Direct + lb
    BY <1>1, <1>4
  <1>7. \A k \in 1..(lq - 1) : queue[k] = b[((n + 1) - Direct) + k]
    <2> TAKE k \in 1..(lq - 1)
    <2>1. k + 1 \in 1..lq
      BY <1>1
    <2>2. q[k + 1] = b[(n - Direct) + (k + 1)]
      BY <1>4, <2>1
    <2>3. (n - Direct) + (k + 1) = ((n + 1) - Direct) + k
      OBVIOUS
    <2> QED  BY <1>3, <2>2, <2>3
  <1>8. Rest(n + 1, queue, b)
    BY <1>2, <1>4, <1>6, <1>7, <1>l DEF Rest
  <1> QED  BY <1>2, <1>4, <1>5, <1>8 DEF queue

LEMMA ArriveResumes ==
  ASSUME TypeOK, Resume, Resumable, Arrive
  PROVE  Attempt' /\ Marked'
  <1>t. at \in MemoryType
    BY DEF TypeOK
  <1>1. /\ at.input \in Seq(Records) /\ at.queue \in Seq(Records)
        /\ at.seen \in Nat /\ at.input # << >> /\ pc = "read"
    BY <1>t DEF MemoryType, Arrive
  <1> DEFINE input == Tail(at.input)
             queue == Append(at.queue, Head(at.input))
  <1>2. at' = [at EXCEPT !.input = input, !.queue = queue, !.got = at.got + 1]
    BY DEF Arrive
  <1>3. PICK p \in 0..N : OnTheWay(p, at.queue, at.input) /\ Sorted(p, at.seen, bucket)
    BY <1>1 DEF Resume, Attempt, InOrder
  <1>4. OnTheWay(p, queue, input)
    BY <1>1, <1>3, HeadMoves
  <1>r. ~at.resolving
    BY <1>1 DEF Resume, Attempt, InOrder
  <1> HIDE DEF input, queue
  <1>5. /\ at'.input = input /\ at'.queue = queue /\ at'.seen = at.seen
        /\ at'.committed = at.committed /\ at'.buffer = at.buffer
        /\ at'.streaming = at.streaming /\ at'.resolving = at.resolving
    BY <1>2, <1>t DEF MemoryType
  <1>6. /\ pc' = pc /\ ckpt' = ckpt /\ staging' = staging /\ bucket' = bucket
        /\ status' = status /\ merged' = merged
    BY DEF Arrive
  <1>7. InOrder'
    <2>1. OnTheWay(p, at'.queue, at'.input) /\ Sorted(p, at'.seen, bucket') /\ ~at'.resolving
      BY <1>3, <1>4, <1>5, <1>6, <1>r
    <2> QED  BY <2>1 DEF InOrder
  <1>8. Covered'
    BY <1>1, <1>5, <1>6 DEF Covered, HandedOn, Resume, Attempt
  <1>9. Attempt'
    BY <1>1, <1>5, <1>6, <1>7, <1>8 DEF Attempt, Closing, Resume, Known
  <1> QED  BY <1>6, <1>9 DEF Marked, Resume

\* Handing on the next record, from the result or from the bucket file.
LEMMA NextHandled ==
  ASSUME TypeOK, InOrder, at.queue # << >>, at.resolving \/ Head(at.queue) <= Direct,
         at'.queue = Tail(at.queue), at'.input = at.input, at'.seen = at.seen + 1,
         at'.resolving = at.resolving, bucket' = bucket
  PROVE  Head(at.queue) = HandedOn(at.seen + 1) /\ InOrder'
  <1>1. /\ at.input \in Seq(Records) /\ at.queue \in Seq(Records) /\ at.seen \in Nat
        /\ bucket \in Seq(Records)
    BY DEF TypeOK, MemoryType
  <1>2. CASE ~at.resolving
    <2>1. PICK p \in 0..N : OnTheWay(p, at.queue, at.input) /\ Sorted(p, at.seen, bucket)
      BY <1>2 DEF InOrder
    <2>2. p \in Nat
      OBVIOUS
    <2>3. /\ p + 1 \in Records /\ Head(at.queue) = Lines[p + 1]
          /\ OnTheWay(p + 1, Tail(at.queue), at.input)
      BY <1>1, <2>1, <2>2, HeadHandled
    <2>4. Lines[p + 1] = at.seen + 1 /\ Sorted(p + 1, at.seen + 1, bucket)
      BY <1>1, <1>2, <2>1, <2>2, <2>3, DirectIsNext
    <2>5. p + 1 \in 0..N
      BY <2>2, <2>3 DEF Records
    <2>6. OnTheWay(p + 1, at'.queue, at'.input) /\ Sorted(p + 1, at'.seen, bucket')
      BY <2>3, <2>4
    <2>7. InOrder'
      BY <1>2, <2>5, <2>6 DEF InOrder
    <2>8. at.seen + 1 <= Direct
      BY <2>4 DEF Sorted
    <2>9. HandedOn(at.seen + 1) = at.seen + 1
      BY <2>8 DEF HandedOn
    <2> QED  BY <2>3, <2>4, <2>7, <2>9
  <1>3. CASE at.resolving
    <2>1. at.input = << >> /\ Rest(at.seen, at.queue, bucket)
      BY <1>3 DEF InOrder
    <2>2. /\ at.seen + 1 > Direct /\ Head(at.queue) = bucket[(at.seen + 1) - Direct]
          /\ Rest(at.seen + 1, Tail(at.queue), bucket)
      BY <1>1, <2>1, RestHandled
    <2>3. InOrder'
      BY <1>3, <2>1, <2>2 DEF InOrder
    <2>4. ~(at.seen + 1 <= Direct)
      BY <1>1, <2>2
    <2>5. HandedOn(at.seen + 1) = bucket[(at.seen + 1) - Direct]
      BY <2>4 DEF HandedOn
    <2> QED  BY <2>2, <2>3, <2>5
  <1> QED  BY <1>2, <1>3

LEMMA HandleResumes ==
  ASSUME TypeOK, Resume, Resumable, Handle
  PROVE  Attempt' /\ Marked'
  <1>t. at \in MemoryType
    BY DEF TypeOK
  <1>1. /\ at.seen \in Nat /\ at.committed \in Nat /\ at.queue # << >> /\ pc = "read"
        /\ at.resolving \/ Head(at.queue) <= Direct
    BY <1>t DEF MemoryType, Handle
  <1> DEFINE r == Head(at.queue)
             queue == Tail(at.queue)
             buffer == IF Wanted(r) THEN at.buffer \cup {r} ELSE at.buffer
  <1>2. at' = [at EXCEPT !.queue = queue, !.seen = at.seen + 1, !.buffer = buffer]
    BY DEF Handle
  <1>3. /\ ckpt' = ckpt /\ staging' = staging /\ bucket' = bucket
        /\ status' = status /\ merged' = merged
        /\ pc' \in {"read", "flush"} /\ (pc' = "flush" => Wanted(r))
    BY DEF Handle
  <1>4. /\ at'.input = at.input /\ at'.queue = queue /\ at'.seen = at.seen + 1
        /\ at'.committed = at.committed /\ at'.buffer = buffer
        /\ at'.streaming = at.streaming /\ at'.resolving = at.resolving
    <2> HIDE DEF queue, buffer
    <2> QED  BY <1>2, <1>t DEF MemoryType
  <1>5. Wanted(r) <=> at.seen + 1 > at.committed /\ r \notin Skipped
    BY DEF Wanted
  <1>6. Covered /\ InOrder
    BY <1>1 DEF Resume, Attempt
  <1>7. r = HandedOn(at.seen + 1) /\ InOrder'
    BY <1>1, <1>3, <1>4, <1>6, NextHandled
  <1>8. ASSUME NEW k \in 1..(at.seen + 1), HandedOn(k) \in Staged
        PROVE  HandedOn(k) \in staging \cup buffer
    <2>1. CASE k \in 1..at.seen
      BY <1>6, <1>8, <2>1 DEF Covered
    <2>2. CASE k = at.seen + 1 /\ at.seen + 1 > at.committed
      BY <1>5, <1>7, <1>8, <2>2 DEF Staged
    <2>3. CASE k = at.seen + 1 /\ at.seen + 1 <= at.committed
      <3>1. k \in 1..at.committed
        BY <1>1, <2>3
      <3> QED  BY <1>6, <1>8, <3>1 DEF Covered
    <2> QED  BY <1>1, <2>1, <2>2, <2>3
  <1> HIDE DEF r, queue, buffer
  <1>9. Covered'
    <2>1. \A k \in 1..at.committed : HandedOn(k) \in Staged => HandedOn(k) \in staging
      BY <1>6 DEF Covered
    <2>2. \A k : HandedOn(k)' = HandedOn(k)
      BY <1>3 DEF HandedOn
    <2> QED  BY <1>3, <1>4, <1>8, <2>1, <2>2 DEF Covered
  <1>10. ckpt.records \in Nat
    BY DEF TypeOK, CheckpointType
  <1>11. /\ at'.committed <= Known' /\ at'.streaming
         /\ ckpt'.records = at'.committed \/ ckpt'.records <= at'.seen
    BY <1>1, <1>3, <1>4, <1>10 DEF Resume, Attempt, Known
  <1>12. pc' \in {"flush", "save"} => at'.seen > at'.committed
    BY <1>3, <1>4, <1>5
  <1>13. Attempt'
    BY <1>3, <1>7, <1>9, <1>11, <1>12 DEF Attempt, Closing
  <1>14. status = "open"
    BY <1>1 DEF Resume, Marked
  <1> QED  BY <1>3, <1>13, <1>14 DEF Marked, Resume

\* A longer bucket file does not change which records have a number already.
LEMMA SpillKeepsNumbers ==
  ASSUME TypeOK, NEW r \in Records, bucket' = Append(bucket, r)
  PROVE  /\ \A k \in 1..Known : HandedOn(k)' = HandedOn(k)
         /\ Known' = Known + 1
  <1>1. bucket \in Seq(Records) /\ Len(bucket) \in Nat
    BY DEF TypeOK
  <1>2. Len(bucket') = Len(bucket) + 1
    BY <1>1
  <1>3. \A j \in 1..Len(bucket) : bucket'[j] = bucket[j]
    BY <1>1
  <1>4. ASSUME NEW k \in 1..Known PROVE HandedOn(k)' = HandedOn(k)
    <2>1. CASE k <= Direct
      BY <2>1 DEF HandedOn
    <2>2. CASE ~(k <= Direct)
      <3>1. k - Direct \in 1..Len(bucket)
        BY <1>1, <2>2 DEF Known
      <3> QED  BY <1>3, <2>2, <3>1 DEF HandedOn
    <2> QED  BY <2>1, <2>2
  <1> QED  BY <1>1, <1>2, <1>4 DEF Known

LEMMA SpillResumes ==
  ASSUME TypeOK, Resume, Resumable, Spill
  PROVE  Attempt' /\ Marked' /\ CommittedAreStaged'
  <1>t. at \in MemoryType /\ bucket \in Seq(Records)
    BY DEF TypeOK
  <1>1. /\ at.input \in Seq(Records) /\ at.queue \in Seq(Records)
        /\ at.seen \in Nat /\ at.committed \in Nat /\ at.queue # << >> /\ pc = "read"
        /\ ~at.resolving
    BY <1>t DEF MemoryType, Spill
  <1> DEFINE r == Head(at.queue)
             queue == Tail(at.queue)
  <1>2. at' = [at EXCEPT !.queue = queue] /\ bucket' = Append(bucket, r)
    BY DEF Spill
  <1>3. /\ ckpt' = ckpt /\ staging' = staging /\ pc' = pc
        /\ status' = status /\ merged' = merged
    BY DEF Spill
  <1>4. /\ at'.input = at.input /\ at'.queue = queue /\ at'.seen = at.seen
        /\ at'.committed = at.committed /\ at'.buffer = at.buffer
        /\ at'.streaming = at.streaming /\ at'.resolving = at.resolving
    <2> HIDE DEF queue
    <2> QED  BY <1>2, <1>t DEF MemoryType
  <1>5. /\ at.streaming /\ Covered /\ InOrder /\ at.committed <= Known
        /\ ckpt.records = at.committed \/ ckpt.records <= at.seen
    BY <1>1 DEF Resume, Attempt
  <1>6. r > Direct
    BY <1>5 DEF Spill, Spills
  <1>7. PICK p \in 0..N : OnTheWay(p, at.queue, at.input) /\ Sorted(p, at.seen, bucket)
    BY <1>1, <1>5 DEF InOrder
  <1>8. p \in Nat
    OBVIOUS
  <1>9. p + 1 \in Records /\ r = Lines[p + 1] /\ OnTheWay(p + 1, queue, at.input)
    BY <1>1, <1>7, <1>8, HeadHandled
  <1>10. Sorted(p + 1, at.seen, Append(bucket, Lines[p + 1]))
    BY <1>1, <1>t, <1>6, <1>7, <1>8, <1>9, OtherIsSpilled
  <1>11. r \in Records
    BY <1>1
  <1> HIDE DEF r, queue
  <1>12. InOrder'
    <2>1. OnTheWay(p + 1, at'.queue, at'.input) /\ Sorted(p + 1, at'.seen, bucket')
      BY <1>2, <1>4, <1>9, <1>10
    <2>2. p + 1 \in 0..N
      BY <1>8, <1>9 DEF Records
    <2> QED  BY <1>1, <1>4, <2>1, <2>2 DEF InOrder
  <1>13. /\ \A k \in 1..Known : HandedOn(k)' = HandedOn(k)
         /\ Known' = Known + 1
    BY <1>2, <1>11, SpillKeepsNumbers
  <1>14. Known \in Nat /\ at.seen <= Known
    BY <1>5, KnownTyped, SeenAreKnown
  <1>15. Covered'
    <2>1. /\ \A k \in 1..at.committed : HandedOn(k) \in Staged => HandedOn(k) \in staging
          /\ \A k \in 1..at.seen : HandedOn(k) \in Staged => HandedOn(k) \in staging \cup at.buffer
      BY <1>5 DEF Covered
    <2>2. 1..at.committed \subseteq 1..Known /\ 1..at.seen \subseteq 1..Known
      BY <1>1, <1>5, <1>14
    <2> QED  BY <1>3, <1>4, <1>13, <2>1, <2>2 DEF Covered
  <1>16. at'.committed <= Known'
    BY <1>1, <1>4, <1>5, <1>13, <1>14
  <1>17. Attempt'
    BY <1>1, <1>3, <1>4, <1>5, <1>12, <1>15, <1>16 DEF Attempt, Closing
  <1>18. CommittedAreStaged'
    <2>1. /\ ckpt.records <= Known /\ ckpt.records \in Nat
          /\ \A k \in 1..ckpt.records : HandedOn(k) \in Staged => HandedOn(k) \in staging
      BY DEF Resume, CommittedAreStaged, Known, TypeOK, CheckpointType
    <2>2. 1..ckpt.records \subseteq 1..Known /\ ckpt.records <= Known + 1
      BY <1>14, <2>1
    <2>3. ckpt'.records <= (Direct + Len(bucket))'
      BY <1>3, <1>13, <2>2 DEF Known
    <2> QED  BY <1>3, <1>13, <2>1, <2>2, <2>3 DEF CommittedAreStaged
  <1> QED  BY <1>3, <1>17, <1>18 DEF Marked, Resume

\* At the end of the result every direct record was handed on and every other one
\* is in the bucket file.
LEMMA ResolveResumes ==
  ASSUME TypeOK, Resume, Resumable, Resolve
  PROVE  Attempt' /\ Marked'
  <1>t. at \in MemoryType /\ bucket \in Seq(Records)
    BY DEF TypeOK
  <1>1. /\ at.input = << >> /\ at.queue = << >> /\ at.seen \in Nat /\ pc = "read"
        /\ ~at.resolving
    BY <1>t DEF MemoryType, Resolve
  <1>2. /\ ckpt' = ckpt /\ staging' = staging /\ pc' = pc /\ bucket' = bucket
        /\ status' = status /\ merged' = merged
    BY DEF Resolve
  <1>3. /\ at'.input = at.input /\ at'.queue = bucket /\ at'.seen = at.seen
        /\ at'.committed = at.committed /\ at'.buffer = at.buffer
        /\ at'.streaming = at.streaming /\ at'.resolving
    BY <1>t DEF Resolve, MemoryType
  <1>4. /\ at.streaming /\ Covered /\ InOrder /\ at.committed <= Known
        /\ ckpt.records = at.committed \/ ckpt.records <= at.seen
    BY <1>1 DEF Resume, Attempt
  <1>5. PICK p \in 0..N : OnTheWay(p, at.queue, at.input) /\ Sorted(p, at.seen, bucket)
    BY <1>1, <1>4 DEF InOrder
  <1>6. p = N
    BY <1>1, <1>5 DEF OnTheWay
  <1>7. /\ at.seen <= Direct
        /\ \A k \in Records : Lines[k] <= Direct => Lines[k] <= at.seen
        /\ \A k \in Records : Lines[k] > Direct => \E j \in 1..Len(bucket) : bucket[j] = Lines[k]
    BY <1>5, <1>6 DEF Sorted, Records
  <1>8. at.seen = Direct
    <2>1. CASE Direct = 0
      BY <1>1, <1>7, <2>1
    <2>2. CASE Direct \in Records
      <3>1. PICK i \in Records : Lines[i] = Direct
        BY <2>2
      <3>2. Direct <= at.seen
        BY <1>7, <3>1
      <3> QED  BY <1>1, <1>7, <3>2
    <2> QED  BY <2>1, <2>2 DEF Records
  <1>9. \A r \in Records : r > Direct => \E j \in 1..Len(bucket) : bucket[j] = r
    BY <1>7
  <1>10. Rest(at.seen, bucket, bucket)
    <2>1. Direct - Direct = 0 /\ \A k \in 1..Len(bucket) : 0 + k = k
      OBVIOUS
    <2>2. Direct >= Direct
      OBVIOUS
    <2> QED  BY <1>8, <1>9, <2>1, <2>2 DEF Rest
  <1>11. InOrder'
    BY <1>1, <1>2, <1>3, <1>10 DEF InOrder
  <1>12. Covered' /\ Known' = Known
    BY <1>2, <1>3, <1>4 DEF Covered, HandedOn, Known
  <1>13. Attempt'
    BY <1>1, <1>2, <1>3, <1>4, <1>11, <1>12 DEF Attempt, Closing
  <1> QED  BY <1>2, <1>13 DEF Marked, Resume

LEMMA CopyResumes ==
  ASSUME TypeOK, Resume, Resumable, Copy
  PROVE  Attempt' /\ Marked'
  <1>t. at \in MemoryType
    BY DEF TypeOK
  <1>1. PICK rows \in SUBSET at.buffer :
          /\ staging' = staging \cup rows
          /\ at' = [at EXCEPT !.buffer = at.buffer \ rows]
          /\ pc' = IF at.buffer # rows THEN pc ELSE IF pc = "flush" THEN "save" ELSE "lastsave"
    BY DEF Copy
  <1>2. /\ pc \in {"flush", "lastflush"} /\ ckpt' = ckpt /\ status' = status
        /\ merged' = merged /\ bucket' = bucket
    BY DEF Copy
  <1>3. /\ at'.input = at.input /\ at'.queue = at.queue /\ at'.seen = at.seen
        /\ at'.committed = at.committed /\ at'.buffer = at.buffer \ rows
        /\ at'.streaming = at.streaming /\ at'.resolving = at.resolving
    BY <1>1, <1>t DEF MemoryType
  <1>4. InOrder'
    BY <1>2, <1>3 DEF Resume, Attempt, InOrder
  <1>7. Covered'
    BY <1>1, <1>2, <1>3 DEF Resume, Attempt, Covered, HandedOn
  <1>5. Attempt'
    BY <1>1, <1>2, <1>3, <1>4, <1>7 DEF Resume, Attempt, Closing, Known
  <1>6. status = "open"
    BY <1>2 DEF Resume, Marked
  <1> QED  BY <1>1, <1>2, <1>5, <1>6 DEF Resume, Marked

\* When nothing is left, everything known was handed on, and that is everything.
LEMMA ClosedKnowsAll ==
  ASSUME TypeOK, InOrder, at.resolving, at.queue = << >>
  PROVE  /\ at.seen = Known
         /\ \A r \in Records : \E k \in 1..at.seen : HandedOn(k) = r
  <1>1. at.seen \in Nat /\ Len(bucket) \in Nat
    BY KnownTyped DEF TypeOK, MemoryType
  <1>2. Rest(at.seen, << >>, bucket)
    BY DEF InOrder
  <1>3. at.seen = Direct + Len(bucket)
    BY <1>1, <1>2 DEF Rest
  <1>4. ASSUME NEW r \in Records PROVE \E k \in 1..at.seen : HandedOn(k) = r
    <2>1. CASE r <= Direct
      <3>1. r \in 1..at.seen /\ HandedOn(r) = r
        BY <1>1, <1>3, <2>1 DEF Records, HandedOn
      <3> QED  BY <3>1
    <2>2. CASE r > Direct
      <3>1. PICK j \in 1..Len(bucket) : bucket[j] = r
        BY <1>2, <2>2 DEF Rest
      <3>2. Direct + j \in 1..at.seen /\ ~(Direct + j <= Direct) /\ (Direct + j) - Direct = j
        BY <1>1, <1>3
      <3>3. HandedOn(Direct + j) = r
        BY <3>1, <3>2 DEF HandedOn
      <3> QED  BY <3>2, <3>3
    <2> QED  BY <2>1, <2>2 DEF Records
  <1> QED  BY <1>3, <1>4 DEF Known

\* The checkpoint of a flushed writer counts staged records only, and more than
\* the one before.
LEMMA SaveResumes ==
  ASSUME TypeOK, Resume, Resumable, Save
  PROVE  /\ Attempt' /\ Marked' /\ CommittedAreStaged'
         /\ ckpt'.records >= ckpt.records
  <1>t. /\ at.seen \in Nat /\ at.committed \in Nat /\ ckpt.records \in Nat
        /\ at.queue \in Seq(Records) /\ at.input \in Seq(Records) /\ Known \in Nat
    BY KnownTyped DEF TypeOK, MemoryType, CheckpointType
  <1>1. /\ pc \in {"save", "lastsave"} /\ ckpt'.records = at.seen
        /\ at' = at /\ staging' = staging /\ status' = status /\ merged' = merged
        /\ pc' = (IF pc = "save" THEN "read" ELSE "mark") /\ bucket' = bucket
    BY DEF Save, Checkpoint
  <1>2. Attempt /\ Marked
    BY DEF Resume
  <1>3. /\ at.buffer = {} /\ Covered /\ InOrder /\ at.committed <= Known
        /\ ckpt.records = at.committed \/ ckpt.records <= at.seen
    BY <1>1, <1>2 DEF Attempt
  <1>4. pc = "lastsave" => at.seen = Known
    BY <1>1, <1>2, <1>3, ClosedKnowsAll DEF Attempt, Closing
  <1>5. at.seen >= at.committed
    BY <1>t, <1>1, <1>2, <1>3, <1>4 DEF Attempt
  <1>6. at.seen <= Known
    BY <1>3, SeenAreKnown
  <1>7. \A k \in 1..at.seen : HandedOn(k) \in Staged => HandedOn(k) \in staging
    BY <1>3 DEF Covered
  <1>8. CommittedAreStaged'
    BY <1>1, <1>6, <1>7 DEF CommittedAreStaged, HandedOn, Known
  <1>9. InOrder' /\ Covered' /\ Known' = Known
    BY <1>1, <1>3 DEF InOrder, Covered, HandedOn, Known
  <1>10. Attempt'
    <2>1. ckpt'.records <= at'.seen /\ at'.committed <= Known' /\ at'.buffer = {}
      BY <1>t, <1>1, <1>3, <1>9
    <2>2. pc' = "read" \/ (pc' = "mark" /\ at'.resolving /\ at'.queue = << >>)
      BY <1>1, <1>2 DEF Attempt, Closing
    <2>3. at'.streaming
      BY <1>1, <1>2 DEF Attempt
    <2> QED  BY <1>9, <2>1, <2>2, <2>3 DEF Attempt, Closing
  <1>11. Marked'
    BY <1>1, <1>2 DEF Marked
  <1> QED  BY <1>t, <1>1, <1>3, <1>5, <1>8, <1>10, <1>11

LEMMA MarkResumes ==
  ASSUME TypeOK, Resume, Resumable, MarkProcessing
  PROVE  Attempt' /\ Marked'
  <1>1. /\ pc = "mark" /\ pc' = "merge" /\ status' = "processing" /\ bucket' = bucket
        /\ at' = at /\ ckpt' = ckpt /\ staging' = staging /\ merged' = merged
    BY DEF MarkProcessing
  <1>2. Attempt /\ Marked
    BY DEF Resume
  <1>3. at.resolving /\ at.queue = << >> /\ at.buffer = {} /\ Covered /\ InOrder
    BY <1>1, <1>2 DEF Attempt, Closing
  <1>4. Staged \subseteq staging
    <2> SUFFICES ASSUME NEW r \in Staged PROVE r \in staging
      OBVIOUS
    <2>1. PICK k \in 1..at.seen : HandedOn(k) = r
      BY <1>3, ClosedKnowsAll DEF Staged
    <2> QED  BY <1>3, <2>1 DEF Covered
  <1>5. InOrder' /\ Covered' /\ Known' = Known
    BY <1>1, <1>3 DEF InOrder, Covered, HandedOn, Known
  <1>6. Attempt'
    BY <1>1, <1>2, <1>5 DEF Attempt, Closing
  <1> QED  BY <1>1, <1>2, <1>4, <1>6 DEF Marked

LEMMA ResumeStep == TypeOK /\ TypeOK' /\ CleanIsFresh /\ Resume /\ [Next]_vars => Resume'
  <1> SUFFICES ASSUME TypeOK, TypeOK', CleanIsFresh, Resume, [Next]_vars, Resumable'
               PROVE  Attempt' /\ Marked' /\ CommittedAreStaged'
    BY DEF Resume
  <1>r. Resumable
    BY StillResumable
  <1>i. Attempt /\ Marked /\ CommittedAreStaged
    BY <1>r DEF Resume
  <1>s. bucket' = bucket => /\ Known' = Known
                            /\ \A k : HandedOn(k)' = HandedOn(k)
    BY DEF Known, HandedOn
  <1>c. UNCHANGED <<bucket, ckpt, staging>> => CommittedAreStaged'
    BY <1>i, <1>r, <1>s DEF CommittedAreStaged
  <1>o. UNCHANGED <<bucket, at>> => (InOrder' <=> InOrder)
    BY DEF InOrder
  <1>v. UNCHANGED <<bucket, at, staging>> => (Covered' <=> Covered)
    BY <1>s DEF Covered
  <1>1. CASE BeginRefused
    BY <1>1, <1>i, <1>s, <1>c, <1>o, <1>v DEF BeginRefused, Attempt, Marked, Closing
  <1>15. CASE Move
    BY <1>15 DEF Move, Happens, Resumable
  <1>2. CASE Begin
    BY <1>2, <1>c, <1>r, BeginResumes DEF Begin
  <1>3. CASE Clean
    <2>1. /\ pc = "clean" /\ pc' = "read" /\ staging' = {} /\ at' = at /\ ckpt' = ckpt
          /\ status' = status /\ merged' = merged /\ bucket' = bucket
      BY <1>3 DEF Clean
    <2>2. ckpt.records = 0 /\ at.committed = 0 /\ at.seen = 0 /\ at.buffer = {}
      BY <2>1, <1>i DEF CleanIsFresh, Attempt
    <2>3. CommittedAreStaged' /\ Covered'
      BY <1>i, <1>r, <2>1, <2>2 DEF CommittedAreStaged, Covered
    <2>4. Attempt'
      BY <1>i, <1>o, <1>s, <2>1, <2>2, <2>3 DEF Attempt, Closing
    <2> QED  BY <1>i, <2>1, <2>3, <2>4 DEF Marked
  <1>4. CASE Arrive
    BY <1>4, <1>c, <1>r, ArriveResumes DEF Arrive
  <1>16. CASE Spill
    BY <1>16, <1>r, SpillResumes
  <1>17. CASE Resolve
    BY <1>17, <1>c, <1>r, ResolveResumes DEF Resolve
  <1>5. CASE Handle
    BY <1>5, <1>c, <1>r, HandleResumes DEF Handle
  <1>6. CASE Copy
    <2>1. bucket' = bucket /\ ckpt' = ckpt /\ staging \subseteq staging'
      BY <1>6 DEF Copy
    <2>2. CommittedAreStaged'
      BY <1>i, <1>r, <1>s, <2>1 DEF CommittedAreStaged
    <2> QED  BY <1>6, <1>r, <2>2, CopyResumes
  <1>7. CASE Save
    BY <1>7, <1>r, SaveResumes
  <1>8. CASE EndOfInput
    <2>1. /\ pc = "read" /\ pc' = "lastflush" /\ at.resolving /\ at.queue = << >>
          /\ UNCHANGED <<at, ckpt, staging, status, merged, bucket>>
      BY <1>8 DEF EndOfInput
    <2>2. Attempt'
      BY <1>i, <1>s, <1>o, <1>v, <2>1 DEF Attempt, Closing
    <2>3. status = "open" /\ merged = {}
      BY <1>i, <2>1 DEF Marked
    <2>4. Marked'
      BY <2>1, <2>3 DEF Marked
    <2> QED  BY <1>c, <2>1, <2>2, <2>4
  <1>9. CASE MarkProcessing
    BY <1>9, <1>c, <1>r, MarkResumes DEF MarkProcessing
  <1>10. CASE MergeStaging
    <2>1. /\ pc = "merge" /\ pc' = "complete" /\ merged' = merged \cup staging
          /\ UNCHANGED <<at, ckpt, staging, status, bucket>>
      BY <1>10 DEF MergeStaging
    <2>2. merged' = Staged
      BY <1>i, <2>1 DEF Marked, TypeOK
    <2>3. Attempt'
      BY <1>i, <1>s, <1>o, <1>v, <2>1 DEF Attempt, Closing
    <2> QED  BY <1>i, <1>c, <2>1, <2>2, <2>3 DEF Marked
  <1>11. CASE MergeFails \/ Crash
    <2>1. pc' = "idle" /\ UNCHANGED <<ckpt, staging, merged, status, bucket>>
      BY <1>11 DEF MergeFails, Crash
    <2> QED  BY <1>i, <1>c, <2>1 DEF Attempt, Marked, Closing
  <1>14. CASE MarkCompleted
    <2>1. /\ pc = "complete" /\ pc' = "idle" /\ status' = "completed"
          /\ UNCHANGED <<ckpt, staging, merged, bucket>>
      BY <1>14 DEF MarkCompleted
    <2>2. status # "open"
      BY <1>i, <2>1 DEF Marked
    <2> QED  BY <1>i, <1>c, <2>1, <2>2 DEF Attempt, Marked, Closing
  <1>12. CASE Cut \/ CopyFails \/ SaveFails
    BY <1>12 DEF Cut, CopyFails, SaveFails, Happens, Resumable
  <1>13. CASE UNCHANGED vars
    BY <1>13, <1>i, <1>c, <1>s, <1>o, <1>v DEF vars, Attempt, Marked, Closing
  <1> QED
    BY <1>1, <1>2, <1>3, <1>4, <1>5, <1>6, <1>7, <1>8, <1>9, <1>10, <1>11, <1>12, <1>13,
       <1>14, <1>15, <1>16, <1>17
    DEF Next

LEMMA ResumeInvariant == Spec => []Resume
  BY ResumeInit, ResumeStep, TypeCorrect, CleanFirst, PTL DEF Spec

\* If all that happened is that workers died and the merge threw, then every record
\* that a resumed attempt skips is staged, however long the bucket file is, ...
THEOREM Committed == Spec => []CommittedAreStaged
  <1>1. Resume => CommittedAreStaged
    BY DEF Resume, CommittedAreStaged
  <1> QED  BY <1>1, ResumeInvariant, PTL

\* ... what is merged is the whole result, ...
THEOREM Whole == Spec => []MergedIsWhole
  <1>1. Resume => MergedIsWhole
    BY DEF Resume, MergedIsWhole, Marked
  <1> QED  BY <1>1, ResumeInvariant, PTL

\* ... and the checkpoint never counts fewer records than it did.
THEOREM Grows == Spec => CheckpointGrows
  <1>1. /\ TypeOK /\ Resume /\ [Next]_vars
        => [Resumable' => ckpt'.records >= ckpt.records]_vars
    <2> SUFFICES ASSUME TypeOK, Resume, [Next]_vars, Resumable'
                 PROVE  ckpt'.records >= ckpt.records
      OBVIOUS
    <2>1. Resumable
      BY StillResumable
    <2>2. ckpt.records \in Nat
      BY DEF TypeOK, CheckpointType
    <2>3. CASE Save
      BY <2>1, <2>3, SaveResumes
    <2>4. CASE UNCHANGED ckpt
      BY <2>2, <2>4
    <2> QED
      BY <2>3, <2>4
      DEF Next, vars, BeginRefused, Begin, Clean, Move, Arrive, Spill, Resolve, Handle, Copy, EndOfInput,
          MarkProcessing, MergeStaging, MarkCompleted, Cut, CopyFails, SaveFails,
          MergeFails, Crash
  <1> QED  BY <1>1, ResumeInvariant, TypeCorrect, PTL DEF Spec, CheckpointGrows
=============================================================================
