-------------------------- MODULE IngestCheckpoint ---------------------------
(* The ingest of one bulk run: the records of its JSONL result are staged in  *)
(* batches, a checkpoint in the cursor of the run is saved after every batch, *)
(* an attempt that finds one resumes from it, and the staging tables are      *)
(* merged at the end.                                                         *)
(*                                                                            *)
(* The result is N lines, a record each; bytes are counted in lines.  Records *)
(* are numbered as a first attempt hands them on: 1..Direct while it reads,   *)
(* the others, whose parent is not in memory, are appended to a bucket file   *)
(* and handed on at the end.  The bucket file outlives the attempt, so that   *)
(* the next one on the same host hands on more records, some of them twice.   *)
(* A step is one COPY, one database transaction, one line that arrives, one   *)
(* that is appended or one record that is handled.  Attempts follow one       *)
(* another: an attempt that goes on after its time-out is not modelled here.  *)
(* Stitching has the 256 buckets and what decides that a line is appended.    *)
EXTENDS Integers, Sequences, FiniteSets

CONSTANTS
    N,              \* records in the result
    Direct,         \* those that are handed on while the result is read
    Lines,          \* the result: its records in the order of its lines
    Skipped,        \* those that are not staged (inventory, metafields, quarantine)
    Sources,        \* where the result may be: "remote" (a URL), "local" (an upload)
    Batch,          \* batchMaxRows
    Ahead,          \* lines the parser may be ahead of the stitched records
    MaxAttempts,    \* attempts of the ingest job
    Trouble,        \* what goes wrong
    Rare            \* of these kinds one happens, and once: a bound for TLC

Records == 1..N
Staged == Records \ Skipped

ASSUME SizesAssumption ==
    N \in Nat /\ Direct \in 0..N /\ Batch \in Nat \ {0} /\ Ahead \in Nat \ {0}
ASSUME LinesAssumption ==
    /\ Lines \in Seq(Records) /\ Len(Lines) = N
    /\ \A r \in Records : \E i \in Records : Lines[i] = r
    /\ \A i, j \in Records :
         i < j /\ (Lines[i] <= Direct <=> Lines[j] <= Direct) => Lines[i] < Lines[j]
ASSUME SkippedAssumption == Skipped \subseteq Records
ASSUME SourcesAssumption == Sources \subseteq {"remote", "local"}
ASSUME AttemptsAssumption == MaxAttempts \in Nat
ASSUME TroubleAssumption ==
    Trouble \subseteq {"crash", "moved", "cut", "copyfail", "savefail", "mergefail"}
ASSUME RareAssumption == Rare \subseteq Trouble

VARIABLES
    source,     \* where the result of this run is
    status,     \* "open" up to downloading, then "processing", "completed"
    ckpt,       \* cursor_state.ingest.checkpoint
    counted,    \* upper bound of bulk_runs.bytes_processed
    staging,    \* records in the staging tables of the run
    merged,     \* records merged into the catalogue
    file,       \* the local copy of the result, as record numbers
    bucket,     \* the bucket file of spilled lines, as record numbers
    pc,         \* where the attempt is; "idle" when none runs
    at,         \* the memory of the attempt
    attempts,   \* attempts begun
    happened    \* the kinds of trouble so far

vars == <<source, status, ckpt, counted, staging, merged, file, bucket, pc, at, attempts,
          happened>>

NoCheckpoint == [saved |-> FALSE, records |-> 0, bytes |-> 0]

\* committed, from: what the checkpoint said; seen: stitched records; got: bytes
\* parsed; input: lines to come; queue: lines parsed and not handled; buffer:
\* records in the copy writer; persist: lines are copied to the file; streaming:
\* from the URL; resolving: the spilled lines are being handed on.
NoMemory == [committed |-> 0, from |-> 0, seen |-> 0, got |-> 0, input |-> <<>>,
             queue |-> <<>>, buffer |-> {}, persist |-> FALSE, streaming |-> FALSE,
             resolving |-> FALSE]

Init ==
    /\ source \in Sources
    /\ status = "open"
    /\ ckpt = NoCheckpoint
    /\ counted = 0
    /\ staging = {} /\ merged = {}
    /\ file = <<>> /\ bucket = <<>>
    /\ pc = "idle" /\ at = NoMemory
    /\ attempts = 0
    /\ happened = {}

Happens(kind) ==
    /\ kind \in Trouble /\ (kind \in Rare => happened \cap Rare = {})
    /\ happened' = happened \cup {kind}

-----------------------------------------------------------------------------
(* An attempt starts.                                                         *)

\* preparePersistedJsonl: a fresh copy, the copy cut at the offset, or none.
Prepared(b) == IF b = 0 THEN <<>> ELSE IF Len(file) >= b THEN SubSeq(file, 1, b) ELSE file
Persists(b) == source = "remote" /\ Len(file) >= b

\* The offset of an attempt: the checkpoint's, or, without one, the bytes of
\* the run, whose updates nobody waits for.
Offsets == IF ckpt.saved THEN {ckpt.bytes} ELSE 0..counted

\* (Faulty variant, for mutation: the offset is passed to the download.)
InputAtOffset(b) == SubSeq(Lines, b + 1, N)

\* A local file is read from the offset, a URL always from its beginning.
Input(b) == IF source = "remote" THEN Lines ELSE SubSeq(Lines, b + 1, N)

\* (Faulty variant, for mutation: staging is cleaned on a resume too.)
FirstPhaseClean == "clean"

\* Staging is cleaned unless the checkpoint counts records.
FirstPhase == IF ckpt.records = 0 THEN "clean" ELSE "read"

\* A run that is processing or completed cannot be marked downloading: it throws.
BeginRefused ==
    /\ pc = "idle" /\ attempts < MaxAttempts
    /\ status # "open"
    /\ attempts' = attempts + 1
    /\ UNCHANGED <<source, status, ckpt, counted, staging, merged, file, bucket,
                   pc, at, happened>>

\* The worker loads the cursor, marks the run downloading and opens its source.
Begin ==
    /\ pc = "idle" /\ attempts < MaxAttempts
    /\ status = "open"
    /\ attempts' = attempts + 1
    /\ \E b \in Offsets :
        /\ at' = [NoMemory EXCEPT
                    !.committed = ckpt.records, !.from = b,
                    !.input = Input(b),
                    !.persist = Persists(b),
                    !.streaming = source = "remote"]
        /\ file' = IF source = "remote" THEN Prepared(b) ELSE file
    /\ pc' = FirstPhase
    /\ UNCHANGED <<source, status, ckpt, counted, staging, merged, bucket, happened>>

\* The staging rows of the run are deleted for a fresh ingest.
Clean ==
    /\ pc = "clean"
    /\ staging' = {}
    /\ pc' = "read"
    /\ UNCHANGED <<source, status, ckpt, counted, merged, file, bucket, at, attempts, happened>>

\* The job's next attempt is taken by a worker on a host without the local files.
Move ==
    /\ pc = "idle"
    /\ file # <<>> \/ bucket # <<>>
    /\ Happens("moved")
    /\ file' = <<>> /\ bucket' = <<>>
    /\ UNCHANGED <<source, status, ckpt, counted, staging, merged, pc, at, attempts>>

-----------------------------------------------------------------------------
(* Reading and staging.                                                       *)

\* A line arrives: it is copied to the file and parsed.
Arrive ==
    /\ pc = "read"
    /\ at.input # <<>> /\ Len(at.queue) < Ahead
    /\ at' = [at EXCEPT !.input = Tail(@), !.queue = Append(@, Head(at.input)),
                        !.got = @ + 1]
    /\ file' = IF at.persist THEN Append(file, Head(at.input)) ELSE file
    /\ counted' = IF at.streaming /\ at.from + at.got + 1 > counted
                  THEN at.from + at.got + 1 ELSE counted
    /\ UNCHANGED <<source, status, ckpt, staging, merged, bucket, pc, attempts, happened>>

\* The parent of a line is in memory, unless it is one of the first read from the
\* middle of a file.
Spills(r) == r > Direct \/ (at.from > 0 /\ ~at.streaming)

\* A line whose parent is not in memory is appended to its bucket file.
Spill ==
    /\ pc = "read" /\ ~at.resolving /\ at.queue # <<>>
    /\ Spills(Head(at.queue))
    /\ bucket' = Append(bucket, Head(at.queue))
    /\ at' = [at EXCEPT !.queue = Tail(@)]
    /\ UNCHANGED <<source, status, ckpt, counted, staging, merged, file, pc,
                   attempts, happened>>

\* finalize: what was spilled is handed on, by dead attempts too.
Resolve ==
    /\ pc = "read" /\ ~at.resolving
    /\ at.input = <<>> /\ at.queue = <<>>
    /\ at' = [at EXCEPT !.queue = bucket, !.resolving = TRUE]
    /\ UNCHANGED <<source, status, ckpt, counted, staging, merged, file, bucket, pc, attempts,
                   happened>>

\* (Faulty variant, for mutation: nothing is skipped because it is committed.)
WantedAgain(r) == r \notin Skipped

\* The next record is to be staged: the checkpoint does not have it and
\* handleRecord knows its kind.
Wanted(r) == at.seen + 1 > at.committed /\ r \notin Skipped

\* A stitched record is skipped or buffered.  The buffer is flushed at Batch rows
\* or, by its size, before.
Handle ==
    /\ pc = "read" /\ at.queue # <<>>
    /\ at.resolving \/ Head(at.queue) <= Direct
    /\ LET r == Head(at.queue)
           full == Cardinality(at.buffer \cup {r}) >= Batch
       IN  /\ at' = [at EXCEPT !.queue = Tail(@), !.seen = @ + 1,
                               !.buffer = IF Wanted(r) THEN @ \cup {r} ELSE @]
           /\ \/ pc' = "flush" /\ Wanted(r)
              \/ pc' = "read" /\ ~(Wanted(r) /\ full)
    /\ UNCHANGED <<source, status, ckpt, counted, staging, merged, file, bucket,
                   attempts, happened>>

\* StagingCopyWriter.flush: a COPY per table, each a transaction.
Copy ==
    /\ pc \in {"flush", "lastflush"}
    /\ \E rows \in SUBSET at.buffer :
        /\ at.buffer # {} => rows # {}
        /\ staging' = staging \cup rows
        /\ at' = [at EXCEPT !.buffer = @ \ rows]
        /\ pc' = IF at.buffer # rows THEN pc ELSE IF pc = "flush" THEN "save" ELSE "lastsave"
    /\ UNCHANGED <<source, status, ckpt, counted, merged, file, bucket, attempts, happened>>

\* (Faulty variant, for mutation: the record after the flush is counted.)
CheckpointNext == [saved |-> TRUE, records |-> at.seen + 1, bytes |-> at.got]

Checkpoint == [saved |-> TRUE, records |-> at.seen, bytes |-> at.got]

\* persistIngestCheckpoint.
Save ==
    /\ pc \in {"save", "lastsave"}
    /\ ckpt' = Checkpoint
    /\ pc' = IF pc = "save" THEN "read" ELSE "mark"
    /\ UNCHANGED <<source, status, counted, staging, merged, file, bucket, at,
                   attempts, happened>>

\* The source is at its end: the last flush and the last checkpoint.
EndOfInput ==
    /\ pc = "read" /\ at.resolving /\ at.queue = <<>>
    /\ pc' = "lastflush"
    /\ UNCHANGED <<source, status, ckpt, counted, staging, merged, file, bucket,
                   at, attempts, happened>>

-----------------------------------------------------------------------------
(* Merging.                                                                   *)

MarkProcessing ==
    /\ pc = "mark"
    /\ status' = "processing" /\ pc' = "merge"
    /\ UNCHANGED <<source, ckpt, counted, staging, merged, file, bucket, at,
                   attempts, happened>>

\* runMergeFromStaging: one transaction.
MergeStaging ==
    /\ pc = "merge"
    /\ merged' = merged \cup staging /\ pc' = "complete"
    /\ UNCHANGED <<source, status, ckpt, counted, staging, file, bucket, at,
                   attempts, happened>>

\* After the PIM synchronisation.
MarkCompleted ==
    /\ pc = "complete"
    /\ status' = "completed" /\ pc' = "idle" /\ at' = NoMemory
    /\ UNCHANGED <<source, ckpt, counted, staging, merged, file, bucket, attempts, happened>>

-----------------------------------------------------------------------------
(* Trouble.                                                                   *)

\* The pipeline over the URL fails: what was parsed and not handled is gone.
\* With a local copy the attempt goes on from it, with the counters and the copy
\* writer it has; without one, or when it was reading a file, it fails.
Interrupted(buffer) ==
    IF at.streaming /\ at.persist /\ file # <<>>
    THEN /\ at' = [at EXCEPT !.input = SubSeq(file, at.from + 1, Len(file)),
                             !.queue = <<>>, !.buffer = buffer,
                             !.persist = FALSE, !.streaming = FALSE, !.resolving = FALSE]
         /\ pc' = "read"
    ELSE at' = NoMemory /\ pc' = "idle"

\* The download breaks, all its retries included.
Cut ==
    /\ pc = "read" /\ at.streaming /\ ~at.resolving
    /\ Happens("cut")
    /\ Interrupted(at.buffer)
    /\ UNCHANGED <<source, status, ckpt, counted, staging, merged, file, bucket, attempts>>

\* A COPY fails: the writer has already dropped its rows.
CopyFails ==
    /\ pc \in {"flush", "lastflush"}
    /\ Happens("copyfail")
    /\ \E rows \in SUBSET at.buffer \ {{}} :
        IF pc = "flush" THEN Interrupted(at.buffer \ rows)
                        ELSE at' = NoMemory /\ pc' = "idle"
    /\ UNCHANGED <<source, status, ckpt, counted, staging, merged, file, bucket, attempts>>

SaveFails ==
    /\ pc \in {"save", "lastsave"}
    /\ Happens("savefail")
    /\ IF pc = "save" THEN Interrupted(at.buffer) ELSE at' = NoMemory /\ pc' = "idle"
    /\ UNCHANGED <<source, status, ckpt, counted, staging, merged, file, bucket, attempts>>

\* Marking, merge or PIM synchronisation fail: the attempt throws.
MergeFails ==
    /\ pc \in {"mark", "merge", "complete"}
    /\ Happens("mergefail")
    /\ at' = NoMemory /\ pc' = "idle"
    /\ UNCHANGED <<source, status, ckpt, counted, staging, merged, file, bucket, attempts>>

\* The worker dies; the job is stalled and another attempt is made.
Crash ==
    /\ pc # "idle"
    /\ Happens("crash")
    /\ at' = NoMemory /\ pc' = "idle"
    /\ UNCHANGED <<source, status, ckpt, counted, staging, merged, file, bucket, attempts>>

Next ==
    \/ BeginRefused \/ Begin \/ Clean \/ Move
    \/ Arrive \/ Spill \/ Resolve \/ Handle \/ Copy \/ Save \/ EndOfInput
    \/ MarkProcessing \/ MergeStaging \/ MarkCompleted
    \/ Cut \/ CopyFails \/ SaveFails \/ MergeFails \/ Crash

Spec == Init /\ [][Next]_vars

-----------------------------------------------------------------------------
(* Properties.                                                                *)

Phases == {"idle", "clean", "read", "flush", "save", "lastflush", "lastsave",
           "mark", "merge", "complete"}
CheckpointType == [saved : BOOLEAN, records : Nat, bytes : Nat]
MemoryType == [committed : Nat, from : Nat, seen : Nat, got : Nat,
               input : Seq(Records), queue : Seq(Records), buffer : SUBSET Records,
               persist : BOOLEAN, streaming : BOOLEAN, resolving : BOOLEAN]

\* Types; nothing runs without memory of an attempt, and only rows that are to
\* be staged are.
TypeOK ==
    /\ source \in Sources
    /\ status \in {"open", "processing", "completed"}
    /\ ckpt \in CheckpointType
    /\ counted \in Nat
    /\ staging \subseteq Staged /\ merged \subseteq Staged
    /\ file \in Seq(Records) /\ bucket \in Seq(Records)
    /\ pc \in Phases
    /\ at \in MemoryType
    /\ attempts \in 0..MaxAttempts
    /\ happened \subseteq Trouble

\* What resuming by number is good for: the result is behind a URL, and all that
\* happened is that workers died or the merge threw.  On another host, without the
\* bucket file, the same numbers are other records.
Resumable == source = "remote" /\ happened \subseteq {"crash", "mergefail"}

\* The k-th record the next attempt hands on.
HandedOn(k) == IF k <= Direct THEN k ELSE bucket[k - Direct]

\* "Resume: skip already committed stitched records": every record that the next
\* attempt skips by its number is in the staging tables, although the attempts
\* hand on different numbers of records, some of them again.
CommittedAreStaged ==
    Resumable =>
        /\ ckpt.records <= Direct + Len(bucket)
        /\ \A k \in 1..ckpt.records : HandedOn(k) \in Staged => HandedOn(k) \in staging

\* Whatever the points where attempts died, what is merged into the catalogue is
\* the whole result: no record falls between a flush and a checkpoint, and none
\* is skipped in the place of one that was handed on twice.
MergedIsWhole == Resumable /\ merged # {} => merged = Staged

\* Once a checkpoint counts records, no later attempt deletes staged rows,
\* whatever goes wrong: a resume that cleaned first would lose what it skips.
CommittedKept == [][ckpt.records > 0 => staging \subseteq staging']_vars

\* The checkpoint, which overwrites the one before, never counts fewer records
\* than it did, although an attempt hands on as many as the bucket file holds.
CheckpointGrows == [][Resumable' => ckpt'.records >= ckpt.records]_vars
=============================================================================
