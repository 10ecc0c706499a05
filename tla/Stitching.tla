------------------------------- MODULE Stitching -------------------------------
(* The stitching of a bulk result: products and inventory items are parents,  *)
(* variants, metafields and inventory levels are passed on when their parent  *)
(* is known.  The memory holds the last MaxParents parents and MaxOrphans     *)
(* variants; what does not fit goes to bucket files, resolved at the end.     *)
(*                                                                            *)
(* One process, whose steps are the records it hands on and the lines it      *)
(* appends.  A worker may die at each; the next attempt of the job reads the  *)
(* result from its beginning, skips as many records as the checkpoint of the  *)
(* ingest counts, and appends to the bucket files that it finds.              *)
EXTENDS Integers, Sequences, FiniteSets

CONSTANTS
    Lines,          \* lines of a result: [kind, id, parent]
    Files,          \* results: sequences of them
    Ids,            \* identifiers of parents
    Buckets,        \* bucket files of a kind
    Bucket,         \* hashToBucket: Ids -> 0..Buckets-1
    MaxParents,     \* maxInMemoryParents
    MaxOrphans,     \* maxInMemoryOrphans
    MaxAttempts     \* attempts of the ingest job

ParentKinds == {"product", "item"}
ChildKinds == {"variant", "metafield", "level"}
Kinds == ParentKinds \cup ChildKinds \cup {"invalid"}

ASSUME StitchLines == Lines \subseteq [kind : Kinds, id : Ids, parent : Ids]
ASSUME StitchFiles == Files \subseteq Seq(Lines)
ASSUME StitchBuckets == Buckets \in Nat \ {0} /\ Bucket \in [Ids -> 0..(Buckets - 1)]
ASSUME StitchBounds ==
    MaxParents \in Nat \ {0} /\ MaxOrphans \in Nat \ {0} /\ MaxAttempts \in Nat

VARIABLES
    file,       \* the result
    pc,         \* "read", "drain", "spill", "resolve", "done"
    pos,        \* lines read by this attempt
    recent,     \* recentParents
    order,      \* recentParentsOrder
    buffer,     \* inMemoryOrphansByParentId: lines, those of a parent together
    parents,    \* parents[b]: ids in a parent bucket file
    orphans,    \* orphans[<<k, b>>]: lines in a bucket file of kind k
    slot,       \* bucket files opened by finalize
    todo,       \* lines of the open one that are left
    out,        \* records handed to onRecord by this attempt
    committed,  \* committedRecords of the checkpoint
    from,       \* records this attempt skips
    staged,     \* lines whose record is in staging
    attempts,
    moved       \* an attempt was made without the files of the one before

memory == <<pc, pos, recent, order, buffer, slot, todo, out, from>>
disk == <<parents, orphans>>
saved == <<committed, staged, attempts, moved>>
vars == <<file, memory, disk, saved>>

Slots == 3 * Buckets
KindOf(n) == IF n % 3 = 0 THEN "variant" ELSE IF n % 3 = 1 THEN "metafield" ELSE "level"
BucketOf(n) == n \div 3

NoOrphans == [kb \in ChildKinds \X (0..(Buckets - 1)) |-> <<>>]

Init ==
    /\ file \in Files
    /\ pc = "read" /\ pos = 0
    /\ recent = {} /\ order = <<>> /\ buffer = <<>>
    /\ parents = [b \in 0..(Buckets - 1) |-> {}]
    /\ orphans = NoOrphans
    /\ slot = 0 /\ todo = <<>> /\ out = <<>>
    /\ committed = 0 /\ from = 0 /\ staged = {}
    /\ attempts = 1 /\ moved = FALSE

Line == file[pos + 1]
Reading(kinds) == pc = "read" /\ pos < Len(file) /\ Line.kind \in kinds
Handed(i, verdict) == out' = Append(out, [line |-> i, verdict |-> verdict])

-----------------------------------------------------------------------------
(* processLine.                                                               *)

\* (Faulty variant, for mutation: one parent too many stays in memory.)
KeptMore(ids) == IF Len(ids) > MaxParents + 1 THEN Tail(ids) ELSE ids

Kept(ids) == IF Len(ids) > MaxParents THEN Tail(ids) ELSE ids

\* (Faulty variant, for mutation: a parent goes to disk when it leaves memory.)
RecordEvicted(id) ==
    LET ids == Append(order, id)
        gone == IF Len(ids) > MaxParents THEN {Head(ids)} ELSE {}
    IN  /\ order' = Kept(ids)
        /\ recent' = (recent \cup {id}) \ gone
        /\ parents' = [b \in DOMAIN parents |-> parents[b] \cup {i \in gone : Bucket[i] = b}]

\* recordParentId: an id that comes again is queued again, and its first place
\* in the queue evicts it.
RecordParent(id) ==
    LET ids == Append(order, id)
    IN  /\ order' = Kept(ids)
        /\ recent' = IF Len(ids) > MaxParents THEN (recent \cup {id}) \ {Head(ids)}
                                              ELSE recent \cup {id}
        /\ parents' = [parents EXCEPT ![Bucket[id]] = @ \cup {id}]

\* A product, before its buffered variants, or an inventory item.
ReadParent ==
    /\ Reading(ParentKinds)
    /\ RecordParent(Line.id)
    /\ Handed(pos + 1, "parent")
    /\ pos' = pos + 1
    /\ pc' = IF Line.kind = "product" THEN "drain" ELSE "read"
    /\ UNCHANGED <<file, buffer, orphans, slot, todo, from, saved>>

Waiting(id) == {n \in DOMAIN buffer : file[buffer[n]].parent = id}

\* (Faulty variant, for mutation: what was emitted stays in the buffer.)
DrainKeeps ==
    /\ pc = "drain"
    /\ IF Waiting(file[pos].id) = {} THEN out' = out
       ELSE Handed(buffer[CHOOSE n \in Waiting(file[pos].id) : TRUE], "emit")
    /\ pc' = "read"
    /\ UNCHANGED <<file, pos, recent, order, buffer, disk, slot, todo, from, saved>>

\* The buffered variants of the product just read are emitted, in their order.
Drain ==
    /\ pc = "drain"
    /\ LET here == Waiting(file[pos].id)
       IN  \/ here = {} /\ pc' = "read" /\ UNCHANGED <<buffer, out>>
           \/ \E n \in here :
                /\ \A k \in here : n <= k
                /\ Handed(buffer[n], "emit")
                /\ buffer' = SubSeq(buffer, 1, n - 1) \o SubSeq(buffer, n + 1, Len(buffer))
                /\ pc' = pc
    /\ UNCHANGED <<file, pos, recent, order, disk, slot, todo, from, saved>>

\* A line that lacks what its kind needs is quarantined at once.
ReadInvalid ==
    /\ Reading({"invalid"})
    /\ Handed(pos + 1, "invalid")
    /\ pos' = pos + 1
    /\ UNCHANGED <<file, pc, recent, order, buffer, disk, slot, todo, from, saved>>

\* The parent was seen recently: a child is emitted.
ReadChild ==
    /\ Reading(ChildKinds)
    /\ Line.parent \in recent
    /\ Handed(pos + 1, "emit")
    /\ pos' = pos + 1
    /\ UNCHANGED <<file, pc, recent, order, buffer, disk, slot, todo, from, saved>>

Room == Len(buffer) < MaxOrphans

\* spillOrphanVariant, spillMetafield, spillInventoryLevel.
Spilled(i) == [orphans EXCEPT ![<<file[i].kind, Bucket[file[i].parent]>>] = Append(@, i)]

\* A line is put behind the last one of its parent, or of all.
Place(id, n) ==
    LET same == Waiting(id)
    IN  IF same = {} THEN n = Len(buffer) ELSE n \in same /\ \A k \in same : k <= n

\* It was not: a variant is buffered while there is room.
BufferVariant ==
    /\ Reading({"variant"})
    /\ Line.parent \notin recent /\ Room
    /\ \E n \in 0..Len(buffer) :
        /\ Place(Line.parent, n)
        /\ buffer' = SubSeq(buffer, 1, n) \o <<pos + 1>> \o SubSeq(buffer, n + 1, Len(buffer))
    /\ pos' = pos + 1
    /\ UNCHANGED <<file, pc, recent, order, disk, slot, todo, out, from, saved>>

\* Other children, and variants there is no room for, go to a bucket file.
SpillChild ==
    /\ Reading(ChildKinds)
    /\ Line.parent \notin recent
    /\ Line.kind = "variant" => ~Room
    /\ orphans' = Spilled(pos + 1)
    /\ pos' = pos + 1
    /\ UNCHANGED <<file, pc, recent, order, buffer, parents, slot, todo, out, from, saved>>

-----------------------------------------------------------------------------
(* finalize.                                                                  *)

EndOfLines ==
    /\ pc = "read" /\ pos = Len(file)
    /\ pc' = "spill"
    /\ UNCHANGED <<file, pos, recent, order, buffer, disk, slot, todo, out, from, saved>>

\* What is still buffered joins the bucket files.
SpillBuffered ==
    /\ pc = "spill"
    /\ IF buffer = <<>> THEN pc' = "resolve" /\ UNCHANGED <<buffer, orphans>>
       ELSE /\ orphans' = Spilled(Head(buffer))
            /\ buffer' = Tail(buffer)
            /\ pc' = pc
    /\ UNCHANGED <<file, pos, recent, order, parents, slot, todo, out, from, saved>>

\* Bucket by bucket: the variants, the metafields, the inventory levels.
OpenBucket ==
    /\ pc = "resolve" /\ todo = <<>> /\ slot < Slots
    /\ todo' = orphans[<<KindOf(slot), BucketOf(slot)>>]
    /\ slot' = slot + 1
    /\ UNCHANGED <<file, pc, pos, recent, order, buffer, disk, out, from, saved>>

Verdict(i) == IF file[i].parent \in parents[BucketOf(slot - 1)] THEN "emit" ELSE "orphan"

\* A spilled child is emitted or quarantined by the parents of its bucket.
Resolve ==
    /\ pc = "resolve" /\ todo # <<>>
    /\ Handed(Head(todo), Verdict(Head(todo)))
    /\ todo' = Tail(todo)
    /\ UNCHANGED <<file, pc, pos, recent, order, buffer, disk, slot, from, saved>>

-----------------------------------------------------------------------------
(* The ingest around it.                                                      *)

\* (Faulty variant, for mutation: the record after the flush is counted.)
CountedNext == Len(out) + 1

Counted == Len(out)

\* The copy writer stages the products and the variants.
ToStage(r) == r.verdict \in {"parent", "emit"} /\ file[r.line].kind \in {"product", "variant"}

\* Those among the records after the ones this attempt skips.
StagedNow == staged \cup {out[k].line : k \in {n \in DOMAIN out : n > from /\ ToStage(out[n])}}

\* A flush inside onRecord, and the checkpoint after it.
Save ==
    /\ pc # "done" /\ Len(out) > from /\ committed # Len(out)
    /\ ToStage(out[Len(out)])
    /\ staged' = StagedNow
    /\ committed' = Counted
    /\ UNCHANGED <<file, memory, disk, attempts, moved>>

\* Everything is resolved: the last flush and checkpoint.
Finish ==
    /\ pc = "resolve" /\ todo = <<>> /\ slot = Slots
    /\ pc' = "done"
    /\ staged' = StagedNow
    /\ committed' = Counted
    /\ UNCHANGED <<file, pos, recent, order, buffer, slot, todo, out, from, disk, attempts, moved>>

\* (Faulty variant, for mutation: the cache is warmed from the bucket files.)
RememberedFromDisk == UNION {parents[b] : b \in DOMAIN parents}

\* recentParents of a new remapper.
Remembered == {}

\* The worker dies and the job is attempted again, on its host or on another.
Again ==
    /\ pc # "done" /\ attempts < MaxAttempts
    /\ attempts' = attempts + 1
    /\ pc' = "read" /\ pos' = 0
    /\ recent' = Remembered /\ order' = <<>> /\ buffer' = <<>>
    /\ slot' = 0 /\ todo' = <<>> /\ out' = <<>>
    /\ from' = committed
    /\ staged' = IF committed = 0 THEN {} ELSE staged
    /\ UNCHANGED <<file, committed>>
    /\ \/ UNCHANGED <<disk, moved>>
       \/ /\ parents' = [b \in 0..(Buckets - 1) |-> {}]
          /\ orphans' = NoOrphans
          /\ moved' = TRUE

Next ==
    \/ ReadParent \/ Drain \/ ReadInvalid \/ ReadChild \/ BufferVariant \/ SpillChild
    \/ EndOfLines \/ SpillBuffered \/ OpenBucket \/ Resolve
    \/ Save \/ Finish \/ Again

Spec == Init /\ [][Next]_vars

-----------------------------------------------------------------------------
(* Properties.                                                                *)

Numbers == 1..Len(file)
Records == [line : Numbers, verdict : {"parent", "emit", "orphan", "invalid"}]

Placed(k, b) == {i \in Numbers : file[i].kind = k /\ Bucket[file[i].parent] = b}
OfSlot(s) == IF s = 0 THEN {} ELSE Placed(KindOf(s - 1), BucketOf(s - 1))
Variants == {i \in Numbers : file[i].kind = "variant"}

\* Types; a line is in the bucket file of its kind and of its parent.
TypeOK ==
    /\ file \in Seq(Lines)
    /\ pc \in {"read", "drain", "spill", "resolve", "done"}
    /\ pos \in 0..Len(file)
    /\ recent \subseteq Ids /\ order \in Seq(Ids)
    /\ buffer \in Seq(Variants)
    /\ parents \in [0..(Buckets - 1) -> SUBSET Ids]
    /\ orphans \in [ChildKinds \X (0..(Buckets - 1)) -> Seq(Numbers)]
    /\ \A k \in ChildKinds, b \in 0..(Buckets - 1) : orphans[<<k, b>>] \in Seq(Placed(k, b))
    /\ slot \in 0..Slots
    /\ todo \in Seq(OfSlot(slot))
    /\ out \in Seq(Records)
    /\ committed \in Nat /\ from \in Nat
    /\ staged \subseteq Numbers
    /\ attempts \in Nat /\ moved \in BOOLEAN

HandedOf(i) == {k \in DOMAIN out : out[k].line = i}

Answered == [i \in DOMAIN file |-> IF HandedOf(i) = {} THEN "none"
                                  ELSE out[CHOOSE k \in HandedOf(i) : TRUE].verdict]

Contract == INSTANCE StitchContract WITH answer <- Answered

\* Neither the order of the lines, nor what fell out of the caches, nor files
\* left by a dead attempt change a verdict: stitching implements its contract.
ImplementsContract == Contract!Spec

\* Every line is answered when stitching ends, and no more often than there
\* were attempts: exactly once in a run without trouble.
EveryLineAnswered ==
    /\ pc = "done" => \A i \in Numbers : HandedOf(i) # {}
    /\ \A i \in Numbers : Cardinality(HandedOf(i)) <= attempts

\* A child is handed on after the parent it hangs on, so that the rows staged
\* before a checkpoint never hold a variant without its product.
ParentsFirst ==
    \A k \in DOMAIN out : out[k].verdict = "emit" =>
        \E j \in 1..(k - 1) : out[j].verdict = "parent" /\ file[out[j].line].id = file[out[k].line].parent

\* The memory is bounded whatever the file: parents that come again included.
MemoryBounded ==
    /\ Cardinality(recent) <= MaxParents /\ Len(order) <= MaxParents
    /\ Len(buffer) <= MaxOrphans

\* "Resume: skip already committed stitched records": when an attempt is over,
\* everything that is to be staged is, although the attempts handed records on
\* in different numbers; a host that lacks the bucket files excepted.
NothingSkippedIsLost ==
    pc = "done" /\ ~moved =>
        staged = {i \in Numbers : ToStage([line |-> i, verdict |-> Contract!Right(file, i)])}
=============================================================================
