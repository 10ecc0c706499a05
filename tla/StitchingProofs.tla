---------------------------- MODULE StitchingProofs ----------------------------
(* Theorems about Stitching, for every result, every bound of the memory,     *)
(* every number of buckets and any hash.                                      *)
EXTENDS Stitching, FiniteSetTheorems, SequenceTheorems, TLAPS

USE StitchLines, StitchFiles, StitchBuckets, StitchBounds

-----------------------------------------------------------------------------
(* Sequences and lines.                                                       *)

\* An element is put into a sequence behind place n, or cut out of it.
PutIn(s, n, x) == SubSeq(s, 1, n) \o <<x>> \o SubSeq(s, n + 1, Len(s))
CutOut(s, n) == SubSeq(s, 1, n - 1) \o SubSeq(s, n + 1, Len(s))

\* t is s with x at place p: the places before p are the same, those from p on
\* move up.
Inserted(s, t, p, x) ==
    /\ p \in 1..Len(t) /\ Len(t) = Len(s) + 1 /\ t[p] = x
    /\ \A n \in 1..Len(s) : t[IF n < p THEN n ELSE n + 1] = s[n]

\* Places and elements of a concatenation.
Joins(a, b, t) ==
    /\ Len(a) \in Nat /\ Len(b) \in Nat /\ Len(t) = Len(a) + Len(b)
    /\ \A i \in 1..Len(a) : t[i] = a[i]
    /\ \A i \in 1..Len(b) : t[Len(a) + i] = b[i]

LEMMA Joined ==
  ASSUME NEW S, NEW a \in Seq(S), NEW b \in Seq(S)
  PROVE  a \o b \in Seq(S) /\ Joins(a, b, a \o b)
  <1>1. Len(a) \in Nat /\ Len(b) \in Nat
    OBVIOUS
  <1>2. a \o b \in Seq(S) /\ Len(a \o b) = Len(a) + Len(b)
    BY ConcatProperties
  <1>3. ASSUME NEW i \in 1..Len(a) PROVE (a \o b)[i] = a[i]
    BY <1>1, <1>3
  <1>4. ASSUME NEW i \in 1..Len(b) PROVE (a \o b)[Len(a) + i] = b[i]
    BY <1>1, <1>4
  <1> QED  BY <1>1, <1>2, <1>3, <1>4 DEF Joins

LEMMA InsertedIs ==
  ASSUME NEW S, NEW s \in Seq(S), NEW n \in 0..Len(s), NEW x \in S
  PROVE  PutIn(s, n, x) \in Seq(S) /\ Inserted(s, PutIn(s, n, x), n + 1, x)
  <1> DEFINE t == PutIn(s, n, x)
             a == SubSeq(s, 1, n)
             b == <<x>>
             c == SubSeq(s, n + 1, Len(s))
             d == a \o b
  <1>1. Len(s) \in Nat /\ n \in Nat /\ n <= Len(s)
    OBVIOUS
  <1>2. a \in Seq(S) /\ Len(a) = n /\ \A i \in 1..n : a[i] = s[i]
    BY <1>1, SubSeqProperties
  <1>3. c \in Seq(S) /\ Len(c) = Len(s) - n /\ \A i \in 1..(Len(s) - n) : c[i] = s[n + i]
    BY <1>1, SubSeqProperties
  <1>4. b \in Seq(S) /\ Len(b) = 1 /\ b[1] = x
    OBVIOUS
  <1>5. t = d \o c
    BY DEF PutIn
  <1> HIDE DEF t, a, b, c
  <1>6. d \in Seq(S) /\ Joins(a, b, d)
    BY ONLY <1>2, <1>4, Joined
  <1> HIDE DEF d
  <1>7. Len(d) = n + 1 /\ d[n + 1] = x
    BY ONLY <1>1, <1>2, <1>4, <1>6 DEF Joins
  <1>8. t \in Seq(S) /\ Joins(d, c, t)
    BY ONLY <1>3, <1>5, <1>6, Joined
  <1>9. Len(t) = Len(s) + 1 /\ t[n + 1] = x /\ n + 1 \in 1..Len(t)
    BY ONLY <1>1, <1>3, <1>7, <1>8 DEF Joins
  <1>10. ASSUME NEW i \in 1..Len(s) PROVE t[IF i < n + 1 THEN i ELSE i + 1] = s[i]
    <2>1. CASE i <= n
      <3>1. i \in 1..n /\ i \in 1..Len(d) /\ i \in 1..Len(a) /\ i < n + 1
        BY ONLY <1>1, <1>2, <1>7, <1>10, <2>1
      <3>2. t[i] = d[i] /\ d[i] = a[i] /\ a[i] = s[i]
        BY ONLY <1>2, <1>6, <1>8, <3>1 DEF Joins
      <3> QED  BY ONLY <3>1, <3>2
    <2>2. CASE i > n
      <3>1. /\ i - n \in 1..(Len(s) - n) /\ i - n \in 1..Len(c) /\ Len(d) + (i - n) = i + 1
            /\ n + (i - n) = i /\ ~(i < n + 1)
        BY ONLY <1>1, <1>3, <1>7, <1>10, <2>2
      <3>2. t[Len(d) + (i - n)] = c[i - n] /\ c[i - n] = s[n + (i - n)]
        BY ONLY <1>3, <1>8, <3>1 DEF Joins
      <3> QED  BY ONLY <3>1, <3>2
    <2> QED  BY ONLY <1>1, <1>10, <2>1, <2>2
  <1>11. t \in Seq(S) /\ Inserted(s, t, n + 1, x)
    BY ONLY <1>8, <1>9, <1>10 DEF Inserted
  <1> QED  BY <1>11 DEF t

LEMMA CutIs ==
  ASSUME NEW S, NEW s \in Seq(S), NEW n \in DOMAIN s
  PROVE  CutOut(s, n) \in Seq(S) /\ Inserted(CutOut(s, n), s, n, s[n])
  <1> DEFINE t == CutOut(s, n)
             a == SubSeq(s, 1, n - 1)
             c == SubSeq(s, n + 1, Len(s))
  <1>1. Len(s) \in Nat /\ n \in 1..Len(s)
    OBVIOUS
  <1>2. a \in Seq(S) /\ Len(a) = n - 1 /\ \A i \in 1..(n - 1) : a[i] = s[i]
    BY <1>1, SubSeqProperties
  <1>3. c \in Seq(S) /\ Len(c) = Len(s) - n /\ \A i \in 1..(Len(s) - n) : c[i] = s[n + i]
    BY <1>1, SubSeqProperties
  <1>4. t = a \o c
    BY DEF CutOut
  <1> HIDE DEF t, a, c
  <1>5. t \in Seq(S) /\ Joins(a, c, t)
    BY ONLY <1>2, <1>3, <1>4, Joined
  <1>6. n \in 1..Len(s) /\ Len(s) = Len(t) + 1 /\ Len(t) = Len(s) - 1
    <2>1. Len(t) = Len(a) + Len(c) /\ Len(a) = n - 1 /\ Len(c) = Len(s) - n
      BY <1>2, <1>3, <1>5 DEF Joins
    <2>2. Len(t) = (n - 1) + (Len(s) - n)
      BY ONLY <2>1
    <2>3. \A l \in Nat : \A m \in 1..l : (m - 1) + (l - m) = l - 1 /\ l = (l - 1) + 1
      OBVIOUS
    <2>4. Len(t) = Len(s) - 1 /\ Len(s) = (Len(s) - 1) + 1
      BY ONLY <1>1, <2>2, <2>3
    <2> QED  BY ONLY <1>1, <2>4
  <1>7. ASSUME NEW i \in 1..Len(t) PROVE s[IF i < n THEN i ELSE i + 1] = t[i]
    <2>1. CASE i < n
      <3>1. i \in 1..(n - 1) /\ i \in 1..Len(a)
        BY ONLY <1>1, <1>2, <1>6, <1>7, <2>1
      <3>2. t[i] = a[i] /\ a[i] = s[i]
        BY ONLY <1>2, <1>5, <3>1 DEF Joins
      <3> QED  BY ONLY <2>1, <3>2
    <2>2. CASE i >= n
      <3>1. /\ i - (n - 1) \in 1..(Len(s) - n) /\ i - (n - 1) \in 1..Len(c)
            /\ Len(a) + (i - (n - 1)) = i /\ n + (i - (n - 1)) = i + 1 /\ ~(i < n)
        BY ONLY <1>1, <1>2, <1>3, <1>6, <1>7, <2>2
      <3>2. t[Len(a) + (i - (n - 1))] = c[i - (n - 1)] /\ c[i - (n - 1)] = s[n + (i - (n - 1))]
        BY ONLY <1>3, <1>5, <3>1 DEF Joins
      <3> QED  BY ONLY <3>1, <3>2
    <2> QED  BY ONLY <1>1, <1>6, <1>7, <2>1, <2>2
  <1>8. t \in Seq(S) /\ Inserted(t, s, n, s[n])
    BY ONLY <1>5, <1>6, <1>7 DEF Inserted
  <1> QED  BY <1>8 DEF t

\* The contract's verdict on a line.
LEMMA RightIs ==
  ASSUME NEW f \in Seq(Lines), NEW i \in DOMAIN f
  PROVE  /\ f[i].kind \in ParentKinds <=> Contract!Right(f, i) = "parent"
         /\ f[i].kind \in ChildKinds =>
              Contract!Right(f, i) = IF f[i].parent \in Contract!Parents(f) THEN "emit" ELSE "orphan"
         /\ f[i].kind = "invalid" => Contract!Right(f, i) = "invalid"
         /\ f[i].kind \in Kinds /\ f[i].id \in Ids /\ f[i].parent \in Ids
         /\ f[i].kind \in ParentKinds => f[i].id \in Contract!Parents(f)
  <1>1. f[i] \in Lines
    OBVIOUS
  <1>2. f[i].kind \in Kinds /\ f[i].id \in Ids /\ f[i].parent \in Ids
    BY <1>1
  <1>3. f[i].kind \in ParentKinds => f[i].id \in Contract!Parents(f)
    BY DEF Contract!Parents, Contract!ParentKinds, ParentKinds
  <1>4. /\ Contract!ParentKinds = ParentKinds /\ Contract!ChildKinds = ChildKinds
        /\ ParentKinds \cap ChildKinds = {}
        /\ "invalid" \notin ParentKinds \cup ChildKinds
    BY DEF Contract!ParentKinds, Contract!ChildKinds, ParentKinds, ChildKinds
  <1> QED  BY <1>2, <1>3, <1>4 DEF Contract!Right

\* The bucket files finalize opens are those of the three kinds of children.
LEMMA SlotsAre ==
  ASSUME NEW n \in 0..(Slots - 1)
  PROVE  KindOf(n) \in ChildKinds /\ BucketOf(n) \in 0..(Buckets - 1)
  <1>1. KindOf(n) \in ChildKinds
    BY DEF KindOf, ChildKinds
  <1>2. BucketOf(n) \in 0..(Buckets - 1)
    BY DEF BucketOf, Slots
  <1> QED  BY <1>1, <1>2

-----------------------------------------------------------------------------
(* The inductive invariant.                                                   *)

\* Ids of the parents handed on by this attempt.
HandedParents == {file[out[k].line].id : k \in {n \in DOMAIN out : out[n].verdict = "parent"}}

\* The memory holds parents that were handed on; the lines read are in the bucket
\* files and were handed on; the bucket files, of dead attempts too, hold parents
\* of this file.
ParentsKnown ==
    /\ recent \subseteq HandedParents
    /\ \A i \in 1..pos : file[i].kind \in ParentKinds =>
          file[i].id \in parents[Bucket[file[i].id]] /\ file[i].id \in HandedParents
    /\ \A b \in 0..(Buckets - 1) : parents[b] \subseteq Contract!Parents(file)

\* What is over when.
PhaseOK ==
    /\ pc \in {"spill", "resolve", "done"} => pos = Len(file)
    /\ pc = "drain" => pos > 0 /\ file[pos].kind \in ParentKinds

VerdictsRight == \A k \in DOMAIN out : out[k].verdict = Contract!Right(file, out[k].line)

Inv == TypeOK /\ ParentsKnown /\ PhaseOK /\ VerdictsRight /\ ParentsFirst

LEMMA InvInit == Init => Inv
  <1> SUFFICES ASSUME Init PROVE Inv
    OBVIOUS
  <1>1. file \in Seq(Lines)
    BY DEF Init
  <1>2. TypeOK
    <2>1. NoOrphans \in [ChildKinds \X (0..(Buckets - 1)) -> Seq(Numbers)]
      BY DEF NoOrphans
    <2>2. \A k \in ChildKinds, b \in 0..(Buckets - 1) : NoOrphans[<<k, b>>] = <<>>
      BY DEF NoOrphans
    <2>3. \A S : <<>> \in Seq(S)
      OBVIOUS
    <2>4. \A k \in ChildKinds, b \in 0..(Buckets - 1) : NoOrphans[<<k, b>>] \in Seq(Placed(k, b))
      BY <2>2, <2>3
    <2>5. orphans = NoOrphans /\ order = <<>> /\ buffer = <<>> /\ out = <<>>
      BY DEF Init
    <2>6. order \in Seq(Ids) /\ buffer \in Seq(Variants) /\ out \in Seq(Records)
      BY <2>3, <2>5
    <2>7. pos \in 0..Len(file) /\ slot \in 0..Slots /\ todo \in Seq(OfSlot(slot))
      BY <1>1, <2>3 DEF Init, Slots
    <2>8. parents \in [0..(Buckets - 1) -> SUBSET Ids]
      BY DEF Init
    <2> HIDE DEF NoOrphans
    <2> QED  BY <1>1, <2>1, <2>4, <2>5, <2>6, <2>7, <2>8 DEF Init, TypeOK
  <1>3. ParentsKnown /\ PhaseOK /\ VerdictsRight /\ ParentsFirst
    BY <1>1 DEF Init, ParentsKnown, PhaseOK, VerdictsRight, ParentsFirst, HandedParents
  <1> QED  BY <1>2, <1>3 DEF Inv

\* Handing on a line with the right verdict, a child after its parent.
LEMMA HandedOn ==
  ASSUME Inv, NEW i \in Numbers, NEW v, Handed(i, v), file' = file,
         v = Contract!Right(file, i), v \in {"parent", "emit", "orphan", "invalid"},
         v = "emit" => file[i].parent \in HandedParents
  PROVE  /\ out' \in Seq(Records) /\ VerdictsRight' /\ ParentsFirst'
         /\ HandedParents \subseteq HandedParents'
         /\ v = "parent" => file[i].id \in HandedParents'
  <1> DEFINE r == [line |-> i, verdict |-> v]
  <1>1. out \in Seq(Records) /\ r \in Records
    BY DEF Inv, TypeOK, Records
  <1>2. /\ out' = Append(out, r) /\ out' \in Seq(Records) /\ Len(out') = Len(out) + 1
        /\ \A k \in 1..Len(out) : out'[k] = out[k]
        /\ out'[Len(out) + 1] = r
        /\ DOMAIN out = 1..Len(out) /\ DOMAIN out' = 1..(Len(out) + 1)
    BY <1>1 DEF Handed
  <1>3. r.line = i /\ r.verdict = v
    OBVIOUS
  <1> HIDE DEF r
  <1>4. VerdictsRight'
    BY <1>2, <1>3 DEF Inv, VerdictsRight
  <1>5. HandedParents \subseteq HandedParents'
    BY <1>2 DEF HandedParents
  <1>6. v = "parent" => file[i].id \in HandedParents'
    BY <1>2, <1>3 DEF HandedParents
  <1>7. ParentsFirst'
    <2> SUFFICES ASSUME NEW k \in DOMAIN out', out'[k].verdict = "emit"
                 PROVE  \E j \in 1..(k - 1) : /\ out'[j].verdict = "parent"
                                              /\ file[out'[j].line].id = file[out'[k].line].parent
      BY DEF ParentsFirst
    <2>1. CASE k \in 1..Len(out)
      <3>1. PICK j \in 1..(k - 1) : /\ out[j].verdict = "parent"
                                    /\ file[out[j].line].id = file[out[k].line].parent
        BY <1>2, <2>1 DEF Inv, ParentsFirst
      <3>2. Len(out) \in Nat
        BY <1>1
      <3>3. j \in 1..Len(out)
        BY <2>1, <3>1, <3>2
      <3> QED  BY <1>2, <2>1, <3>1, <3>3
    <2>2. CASE k = Len(out) + 1
      <3>1. PICK j \in DOMAIN out : /\ out[j].verdict = "parent"
                                    /\ file[out[j].line].id = file[i].parent
        BY <1>2, <1>3, <2>2 DEF HandedParents
      <3>2. Len(out) \in Nat
        BY <1>1
      <3> QED  BY <1>2, <1>3, <2>2, <3>1, <3>2
    <2>3. Len(out) \in Nat /\ k \in 1..(Len(out) + 1)
      BY <1>1, <1>2
    <2>4. k \in 1..Len(out) \/ k = Len(out) + 1
      BY <2>3
    <2> QED  BY <2>1, <2>2, <2>4
  <1> QED  BY <1>2, <1>4, <1>5, <1>6, <1>7


-----------------------------------------------------------------------------
(* What a step leaves alone.                                                  *)

OrphansOK(o) ==
    /\ o \in [ChildKinds \X (0..(Buckets - 1)) -> Seq(Numbers)]
    /\ \A k \in ChildKinds, b \in 0..(Buckets - 1) : o[<<k, b>>] \in Seq(Placed(k, b))

\* The types of the next state, with the file of this one.
LEMMA TypedAgain ==
  ASSUME file \in Seq(Lines), file' = file,
         pc' \in {"read", "drain", "spill", "resolve", "done"}, pos' \in 0..Len(file),
         recent' \subseteq Ids, order' \in Seq(Ids), buffer' \in Seq(Variants),
         parents' \in [0..(Buckets - 1) -> SUBSET Ids], OrphansOK(orphans'),
         slot' \in 0..Slots, todo' \in Seq(OfSlot(slot')), out' \in Seq(Records),
         committed' \in Nat, from' \in Nat, staged' \subseteq Numbers,
         attempts' \in Nat, moved' \in BOOLEAN
  PROVE  TypeOK'
  <1>1. /\ Numbers' = Numbers /\ Variants' = Variants /\ Records' = Records
        /\ \A k, b : Placed(k, b)' = Placed(k, b)
    BY DEF Numbers, Variants, Records, Placed
  <1>2. /\ orphans' \in [ChildKinds \X (0..(Buckets - 1)) -> Seq(Numbers')]
        /\ \A k \in ChildKinds, b \in 0..(Buckets - 1) : orphans'[<<k, b>>] \in Seq(Placed(k, b)')
    BY <1>1 DEF OrphansOK
  <1>3. OfSlot(slot)' = OfSlot(slot')
    BY DEF OfSlot, Placed, Numbers
  <1>4. orphans' \in [ChildKinds \X (0..(Buckets - 1)) -> Seq(Numbers)]'
    BY <1>1, <1>2
  <1>5. (\A k \in ChildKinds, b \in 0..(Buckets - 1) : orphans[<<k, b>>] \in Seq(Placed(k, b)))'
    BY <1>2
  <1>6. (slot \in 0..Slots)' /\ (pos \in 0..Len(file))'
    BY DEF Slots
  <1> QED  BY <1>1, <1>3, <1>4, <1>5, <1>6 DEF TypeOK

\* What is known of the parents, when no more is forgotten.
LEMMA ParentsAgain ==
  ASSUME Inv, file' = file, recent' \subseteq HandedParents',
         HandedParents \subseteq HandedParents',
         \A b \in 0..(Buckets - 1) : /\ parents[b] \subseteq parents'[b]
                                     /\ parents'[b] \subseteq Contract!Parents(file),
         pos' \in 0..Len(file),
         \A i \in 1..pos' : \/ i \in 1..pos
                            \/ file[i].kind \notin ParentKinds
                            \/ /\ file[i].id \in parents'[Bucket[file[i].id]]
                               /\ file[i].id \in HandedParents'
  PROVE  ParentsKnown'
  <1> SUFFICES ASSUME NEW i \in 1..pos', file[i].kind \in ParentKinds
               PROVE  /\ file[i].id \in parents'[Bucket[file[i].id]]
                      /\ file[i].id \in HandedParents'
    BY DEF ParentsKnown
  <1>1. file \in Seq(Lines) /\ i \in DOMAIN file
    BY DEF Inv, TypeOK
  <1>2. Bucket[file[i].id] \in 0..(Buckets - 1)
    BY <1>1, RightIs
  <1> QED  BY <1>2 DEF Inv, ParentsKnown

\* A step that leaves the records handed on leaves what holds of them.
LEMMA OutAgain ==
  ASSUME Inv, file' = file, out' = out
  PROVE  /\ out' \in Seq(Records) /\ VerdictsRight' /\ ParentsFirst'
         /\ HandedParents' = HandedParents
  BY DEF Inv, TypeOK, VerdictsRight, ParentsFirst, HandedParents

\* The line that is read, and what is known of it.
LEMMA LineIs ==
  ASSUME Inv, pc = "read", pos < Len(file)
  PROVE  /\ file \in Seq(Lines) /\ pos \in Nat /\ Len(file) \in Nat
         /\ pos + 1 \in Numbers /\ pos + 1 \in 0..Len(file) /\ pos + 1 \in DOMAIN file
         /\ Line = file[pos + 1]
         /\ \A i \in 1..(pos + 1) : i \in 1..pos \/ i = pos + 1
         /\ Line.kind \in Kinds /\ Line.id \in Ids /\ Line.parent \in Ids
         /\ Bucket[Line.id] \in 0..(Buckets - 1) /\ Bucket[Line.parent] \in 0..(Buckets - 1)
  <1>1. file \in Seq(Lines) /\ pos \in 0..Len(file)
    BY DEF Inv, TypeOK
  <1>2. pos + 1 \in Numbers /\ pos + 1 \in 0..Len(file) /\ pos + 1 \in DOMAIN file
    BY <1>1 DEF Numbers
  <1>3. Line.kind \in Kinds /\ Line.id \in Ids /\ Line.parent \in Ids
    BY <1>1, <1>2, RightIs DEF Line
  <1> QED  BY <1>1, <1>2, <1>3 DEF Line

-----------------------------------------------------------------------------
(* processLine.                                                               *)

LEMMA ReadParentInv == Inv /\ ReadParent => Inv'
  <1> SUFFICES ASSUME Inv, ReadParent PROVE Inv'
    OBVIOUS
  <1> DEFINE ids == Append(order, Line.id)
  <1>1. /\ pc = "read" /\ pos < Len(file) /\ Line.kind \in ParentKinds
        /\ order' = Kept(ids)
        /\ recent' \subseteq recent \cup {Line.id}
        /\ parents' = [parents EXCEPT ![Bucket[Line.id]] = @ \cup {Line.id}]
        /\ Handed(pos + 1, "parent") /\ pos' = pos + 1
        /\ pc' = IF Line.kind = "product" THEN "drain" ELSE "read"
        /\ UNCHANGED <<file, buffer, orphans, slot, todo, from, saved>>
    BY DEF ReadParent, Reading, RecordParent
  <1>2. ids \in Seq(Ids) /\ ids # <<>>
    <2>1. order \in Seq(Ids) /\ Line.id \in Ids
      BY <1>1, LineIs DEF Inv, TypeOK
    <2> QED  BY <2>1, AppendProperties
  <1>3. order' \in Seq(Ids)
    BY <1>1, <1>2 DEF Kept
  <1> HIDE DEF ids
  <1>4. Contract!Right(file, pos + 1) = "parent" /\ Line.id \in Contract!Parents(file)
    BY <1>1, LineIs, RightIs
  <1>5. /\ out' \in Seq(Records) /\ VerdictsRight' /\ ParentsFirst'
        /\ HandedParents \subseteq HandedParents' /\ Line.id \in HandedParents'
    BY <1>1, <1>4, LineIs, HandedOn
  <1>6. parents \in [0..(Buckets - 1) -> SUBSET Ids]
    BY DEF Inv, TypeOK
  <1>7. parents' \in [0..(Buckets - 1) -> SUBSET Ids]
    BY <1>1, <1>6, LineIs
  <1>8. Line.id \in parents'[Bucket[Line.id]]
    BY <1>1, <1>6, LineIs
  <1>9. \A b \in 0..(Buckets - 1) : /\ parents[b] \subseteq parents'[b]
                                    /\ parents'[b] \subseteq Contract!Parents(file)
    BY <1>1, <1>4, <1>6 DEF Inv, ParentsKnown
  <1>10. recent' \subseteq HandedParents'
    BY <1>1, <1>5 DEF Inv, ParentsKnown
  <1>11. ParentsKnown'
    BY <1>1, <1>5, <1>8, <1>9, <1>10, LineIs, ParentsAgain
  <1>12. PhaseOK'
    BY <1>1, LineIs DEF PhaseOK
  <1>13. TypeOK'
    BY <1>1, <1>3, <1>5, <1>7, LineIs, TypedAgain DEF Inv, TypeOK, OrphansOK, saved
  <1> QED  BY <1>5, <1>11, <1>12, <1>13 DEF Inv

\* The line that is buffered is put into the buffer.
LEMMA BufferedIs ==
  ASSUME Inv, BufferVariant
  PROVE  \E n \in 0..Len(buffer) : /\ buffer' = PutIn(buffer, n, pos + 1)
                                   /\ buffer' \in Seq(Variants)
                                   /\ Inserted(buffer, buffer', n + 1, pos + 1)
  <1>1. pc = "read" /\ pos < Len(file) /\ Line.kind = "variant"
    BY DEF BufferVariant, Reading
  <1>2. pos + 1 \in Variants
    BY <1>1, LineIs DEF Variants
  <1>3. buffer \in Seq(Variants)
    BY DEF Inv, TypeOK
  <1>4. PICK n \in 0..Len(buffer) : buffer' = PutIn(buffer, n, pos + 1)
    BY DEF BufferVariant, PutIn
  <1>5. PutIn(buffer, n, pos + 1) \in Seq(Variants) /\ Inserted(buffer, PutIn(buffer, n, pos + 1), n + 1, pos + 1)
    BY ONLY <1>2, <1>3, <1>4, InsertedIs
  <1> QED  BY <1>4, <1>5

\* The line that is drained is cut out of it.
LEMMA DrainedIs ==
  ASSUME Inv, NEW n \in DOMAIN buffer, buffer' = CutOut(buffer, n)
  PROVE  buffer' \in Seq(Variants) /\ Inserted(buffer', buffer, n, buffer[n])
  <1>1. buffer \in Seq(Variants)
    BY DEF Inv, TypeOK
  <1>2. CutOut(buffer, n) \in Seq(Variants) /\ Inserted(CutOut(buffer, n), buffer, n, buffer[n])
    BY ONLY <1>1, CutIs
  <1> QED  BY <1>2

LEMMA DrainInv == Inv /\ Drain => Inv'
  <1> SUFFICES ASSUME Inv, Drain PROVE Inv'
    OBVIOUS
  <1>1. /\ pc = "drain" /\ pos \in 1..Len(file) /\ file[pos].kind \in ParentKinds
        /\ pos \in Nat /\ Len(file) \in Nat /\ file \in Seq(Lines)
        /\ UNCHANGED <<file, pos, recent, order, parents, orphans, slot, todo, from, saved>>
    BY DEF Drain, disk, Inv, TypeOK, PhaseOK
  <1>2. CASE pc' = "read" /\ UNCHANGED <<buffer, out>>
    <2>1. TypeOK'
      BY <1>1, <1>2, OutAgain, TypedAgain DEF Inv, TypeOK, OrphansOK, saved
    <2>2. ParentsKnown'
      BY <1>1, <1>2, OutAgain DEF Inv, ParentsKnown
    <2>3. PhaseOK'
      BY <1>1, <1>2 DEF PhaseOK
    <2> QED  BY <2>1, <2>2, <2>3, <1>1, <1>2, OutAgain DEF Inv
  <1>3. CASE \E n \in Waiting(file[pos].id) :
                /\ Handed(buffer[n], "emit")
                /\ buffer' = SubSeq(buffer, 1, n - 1) \o SubSeq(buffer, n + 1, Len(buffer))
                /\ pc' = pc
    <2>1. PICK n \in Waiting(file[pos].id) :
                /\ Handed(buffer[n], "emit")
                /\ buffer' = SubSeq(buffer, 1, n - 1) \o SubSeq(buffer, n + 1, Len(buffer))
                /\ pc' = pc
      BY <1>3
    <2>2. /\ buffer \in Seq(Variants) /\ n \in 1..Len(buffer)
          /\ file[buffer[n]].parent = file[pos].id
      <3>1. buffer \in Seq(Variants)
        BY DEF Inv, TypeOK
      <3>2. n \in DOMAIN buffer /\ file[buffer[n]].parent = file[pos].id
        BY DEF Waiting
      <3> QED  BY <3>1, <3>2
    <2>3. buffer[n] \in Numbers /\ buffer[n] \in DOMAIN file /\ file[buffer[n]].kind \in ChildKinds
      <3>1. buffer[n] \in Variants
        BY <2>2
      <3> QED  BY <1>1, <3>1 DEF Variants, Numbers, ChildKinds
    <2>4. file[pos].id \in Contract!Parents(file)
      BY <1>1, RightIs
    <2>5. Contract!Right(file, buffer[n]) = "emit"
      BY <1>1, <2>2, <2>3, <2>4, RightIs
    <2>6. file[buffer[n]].parent \in HandedParents
      BY <1>1, <2>2 DEF Inv, ParentsKnown
    <2>7. /\ out' \in Seq(Records) /\ VerdictsRight' /\ ParentsFirst'
          /\ HandedParents \subseteq HandedParents'
      BY <1>1, <2>1, <2>3, <2>5, <2>6, HandedOn
    <2>8. buffer' \in Seq(Variants)
      <3>1. buffer' = CutOut(buffer, n)
        BY <2>1 DEF CutOut
      <3> QED  BY <2>2, <3>1, DrainedIs
    <2>9. ParentsKnown'
      BY <1>1, <2>7, ParentsAgain DEF Inv, ParentsKnown
    <2>10. PhaseOK'
      BY <1>1, <2>1 DEF PhaseOK
    <2>11. TypeOK'
      BY <1>1, <2>1, <2>7, <2>8, TypedAgain DEF Inv, TypeOK, OrphansOK, saved
    <2> QED  BY <2>7, <2>9, <2>10, <2>11 DEF Inv
  <1> QED  BY <1>2, <1>3 DEF Drain


LEMMA ReadInvalidInv == Inv /\ ReadInvalid => Inv'
  <1> SUFFICES ASSUME Inv, ReadInvalid PROVE Inv'
    OBVIOUS
  <1>1. /\ pc = "read" /\ pos < Len(file) /\ Line.kind = "invalid"
        /\ Handed(pos + 1, "invalid") /\ pos' = pos + 1
        /\ UNCHANGED <<file, pc, recent, order, buffer, parents, orphans, slot, todo, from, saved>>
    BY DEF ReadInvalid, Reading, disk
  <1>2. Contract!Right(file, pos + 1) = "invalid" /\ Line.kind \notin ParentKinds
    BY <1>1, LineIs, RightIs DEF ParentKinds
  <1>3. /\ out' \in Seq(Records) /\ VerdictsRight' /\ ParentsFirst'
        /\ HandedParents \subseteq HandedParents'
    BY <1>1, <1>2, LineIs, HandedOn
  <1>4. ParentsKnown'
    BY <1>1, <1>2, <1>3, LineIs, ParentsAgain DEF Inv, ParentsKnown
  <1>5. PhaseOK'
    BY <1>1 DEF PhaseOK
  <1>6. TypeOK'
    BY <1>1, <1>3, LineIs, TypedAgain DEF Inv, TypeOK, OrphansOK, saved
  <1> QED  BY <1>3, <1>4, <1>5, <1>6 DEF Inv

LEMMA ReadChildInv == Inv /\ ReadChild => Inv'
  <1> SUFFICES ASSUME Inv, ReadChild PROVE Inv'
    OBVIOUS
  <1>1. /\ pc = "read" /\ pos < Len(file) /\ Line.kind \in ChildKinds /\ Line.parent \in recent
        /\ Handed(pos + 1, "emit") /\ pos' = pos + 1
        /\ UNCHANGED <<file, pc, recent, order, buffer, parents, orphans, slot, todo, from, saved>>
    BY DEF ReadChild, Reading, disk
  <1>2. Line.kind \notin ParentKinds
    BY <1>1 DEF ParentKinds, ChildKinds
  <1>3. Line.parent \in HandedParents
    BY <1>1 DEF Inv, ParentsKnown
  <1>4. Line.parent \in Contract!Parents(file)
    <2>1. PICK k \in DOMAIN out : out[k].verdict = "parent" /\ file[out[k].line].id = Line.parent
      BY <1>3 DEF HandedParents
    <2>2. out[k] \in Records /\ Contract!Right(file, out[k].line) = "parent"
      BY <2>1 DEF Inv, TypeOK, VerdictsRight
    <2>3. file \in Seq(Lines) /\ out[k].line \in DOMAIN file
      BY <1>1, <2>2, LineIs DEF Records, Numbers
    <2> QED  BY <2>1, <2>2, <2>3, RightIs
  <1>5. Contract!Right(file, pos + 1) = "emit"
    BY <1>1, <1>4, LineIs, RightIs
  <1>6. /\ out' \in Seq(Records) /\ VerdictsRight' /\ ParentsFirst'
        /\ HandedParents \subseteq HandedParents'
    BY <1>1, <1>3, <1>5, LineIs, HandedOn
  <1>7. ParentsKnown'
    BY <1>1, <1>2, <1>6, LineIs, ParentsAgain DEF Inv, ParentsKnown
  <1>8. PhaseOK'
    BY <1>1 DEF PhaseOK
  <1>9. TypeOK'
    BY <1>1, <1>6, LineIs, TypedAgain DEF Inv, TypeOK, OrphansOK, saved
  <1> QED  BY <1>6, <1>7, <1>8, <1>9 DEF Inv

LEMMA BufferVariantInv == Inv /\ BufferVariant => Inv'
  <1> SUFFICES ASSUME Inv, BufferVariant PROVE Inv'
    OBVIOUS
  <1>1. /\ pc = "read" /\ pos < Len(file) /\ Line.kind = "variant" /\ pos' = pos + 1
        /\ UNCHANGED <<file, pc, recent, order, parents, orphans, slot, todo, out, from, saved>>
    BY DEF BufferVariant, Reading, disk
  <1>4. buffer' \in Seq(Variants)
    BY BufferedIs
  <1>5. Line.kind \notin ParentKinds
    BY <1>1 DEF ParentKinds
  <1>6. ParentsKnown'
    BY <1>1, <1>5, LineIs, OutAgain, ParentsAgain DEF Inv, ParentsKnown
  <1>7. PhaseOK'
    BY <1>1 DEF PhaseOK
  <1>8. TypeOK'
    BY <1>1, <1>4, LineIs, OutAgain, TypedAgain DEF Inv, TypeOK, OrphansOK, saved
  <1> QED  BY <1>1, <1>6, <1>7, <1>8, OutAgain DEF Inv

\* A line that is spilled keeps the bucket files in order.
LEMMA SpilledOK ==
  ASSUME Inv, NEW i \in Numbers, file[i].kind \in ChildKinds
  PROVE  OrphansOK(Spilled(i))
  <1> DEFINE k == file[i].kind
             b == Bucket[file[i].parent]
             s == Append(orphans[<<k, b>>], i)
  <1>1. k \in ChildKinds /\ b \in 0..(Buckets - 1)
    BY RightIs DEF Inv, TypeOK, Numbers
  <1>2. i \in Placed(k, b)
    BY DEF Placed
  <1>3. orphans \in [ChildKinds \X (0..(Buckets - 1)) -> Seq(Numbers)] /\ orphans[<<k, b>>] \in Seq(Placed(k, b))
    BY <1>1 DEF Inv, TypeOK
  <1>4. s \in Seq(Placed(k, b)) /\ s \in Seq(Numbers)
    BY <1>1, <1>2, <1>3, AppendProperties
  <1>5. Spilled(i) = [orphans EXCEPT ![<<k, b>>] = s]
    BY DEF Spilled
  <1> HIDE DEF k, b, s
  <1>6. Spilled(i) \in [ChildKinds \X (0..(Buckets - 1)) -> Seq(Numbers)]
    BY <1>1, <1>3, <1>4, <1>5
  <1>7. ASSUME NEW l \in ChildKinds, NEW c \in 0..(Buckets - 1)
        PROVE  Spilled(i)[<<l, c>>] \in Seq(Placed(l, c))
    <2>1. CASE l = k /\ c = b
      BY <1>1, <1>3, <1>4, <1>5, <2>1
    <2>2. CASE ~(l = k /\ c = b)
      <3>1. <<l, c>> # <<k, b>>
        BY <2>2
      <3>2. Spilled(i)[<<l, c>>] = orphans[<<l, c>>]
        BY <1>3, <1>5, <3>1
      <3> QED  BY <3>2 DEF Inv, TypeOK
    <2> QED  BY <2>1, <2>2
  <1> QED  BY <1>6, <1>7 DEF OrphansOK

LEMMA SpillChildInv == Inv /\ SpillChild => Inv'
  <1> SUFFICES ASSUME Inv, SpillChild PROVE Inv'
    OBVIOUS
  <1>1. /\ pc = "read" /\ pos < Len(file) /\ Line.kind \in ChildKinds /\ pos' = pos + 1
        /\ orphans' = Spilled(pos + 1)
        /\ UNCHANGED <<file, pc, recent, order, buffer, parents, slot, todo, out, from, saved>>
    BY DEF SpillChild, Reading
  <1>2. OrphansOK(orphans')
    BY <1>1, LineIs, SpilledOK
  <1>3. Line.kind \notin ParentKinds
    BY <1>1 DEF ParentKinds, ChildKinds
  <1>4. ParentsKnown'
    BY <1>1, <1>3, LineIs, OutAgain, ParentsAgain DEF Inv, ParentsKnown
  <1>5. PhaseOK'
    BY <1>1 DEF PhaseOK
  <1>6. TypeOK'
    BY <1>1, <1>2, LineIs, OutAgain, TypedAgain DEF Inv, TypeOK, saved
  <1> QED  BY <1>1, <1>4, <1>5, <1>6, OutAgain DEF Inv

-----------------------------------------------------------------------------
(* finalize.                                                                  *)

LEMMA EndOfLinesInv == Inv /\ EndOfLines => Inv'
  <1> SUFFICES ASSUME Inv, EndOfLines PROVE Inv'
    OBVIOUS
  <1>1. /\ pos = Len(file) /\ pc' = "spill"
        /\ UNCHANGED <<file, pos, recent, order, buffer, parents, orphans, slot, todo, out, from, saved>>
    BY DEF EndOfLines, disk
  <1>2. ParentsKnown' /\ PhaseOK'
    BY <1>1, OutAgain DEF Inv, ParentsKnown, PhaseOK
  <1>3. TypeOK'
    BY <1>1, OutAgain, TypedAgain DEF Inv, TypeOK, OrphansOK, saved
  <1> QED  BY <1>1, <1>2, <1>3, OutAgain DEF Inv

LEMMA SpillBufferedInv == Inv /\ SpillBuffered => Inv'
  <1> SUFFICES ASSUME Inv, SpillBuffered PROVE Inv'
    OBVIOUS
  <1>1. /\ pc = "spill" /\ pc' \in {"spill", "resolve"}
        /\ UNCHANGED <<file, pos, recent, order, parents, slot, todo, out, from, saved>>
        /\ \/ UNCHANGED <<buffer, orphans>>
           \/ buffer # <<>> /\ orphans' = Spilled(Head(buffer)) /\ buffer' = Tail(buffer)
    BY DEF SpillBuffered
  <1>2. buffer \in Seq(Variants)
    BY DEF Inv, TypeOK
  <1>3. buffer' \in Seq(Variants) /\ OrphansOK(orphans')
    <2>1. CASE UNCHANGED <<buffer, orphans>>
      BY <1>2, <2>1 DEF OrphansOK, Inv, TypeOK
    <2>2. CASE buffer # <<>> /\ orphans' = Spilled(Head(buffer)) /\ buffer' = Tail(buffer)
      <3>1. Head(buffer) \in Variants /\ Tail(buffer) \in Seq(Variants)
        BY <1>2, <2>2
      <3> QED  BY <2>2, <3>1, SpilledOK DEF Variants, ChildKinds
    <2> QED  BY <1>1, <2>1, <2>2
  <1>4. ParentsKnown' /\ PhaseOK'
    BY <1>1, OutAgain DEF Inv, ParentsKnown, PhaseOK
  <1>5. TypeOK'
    BY <1>1, <1>3, OutAgain, TypedAgain DEF Inv, TypeOK, saved
  <1> QED  BY <1>1, <1>4, <1>5, OutAgain DEF Inv

LEMMA OpenBucketInv == Inv /\ OpenBucket => Inv'
  <1> SUFFICES ASSUME Inv, OpenBucket PROVE Inv'
    OBVIOUS
  <1>1. /\ slot < Slots /\ slot' = slot + 1
        /\ todo' = orphans[<<KindOf(slot), BucketOf(slot)>>]
        /\ UNCHANGED <<file, pc, pos, recent, order, buffer, parents, orphans, out, from, saved>>
    BY DEF OpenBucket, disk
  <1>2. slot \in 0..(Slots - 1) /\ slot' \in 0..Slots /\ slot' # 0 /\ slot' - 1 = slot
    BY <1>1 DEF Inv, TypeOK, Slots
  <1>3. todo' \in Seq(Placed(KindOf(slot), BucketOf(slot)))
    BY <1>1, <1>2, SlotsAre DEF Inv, TypeOK
  <1>4. todo' \in Seq(OfSlot(slot'))
    BY <1>2, <1>3 DEF OfSlot
  <1>5. ParentsKnown' /\ PhaseOK'
    BY <1>1, OutAgain DEF Inv, ParentsKnown, PhaseOK
  <1>6. TypeOK'
    BY <1>1, <1>2, <1>4, OutAgain, TypedAgain DEF Inv, TypeOK, OrphansOK, saved
  <1> QED  BY <1>1, <1>5, <1>6, OutAgain DEF Inv

LEMMA ResolveInv == Inv /\ Resolve => Inv'
  <1> SUFFICES ASSUME Inv, Resolve PROVE Inv'
    OBVIOUS
  <1> DEFINE i == Head(todo)
  <1>1. /\ pc = "resolve" /\ todo # <<>> /\ todo' = Tail(todo)
        /\ Handed(i, Verdict(i))
        /\ UNCHANGED <<file, pc, pos, recent, order, buffer, parents, orphans, slot, from, saved>>
    BY DEF Resolve, disk
  <1>2. todo \in Seq(OfSlot(slot)) /\ file \in Seq(Lines) /\ slot \in 0..Slots /\ pos = Len(file)
    BY <1>1 DEF Inv, TypeOK, PhaseOK
  <1>3. i \in OfSlot(slot) /\ todo' \in Seq(OfSlot(slot))
    BY <1>1, <1>2
  <1> HIDE DEF i
  <1>4. /\ slot - 1 \in 0..(Slots - 1) /\ i \in Numbers /\ i \in DOMAIN file
        /\ file[i].kind = KindOf(slot - 1) /\ Bucket[file[i].parent] = BucketOf(slot - 1)
    BY <1>2, <1>3 DEF OfSlot, Placed, Numbers, Slots
  <1>5. /\ file[i].kind \in ChildKinds /\ file[i].parent \in Ids
        /\ BucketOf(slot - 1) \in 0..(Buckets - 1)
    BY <1>2, <1>4, SlotsAre, RightIs
  <1>6. Verdict(i) = IF file[i].parent \in parents[Bucket[file[i].parent]] THEN "emit" ELSE "orphan"
    BY <1>4 DEF Verdict
  <1>7. file[i].parent \in Contract!Parents(file) =>
          /\ file[i].parent \in parents[Bucket[file[i].parent]]
          /\ file[i].parent \in HandedParents
    <2> SUFFICES ASSUME file[i].parent \in Contract!Parents(file)
                 PROVE  /\ file[i].parent \in parents[Bucket[file[i].parent]]
                        /\ file[i].parent \in HandedParents
      OBVIOUS
    <2>1. PICK j \in DOMAIN file : file[j].kind \in ParentKinds /\ file[j].id = file[i].parent
      BY DEF Contract!Parents, Contract!ParentKinds, ParentKinds
    <2>2. j \in 1..pos
      BY <1>2, <2>1
    <2> QED  BY <2>1, <2>2 DEF Inv, ParentsKnown
  <1>8. file[i].parent \in parents[Bucket[file[i].parent]] => file[i].parent \in Contract!Parents(file)
    BY <1>4, <1>5 DEF Inv, ParentsKnown
  <1>9. Verdict(i) = Contract!Right(file, i)
    BY <1>2, <1>4, <1>5, <1>6, <1>7, <1>8, RightIs
  <1>10. Verdict(i) \in {"emit", "orphan"} /\ (Verdict(i) = "emit" => file[i].parent \in HandedParents)
    BY <1>6, <1>7, <1>8
  <1>11. /\ out' \in Seq(Records) /\ VerdictsRight' /\ ParentsFirst'
         /\ HandedParents \subseteq HandedParents'
    BY <1>1, <1>4, <1>9, <1>10, HandedOn
  <1>12. ParentsKnown'
    BY <1>1, <1>2, <1>11, ParentsAgain DEF Inv, TypeOK, ParentsKnown
  <1>13. PhaseOK'
    BY <1>1 DEF Inv, PhaseOK
  <1>14. TypeOK'
    BY <1>1, <1>3, <1>11, TypedAgain DEF Inv, TypeOK, OrphansOK, saved
  <1> QED  BY <1>11, <1>12, <1>13, <1>14 DEF Inv


-----------------------------------------------------------------------------
(* The ingest around it.                                                      *)

LEMMA StagedTyped == Inv => StagedNow \subseteq Numbers /\ Counted \in Nat
  <1> SUFFICES ASSUME Inv PROVE StagedNow \subseteq Numbers /\ Counted \in Nat
    OBVIOUS
  <1>1. out \in Seq(Records) /\ staged \subseteq Numbers
    BY DEF Inv, TypeOK
  <1>2. ASSUME NEW k \in DOMAIN out PROVE out[k].line \in Numbers
    <2>1. out[k] \in Records
      BY <1>1
    <2> QED  BY <2>1 DEF Records
  <1> QED  BY <1>1, <1>2 DEF StagedNow, Counted

LEMMA SaveInv == Inv /\ (Save \/ Finish) => Inv'
  <1> SUFFICES ASSUME Inv, Save \/ Finish PROVE Inv'
    OBVIOUS
  <1>1. /\ pc' = pc \/ (pc = "resolve" /\ pc' = "done")
        /\ staged' = StagedNow /\ committed' = Counted
        /\ UNCHANGED <<file, pos, recent, order, buffer, parents, orphans, slot, todo, out, from,
                       attempts, moved>>
    BY DEF Save, Finish, memory, disk
  <1>2. ParentsKnown' /\ PhaseOK'
    BY <1>1, OutAgain DEF Inv, ParentsKnown, PhaseOK
  <1>3. TypeOK'
    BY <1>1, StagedTyped, OutAgain, TypedAgain DEF Inv, TypeOK, OrphansOK
  <1> QED  BY <1>1, <1>2, <1>3, OutAgain DEF Inv

LEMMA AgainInv == Inv /\ Again => Inv'
  <1> SUFFICES ASSUME Inv, Again PROVE Inv'
    OBVIOUS
  <1>1. /\ attempts' = attempts + 1 /\ pc' = "read" /\ pos' = 0
        /\ recent' = {} /\ order' = <<>> /\ buffer' = <<>>
        /\ slot' = 0 /\ todo' = <<>> /\ out' = <<>>
        /\ from' = committed /\ staged' \subseteq staged
        /\ file' = file /\ committed' = committed
        /\ \/ UNCHANGED <<parents, orphans, moved>>
           \/ /\ parents' = [b \in 0..(Buckets - 1) |-> {}]
              /\ orphans' = NoOrphans /\ moved' = TRUE
    BY DEF Again, disk, Remembered
  <1>2. OrphansOK(orphans') /\ parents' \in [0..(Buckets - 1) -> SUBSET Ids] /\ moved' \in BOOLEAN
    <2>1. CASE UNCHANGED <<parents, orphans, moved>>
      BY <2>1 DEF Inv, TypeOK, OrphansOK
    <2>2. CASE parents' = [b \in 0..(Buckets - 1) |-> {}] /\ orphans' = NoOrphans /\ moved' = TRUE
      <3>1. \A S : <<>> \in Seq(S)
        OBVIOUS
      <3> QED  BY <2>2, <3>1 DEF OrphansOK, NoOrphans
    <2> QED  BY <1>1, <2>1, <2>2
  <1>3. \A b \in 0..(Buckets - 1) : parents'[b] \subseteq Contract!Parents(file)
    BY <1>1 DEF Inv, ParentsKnown
  <1>4. ParentsKnown'
    BY <1>1, <1>3 DEF ParentsKnown
  <1>5. PhaseOK' /\ VerdictsRight' /\ ParentsFirst'
    BY <1>1 DEF PhaseOK, VerdictsRight, ParentsFirst
  <1>6. \A S : <<>> \in Seq(S)
    OBVIOUS
  <1>7. /\ file \in Seq(Lines) /\ Len(file) \in Nat /\ committed \in Nat /\ attempts \in Nat
        /\ staged \subseteq Numbers /\ 0 \in 0..Slots
    BY DEF Inv, TypeOK, Slots
  <1>8. /\ order' \in Seq(Ids) /\ buffer' \in Seq(Variants) /\ out' \in Seq(Records)
        /\ todo' \in Seq(OfSlot(slot'))
    BY <1>1, <1>6
  <1>9. TypeOK'
    BY <1>1, <1>2, <1>7, <1>8, TypedAgain
  <1> QED  BY <1>4, <1>5, <1>9 DEF Inv

LEMMA StutterInv == Inv /\ UNCHANGED vars => Inv'
  <1> SUFFICES ASSUME Inv, UNCHANGED vars PROVE Inv'
    OBVIOUS
  <1>1. UNCHANGED <<file, pc, pos, recent, order, buffer, parents, orphans, slot, todo, out,
                    committed, from, staged, attempts, moved>>
    BY DEF vars, memory, disk, saved
  <1>2. ParentsKnown' /\ PhaseOK'
    BY <1>1, OutAgain DEF Inv, ParentsKnown, PhaseOK
  <1>3. TypeOK'
    BY <1>1, OutAgain, TypedAgain DEF Inv, TypeOK, OrphansOK
  <1> QED  BY <1>1, <1>2, <1>3, OutAgain DEF Inv

\* What is known holds in every state.
THEOREM Invariance == Spec => []Inv
  <1>1. Inv /\ [Next]_vars => Inv'
    BY ReadParentInv, DrainInv, ReadInvalidInv, ReadChildInv, BufferVariantInv, SpillChildInv,
       EndOfLinesInv, SpillBufferedInv, OpenBucketInv, ResolveInv, SaveInv, AgainInv, StutterInv
       DEF Next
  <1> QED  BY InvInit, <1>1, PTL DEF Spec

\* Types: in particular, every spilled line is in the bucket file of its parent.
THEOREM TypesHold == Spec => []TypeOK
  <1>1. Inv => TypeOK
    BY DEF Inv
  <1> QED  BY <1>1, Invariance, PTL

\* A child is handed on after its parent.
THEOREM ParentsAreFirst == Spec => []ParentsFirst
  <1>1. Inv => ParentsFirst
    BY DEF Inv
  <1> QED  BY <1>1, Invariance, PTL

-----------------------------------------------------------------------------
(* The contract.                                                              *)

Answers == [i \in DOMAIN file |-> IF HandedOf(i) = {} THEN "none" ELSE Contract!Right(file, i)]

\* When the verdicts are right, the answers of the contract are these.
LEMMA AnswersAre == Inv => Answered = Answers
  <1> SUFFICES ASSUME Inv PROVE Answered = Answers
    OBVIOUS
  <1>1. ASSUME NEW i \in DOMAIN file, HandedOf(i) # {}
        PROVE  out[CHOOSE k \in HandedOf(i) : TRUE].verdict = Contract!Right(file, i)
    <2>1. (CHOOSE k \in HandedOf(i) : TRUE) \in HandedOf(i)
      BY <1>1
    <2> QED  BY <2>1 DEF HandedOf, Inv, VerdictsRight
  <1> QED  BY <1>1 DEF Answers, Answered

\* A step hands on one record, begins again or leaves the records alone.
LEMMA OneRecord ==
  ASSUME Inv, Next, ~Again
  PROVE  /\ file' = file
         /\ \/ out' = out
            \/ \E i \in Numbers, v \in {"parent", "emit", "orphan", "invalid"} : Handed(i, v)
  <1>1. CASE ReadParent
    BY <1>1, LineIs DEF ReadParent, Reading
  <1>2. CASE Drain
    <2>1. \A n \in DOMAIN buffer : buffer[n] \in Numbers
      BY DEF Inv, TypeOK, Variants
    <2> QED  BY <1>2, <2>1 DEF Drain, Waiting
  <1>3. CASE ReadInvalid
    BY <1>3, LineIs DEF ReadInvalid, Reading
  <1>4. CASE ReadChild
    BY <1>4, LineIs DEF ReadChild, Reading
  <1>5. CASE Resolve
    <2>1. Head(todo) \in OfSlot(slot)
      BY <1>5 DEF Resolve, Inv, TypeOK
    <2>2. Head(todo) \in Numbers
      BY <2>1 DEF OfSlot, Placed
    <2>3. Verdict(Head(todo)) \in {"emit", "orphan"}
      BY DEF Verdict
    <2> QED  BY <1>5, <2>2, <2>3 DEF Resolve
  <1>6. CASE BufferVariant \/ SpillChild \/ EndOfLines \/ SpillBuffered \/ OpenBucket
    BY <1>6 DEF BufferVariant, SpillChild, EndOfLines, SpillBuffered, OpenBucket
  <1>7. CASE Save \/ Finish
    BY <1>7 DEF Save, Finish, memory
  <1> QED  BY <1>1, <1>2, <1>3, <1>4, <1>5, <1>6, <1>7 DEF Next

LEMMA OutSteps ==
  ASSUME Inv, [Next]_vars
  PROVE  /\ file' = file
         /\ \/ out' = out
            \/ out' = <<>>
            \/ \E i \in Numbers, v \in {"parent", "emit", "orphan", "invalid"} : Handed(i, v)
  <1>1. CASE Again \/ UNCHANGED vars
    BY <1>1 DEF Again, vars, memory
  <1> QED  BY <1>1, OneRecord

\* One record more answers its line; a line that has its answer keeps it.
LEMMA OutMapped ==
  ASSUME Inv, [Next]_vars
  PROVE  \/ Answers' = Answers
         \/ Answers' = [i \in DOMAIN file |-> "none"]
         \/ \E i \in DOMAIN file : /\ Answers[i] = "none"
                                   /\ Answers' = [Answers EXCEPT ![i] = Contract!Right(file, i)]
  <1>0. file' = file
    BY OutSteps
  <1>1. CASE out' = out
    BY <1>0, <1>1 DEF Answers, HandedOf
  <1>2. CASE out' = <<>>
    BY <1>0, <1>2 DEF Answers, HandedOf
  <1>3. CASE \E i \in Numbers, v \in {"parent", "emit", "orphan", "invalid"} : Handed(i, v)
    <2>1. PICK i \in Numbers, v \in {"parent", "emit", "orphan", "invalid"} : Handed(i, v)
      BY <1>3
    <2> DEFINE r == [line |-> i, verdict |-> v]
    <2>2. out \in Seq(Records) /\ r \in Records /\ i \in DOMAIN file
      BY DEF Inv, TypeOK, Records, Numbers
    <2>3. r.line = i
      OBVIOUS
    <2>4. /\ DOMAIN out = 1..Len(out) /\ DOMAIN out' = 1..(Len(out) + 1) /\ Len(out) \in Nat
          /\ \A k \in 1..Len(out) : out'[k] = out[k]
          /\ out'[Len(out) + 1] = r
      BY <2>1, <2>2 DEF Handed
    <2> HIDE DEF r
    <2>5. HandedOf(i)' # {} /\ \A j \in DOMAIN file : j # i => (HandedOf(j)' = {} <=> HandedOf(j) = {})
      BY <2>3, <2>4 DEF HandedOf
    <2>6. CASE HandedOf(i) = {}
      <3>1. Answers[i] = "none"
        BY <2>2, <2>6 DEF Answers
      <3>2. Answers' = [Answers EXCEPT ![i] = Contract!Right(file, i)]
        BY <1>0, <2>2, <2>5 DEF Answers
      <3> QED  BY <2>2, <3>1, <3>2
    <2>7. CASE HandedOf(i) # {}
      BY <1>0, <2>2, <2>5, <2>7 DEF Answers
    <2> QED  BY <2>6, <2>7
  <1> QED  BY <1>1, <1>2, <1>3, OutSteps

\* Stitching implements its contract: the verdict on a child is whether its parent
\* is in the result, whatever the order, the bounds and the attempts that died.
THEOREM ContractImplemented == Spec => ImplementsContract
  <1>1. Init => Contract!Init
    <2> SUFFICES ASSUME Init PROVE Contract!Init
      OBVIOUS
    <2>1. file \in Seq(Lines) /\ out = <<>>
      BY DEF Init
    <2>2. \A i : HandedOf(i) = {}
      BY <2>1 DEF HandedOf
    <2> QED  BY <2>1, <2>2 DEF Contract!Init, Contract!Unanswered, Answered
  <1>2. (Inv => Answered = Answers)'
    BY AnswersAre, PTL
  <1>3. Inv /\ Inv' /\ [Next]_vars => [Contract!Next]_<<file, Answered>>
    BY <1>2, AnswersAre, OutSteps, OutMapped
       DEF Contract!Next, Contract!Answer, Contract!Restart, Contract!Unanswered
  <1> QED  BY <1>1, <1>3, Invariance, PTL DEF Spec, ImplementsContract, Contract!Spec

-----------------------------------------------------------------------------
(* The memory.                                                                *)

Queued == {order[n] : n \in DOMAIN order}

\* recentParents holds ids of its queue, and the queue and the buffer stay within
\* their bounds.
MemoryInv ==
    /\ recent \subseteq Queued
    /\ Len(order) <= MaxParents
    /\ Len(buffer) <= MaxOrphans

\* A sequence has no more elements than places.
LEMMA RangeBounded ==
  ASSUME NEW S, NEW s \in Seq(S)
  PROVE  LET R == {s[n] : n \in DOMAIN s} IN IsFiniteSet(R) /\ Cardinality(R) <= Len(s)
  <1> DEFINE R == {s[n] : n \in 1..Len(s)}
             f == [n \in 1..Len(s) |-> s[n]]
  <1>1. Len(s) \in Nat /\ DOMAIN s = 1..Len(s)
    OBVIOUS
  <1>2. f \in Surjection(1..Len(s), R)
    BY DEF Surjection
  <1>3. IsFiniteSet(1..Len(s)) /\ Cardinality(1..Len(s)) = Len(s)
    <2>1. 1 \in Int /\ Len(s) \in Int
      BY <1>1
    <2>2. /\ IsFiniteSet(1..Len(s))
          /\ Cardinality(1..Len(s)) = IF 1 > Len(s) THEN 0 ELSE Len(s) - 1 + 1
      BY ONLY <2>1, FS_Interval
    <2> QED  BY <1>1, <2>2
  <1> HIDE DEF f, R
  <1>4. IsFiniteSet(R) /\ Cardinality(R) <= Len(s)
    BY <1>2, <1>3, FS_Surjection
  <1> QED  BY <1>1, <1>4 DEF R

LEMMA MemoryInit == Init => MemoryInv
  BY DEF Init, MemoryInv

\* recordParentId: what leaves the queue leaves the memory.
LEMMA RecordParentBounded == Inv /\ MemoryInv /\ ReadParent => MemoryInv'
  <1> SUFFICES ASSUME Inv, MemoryInv, ReadParent PROVE MemoryInv'
    OBVIOUS
  <1> DEFINE ids == Append(order, Line.id)
  <1>1. /\ order' = Kept(ids) /\ buffer' = buffer
        /\ recent' = IF Len(ids) > MaxParents THEN (recent \cup {Line.id}) \ {Head(ids)}
                                              ELSE recent \cup {Line.id}
        /\ pc = "read" /\ pos < Len(file)
    BY DEF ReadParent, Reading, RecordParent
  <1>2. order \in Seq(Ids) /\ Line.id \in Ids
    BY <1>1, LineIs DEF Inv, TypeOK
  <1>3. /\ ids \in Seq(Ids) /\ Len(ids) = Len(order) + 1 /\ ids # <<>>
        /\ Len(order) \in Nat /\ DOMAIN order = 1..Len(order) /\ DOMAIN ids = 1..(Len(order) + 1)
        /\ \A n \in 1..Len(order) : ids[n] = order[n]
        /\ ids[Len(order) + 1] = Line.id /\ Head(ids) = ids[1]
    BY <1>2
  <1> HIDE DEF ids
  <1>4. recent \cup {Line.id} \subseteq {ids[n] : n \in DOMAIN ids}
    <2>1. ASSUME NEW x \in recent PROVE \E n \in DOMAIN ids : ids[n] = x
      <3>1. PICK n \in DOMAIN order : order[n] = x
        BY <2>1 DEF MemoryInv, Queued
      <3> QED  BY <1>3, <3>1
    <2>2. \E n \in DOMAIN ids : ids[n] = Line.id
      BY <1>3
    <2> QED  BY <2>1, <2>2
  <1>5. CASE Len(ids) > MaxParents
    <2>1. order' = Tail(ids)
      BY <1>1, <1>5 DEF Kept
    <2>2. /\ Len(order') = Len(order) /\ DOMAIN order' = 1..Len(order)
          /\ \A n \in 1..Len(order) : order'[n] = ids[n + 1]
      BY <1>3, <2>1
    <2>3. ASSUME NEW x \in recent' PROVE x \in Queued'
      <3>1. x \in recent \cup {Line.id} /\ x # Head(ids)
        BY <1>1, <1>5, <2>3
      <3>2. PICK n \in DOMAIN ids : ids[n] = x
        BY <1>4, <3>1
      <3>3. n # 1 /\ n - 1 \in 1..Len(order) /\ (n - 1) + 1 = n
        BY <1>3, <3>1, <3>2
      <3>4. order'[n - 1] = x
        BY <2>2, <3>2, <3>3
      <3> QED  BY <2>2, <3>3, <3>4 DEF Queued
    <2> QED  BY <1>1, <2>2, <2>3 DEF MemoryInv
  <1>6. CASE ~(Len(ids) > MaxParents)
    <2>1. order' = ids /\ recent' = recent \cup {Line.id}
      BY <1>1, <1>6 DEF Kept
    <2> QED  BY <1>1, <1>3, <1>4, <1>6, <2>1 DEF MemoryInv, Queued
  <1> QED  BY <1>5, <1>6

LEMMA MemoryNext == Inv /\ MemoryInv /\ [Next]_vars => MemoryInv'
  <1> SUFFICES ASSUME Inv, MemoryInv, [Next]_vars PROVE MemoryInv'
    OBVIOUS
  <1>1. CASE ReadParent
    BY <1>1, RecordParentBounded
  <1>2. CASE BufferVariant
    <2>1. PICK n \in 0..Len(buffer) : Inserted(buffer, buffer', n + 1, pos + 1)
      BY <1>2, BufferedIs
    <2>2. Len(buffer) \in Nat
      BY DEF Inv, TypeOK
    <2>3. Len(buffer') = Len(buffer) + 1
      BY <2>1 DEF Inserted
    <2>4. Len(buffer) < MaxOrphans /\ recent' = recent /\ order' = order
      BY <1>2 DEF BufferVariant, Room
    <2> QED  BY <2>2, <2>3, <2>4 DEF MemoryInv, Queued
  <1>3. CASE Drain
    <2>1. recent' = recent /\ order' = order
      BY <1>3 DEF Drain
    <2>2. buffer \in Seq(Variants) /\ Len(buffer) \in Nat
      BY DEF Inv, TypeOK
    <2>3. CASE buffer' = buffer
      BY <2>1, <2>3 DEF MemoryInv, Queued
    <2>4. CASE \E n \in DOMAIN buffer : buffer' = CutOut(buffer, n)
      <3>1. PICK n \in DOMAIN buffer : buffer' \in Seq(Variants) /\ Inserted(buffer', buffer, n, buffer[n])
        BY <2>4, DrainedIs
      <3>2. Len(buffer') \in Nat /\ Len(buffer) = Len(buffer') + 1
        BY <3>1 DEF Inserted
      <3> QED  BY <2>1, <3>2 DEF MemoryInv, Queued
    <2> QED  BY <1>3, <2>3, <2>4 DEF Drain, Waiting, CutOut
  <1>4. CASE SpillBuffered
    <2>1. recent' = recent /\ order' = order /\ (buffer' = buffer \/ (buffer # <<>> /\ buffer' = Tail(buffer)))
      BY <1>4 DEF SpillBuffered
    <2>2. buffer \in Seq(Variants) /\ Len(buffer) \in Nat
      BY DEF Inv, TypeOK
    <2>3. Len(buffer') <= Len(buffer) /\ Len(buffer') \in Nat
      BY <2>1, <2>2
    <2> QED  BY <2>1, <2>2, <2>3 DEF MemoryInv, Queued
  <1>5. CASE Again
    BY <1>5 DEF Again, Remembered, MemoryInv
  <1>6. CASE ReadInvalid \/ ReadChild \/ SpillChild \/ EndOfLines \/ OpenBucket \/ Resolve
             \/ Save \/ Finish \/ UNCHANGED vars
    <2>1. recent' = recent /\ order' = order /\ buffer' = buffer
      BY <1>6 DEF ReadInvalid, ReadChild, SpillChild, EndOfLines, OpenBucket, Resolve, Save, Finish,
                  vars, memory
    <2> QED  BY <2>1 DEF MemoryInv, Queued
  <1> QED  BY <1>1, <1>2, <1>3, <1>4, <1>5, <1>6 DEF Next

\* The memory is bounded whatever the result holds: also by parents that come again,
\* whose id is in the queue twice and leaves the memory with its first place.
THEOREM MemoryIsBounded == Spec => []MemoryBounded
  <1>1. Inv /\ MemoryInv => MemoryBounded
    <2> SUFFICES ASSUME Inv, MemoryInv PROVE MemoryBounded
      OBVIOUS
    <2>1. order \in Seq(Ids) /\ Len(order) \in Nat
      BY DEF Inv, TypeOK
    <2>2. IsFiniteSet(Queued) /\ Cardinality(Queued) <= Len(order)
      BY <2>1, RangeBounded DEF Queued
    <2>3. IsFiniteSet(recent) /\ Cardinality(recent) <= Cardinality(Queued)
      BY <2>2, FS_Subset DEF MemoryInv
    <2>4. Cardinality(recent) \in Nat /\ Cardinality(Queued) \in Nat
      BY <2>2, <2>3, FS_CardinalityType
    <2> QED  BY <2>1, <2>2, <2>3, <2>4 DEF MemoryBounded, MemoryInv
  <1> QED  BY <1>1, MemoryInit, MemoryNext, Invariance, PTL DEF Spec

-----------------------------------------------------------------------------
(* The lines that are answered.                                               *)

Copies(s, i) == Cardinality({k \in DOMAIN s : s[k] = i})

LEMMA CopiesTyped ==
  ASSUME NEW S, NEW s \in Seq(S), NEW i
  PROVE  IsFiniteSet({k \in DOMAIN s : s[k] = i}) /\ Copies(s, i) \in Nat
  <1>1. Len(s) \in Nat /\ DOMAIN s = 1..Len(s)
    OBVIOUS
  <1>2. 1 \in Int /\ Len(s) \in Int
    BY <1>1
  <1>3. IsFiniteSet(1..Len(s))
    BY ONLY <1>2, FS_Interval
  <1>4. {k \in DOMAIN s : s[k] = i} \in SUBSET (1..Len(s))
    BY <1>1
  <1>5. IsFiniteSet({k \in DOMAIN s : s[k] = i})
    BY ONLY <1>3, <1>4, FS_Subset
  <1> QED  BY <1>5, FS_CardinalityType DEF Copies

\* An element that is put into a sequence is there once more.
LEMMA CopiesInserted ==
  ASSUME NEW S, NEW s \in Seq(S), NEW t \in Seq(S), NEW p, NEW x, Inserted(s, t, p, x), NEW i
  PROVE  Copies(t, i) = Copies(s, i) + (IF x = i THEN 1 ELSE 0)
  <1> DEFINE A == {k \in DOMAIN s : s[k] = i}
             B == {k \in DOMAIN t : t[k] = i}
             f == [k \in A |-> IF k < p THEN k ELSE k + 1]
  <1>1. /\ Len(s) \in Nat /\ DOMAIN s = 1..Len(s) /\ DOMAIN t = 1..(Len(s) + 1)
        /\ p \in 1..(Len(s) + 1) /\ t[p] = x
        /\ \A n \in 1..Len(s) : t[IF n < p THEN n ELSE n + 1] = s[n]
    BY DEF Inserted
  <1>2. IsFiniteSet(A) /\ IsFiniteSet(B) /\ Copies(s, i) = Cardinality(A) /\ Copies(t, i) = Cardinality(B)
    BY CopiesTyped DEF Copies
  <1>3. \A k \in A : k \in 1..Len(s) /\ s[k] = i
    BY <1>1
  <1>4. \A k \in DOMAIN t : k \in B <=> t[k] = i
    OBVIOUS
  <1>5. p \in B <=> x = i
    BY <1>1, <1>4
  <1>6. ASSUME NEW k \in A PROVE f[k] \in B \ {p}
    <2>1. k \in 1..Len(s) /\ t[f[k]] = i
      BY <1>1, <1>3
    <2>2. f[k] \in 1..(Len(s) + 1) /\ f[k] # p
      BY <1>1, <2>1
    <2> QED  BY <1>1, <1>4, <2>1, <2>2
  <1>7. ASSUME NEW k \in A, NEW l \in A, f[k] = f[l] PROVE k = l
    BY <1>1, <1>3, <1>7
  <1>8. ASSUME NEW m \in B \ {p} PROVE \E k \in A : f[k] = m
    <2> DEFINE k == IF m < p THEN m ELSE m - 1
    <2>1. m \in 1..(Len(s) + 1) /\ m # p /\ t[m] = i
      BY <1>1
    <2>2. k \in 1..Len(s) /\ (IF k < p THEN k ELSE k + 1) = m
      BY <1>1, <2>1
    <2>3. s[k] = i
      BY <1>1, <2>1, <2>2
    <2> QED  BY <1>1, <2>2, <2>3
  <1> HIDE DEF A, B
  <1>9. f \in Bijection(A, B \ {p})
    BY <1>6, <1>7, <1>8 DEF Bijection, Injection, Surjection, IsInjective
  <1>10. ExistsBijection(A, B \ {p})
    BY <1>9 DEF ExistsBijection
  <1>11. Cardinality(B \ {p}) = Cardinality(A)
    BY <1>2, <1>10, FS_Bijection
  <1>12. Cardinality(B \ {p}) = IF p \in B THEN Cardinality(B) - 1 ELSE Cardinality(B)
    BY <1>2, FS_RemoveElement
  <1>13. Cardinality(A) \in Nat /\ Cardinality(B) \in Nat
    BY <1>2, FS_CardinalityType
  <1> QED  BY <1>2, <1>5, <1>11, <1>12, <1>13

\* An element at the end, and the first one.
LEMMA AppendedIs ==
  ASSUME NEW S, NEW s \in Seq(S), NEW x \in S
  PROVE  Append(s, x) \in Seq(S) /\ Inserted(s, Append(s, x), Len(s) + 1, x)
  <1>1. Len(s) \in Nat /\ Append(s, x) \in Seq(S) /\ Len(Append(s, x)) = Len(s) + 1
    OBVIOUS
  <1>2. Append(s, x)[Len(s) + 1] = x /\ \A n \in 1..Len(s) : Append(s, x)[n] = s[n]
    OBVIOUS
  <1> QED  BY <1>1, <1>2 DEF Inserted

LEMMA HeadedIs ==
  ASSUME NEW S, NEW s \in Seq(S), s # <<>>
  PROVE  Tail(s) \in Seq(S) /\ Inserted(Tail(s), s, 1, Head(s)) /\ Head(s) \in S
  <1>1. /\ Len(s) \in Nat /\ Len(s) >= 1 /\ Tail(s) \in Seq(S) /\ Len(Tail(s)) = Len(s) - 1
        /\ Head(s) = s[1] /\ Head(s) \in S
    OBVIOUS
  <1>2. \A n \in 1..(Len(s) - 1) : Tail(s)[n] = s[n + 1]
    OBVIOUS
  <1> QED  BY <1>1, <1>2 DEF Inserted

\* The place of a child's bucket file among those finalize opens.
Nth(kind) == IF kind = "variant" THEN 0 ELSE IF kind = "metafield" THEN 1 ELSE 2
SlotOf(i) == 3 * Bucket[file[i].parent] + Nth(file[i].kind)

IsChild(i) == file[i].kind \in ChildKinds
FileOf(i) == orphans[<<file[i].kind, Bucket[file[i].parent]>>]

\* How often a line is in its bucket file, in what is still to be resolved, in the
\* buffer, among the records and among the lines to be read.
InFile(i) == IF IsChild(i) THEN Copies(FileOf(i), i) ELSE 0
Ahead(i) == IF ~IsChild(i) THEN 0
            ELSE IF slot <= SlotOf(i) THEN InFile(i)
            ELSE IF slot = SlotOf(i) + 1 THEN Copies(todo, i) ELSE 0
Held(i) == Copies(buffer, i)
Given(i) == Cardinality(HandedOf(i))
Unread(i) == IF i > pos THEN 1 ELSE 0

\* A line is in its file no more often than attempts put it there; it is owed, by
\* the buffer or by a file, or handed on no more often than that, and, once it
\* has been read, at least once.
CountedAt(i) ==
    /\ InFile(i) + Held(i) + Unread(i) <= attempts
    /\ Given(i) + Held(i) + Ahead(i) + Unread(i) <= attempts
    /\ Unread(i) = 0 => Given(i) + Held(i) + Ahead(i) >= 1

\* What is empty when.
Emptied ==
    /\ pc \in {"resolve", "done"} => buffer = <<>>
    /\ pc \in {"read", "drain", "spill"} => slot = 0 /\ todo = <<>>
    /\ pc = "done" => slot = Slots /\ todo = <<>>

AnswerInv == Emptied /\ \A i \in Numbers : CountedAt(i)

LEMMA SlotOfIs ==
  ASSUME Inv, NEW i \in Numbers, IsChild(i)
  PROVE  /\ Bucket[file[i].parent] \in 0..(Buckets - 1)
         /\ SlotOf(i) \in 0..(Slots - 1)
         /\ KindOf(SlotOf(i)) = file[i].kind /\ BucketOf(SlotOf(i)) = Bucket[file[i].parent]
         /\ \A n \in 0..(Slots - 1) : KindOf(n) = file[i].kind /\ BucketOf(n) = Bucket[file[i].parent]
                                      => n = SlotOf(i)
  <1> DEFINE b == Bucket[file[i].parent]
             k == file[i].kind
  <1>1. b \in 0..(Buckets - 1) /\ k \in {"variant", "metafield", "level"}
    BY RightIs DEF Inv, TypeOK, Numbers, IsChild, ChildKinds
  <1>2. SlotOf(i) = 3 * b + Nth(k)
    BY DEF SlotOf
  <1> HIDE DEF b, k
  <1>3. Nth(k) \in 0..2 /\ SlotOf(i) \in 0..(3 * Buckets - 1)
    BY <1>1, <1>2 DEF Nth
  <1>4. SlotOf(i) % 3 = Nth(k) /\ SlotOf(i) \div 3 = b
    BY <1>1, <1>2, <1>3
  <1>5. KindOf(SlotOf(i)) = k /\ BucketOf(SlotOf(i)) = b
    BY <1>1, <1>4 DEF KindOf, BucketOf, Nth
  <1>6. ASSUME NEW n \in 0..(Slots - 1), KindOf(n) = k, BucketOf(n) = b PROVE n = SlotOf(i)
    <2>1. n \in Nat /\ n % 3 \in 0..2 /\ n = 3 * (n \div 3) + (n % 3)
      BY <1>6 DEF Slots
    <2>2. n % 3 = Nth(k)
      BY <1>1, <1>6, <2>1 DEF KindOf, Nth
    <2> QED  BY <1>2, <1>6, <2>1, <2>2 DEF BucketOf
  <1> QED  BY <1>1, <1>3, <1>5, <1>6 DEF Slots, b, k

\* The counts are numbers.
LEMMA CountsTyped ==
  ASSUME TypeOK, NEW i \in Numbers
  PROVE  InFile(i) \in Nat /\ Ahead(i) \in Nat /\ Held(i) \in Nat /\ Given(i) \in Nat /\ Unread(i) \in Nat
  <1>1. Unread(i) \in Nat
    BY DEF Unread
  <1>2. Held(i) \in Nat
    <2>1. buffer \in Seq(Variants)
      BY DEF TypeOK
    <2> QED  BY ONLY <2>1, CopiesTyped DEF Held
  <1>3. InFile(i) \in Nat
    <2> SUFFICES ASSUME IsChild(i) PROVE Copies(FileOf(i), i) \in Nat
      BY DEF InFile
    <2>1. Bucket[file[i].parent] \in 0..(Buckets - 1)
      BY RightIs DEF TypeOK, Numbers
    <2>2. FileOf(i) \in Seq(Numbers)
      BY <2>1 DEF TypeOK, FileOf, IsChild
    <2> QED  BY ONLY <2>2, CopiesTyped
  <1>4. Copies(todo, i) \in Nat
    <2>1. todo \in Seq(OfSlot(slot))
      BY DEF TypeOK
    <2> QED  BY ONLY <2>1, CopiesTyped
  <1>5. Ahead(i) \in Nat
    BY <1>3, <1>4 DEF Ahead
  <1>6. Given(i) \in Nat
    <2>1. Len(out) \in Nat /\ HandedOf(i) \in SUBSET (1..Len(out))
      <3>1. out \in Seq(Records)
        BY DEF TypeOK
      <3>2. Len(out) \in Nat /\ DOMAIN out = 1..Len(out)
        BY ONLY <3>1
      <3> QED  BY ONLY <3>2 DEF HandedOf
    <2>2. 1 \in Int /\ Len(out) \in Int
      BY <2>1
    <2>3. IsFiniteSet(1..Len(out))
      BY ONLY <2>2, FS_Interval
    <2>4. IsFiniteSet(HandedOf(i))
      BY ONLY <2>1, <2>3, FS_Subset
    <2> QED  BY <2>4, FS_CardinalityType DEF Given
  <1> QED  BY <1>1, <1>2, <1>3, <1>5, <1>6

\* How the counts of a line change in a step: one of them goes up as another goes
\* down, or none does.
Change(i, unread, held, infile, ahead, given) ==
    /\ Unread(i)' = Unread(i) + unread /\ Held(i)' = Held(i) + held
    /\ InFile(i)' = InFile(i) + infile /\ Ahead(i)' = Ahead(i) + ahead
    /\ Given(i)' = Given(i) + given

Changes(i) ==
    \/ Change(i, 0, 0, 0, 0, 0)
    \/ Change(i, -1, 0, 0, 0, 1)     \* read and handed on,
    \/ Change(i, -1, 1, 0, 0, 0)     \* buffered
    \/ Change(i, -1, 0, 1, 1, 0)     \* or spilled
    \/ Change(i, 0, -1, 0, 0, 1)     \* drained from the buffer
    \/ Change(i, 0, -1, 1, 1, 0)     \* or spilled from it
    \/ Change(i, 0, 0, 0, -1, 1)     \* resolved

LEMMA CountsTypedThen ==
  (TypeOK => \A j \in Numbers : /\ InFile(j) \in Nat /\ Ahead(j) \in Nat /\ Held(j) \in Nat
                                /\ Given(j) \in Nat /\ Unread(j) \in Nat)'
  <1>1. TypeOK => \A j \in Numbers : /\ InFile(j) \in Nat /\ Ahead(j) \in Nat /\ Held(j) \in Nat
                                     /\ Given(j) \in Nat /\ Unread(j) \in Nat
    BY CountsTyped
  <1> QED  BY <1>1, PTL

\* The same, as numbers.
LEMMA CountedSums ==
  ASSUME NEW n \in Nat,
         NEW f \in Nat, NEW a \in Nat, NEW h \in Nat, NEW g \in Nat, NEW u \in Nat,
         NEW f2 \in Nat, NEW a2 \in Nat, NEW h2 \in Nat, NEW g2 \in Nat, NEW u2 \in Nat,
         f + h + u <= n, g + h + a + u <= n, u = 0 => g + h + a >= 1,
         \/ u2 = u /\ h2 = h /\ f2 = f /\ a2 = a /\ g2 = g
         \/ u2 = u - 1 /\ h2 = h /\ f2 = f /\ a2 = a /\ g2 = g + 1
         \/ u2 = u - 1 /\ h2 = h + 1 /\ f2 = f /\ a2 = a /\ g2 = g
         \/ u2 = u - 1 /\ h2 = h /\ f2 = f + 1 /\ a2 = a + 1 /\ g2 = g
         \/ u2 = u /\ h2 = h - 1 /\ f2 = f /\ a2 = a /\ g2 = g + 1
         \/ u2 = u /\ h2 = h - 1 /\ f2 = f + 1 /\ a2 = a + 1 /\ g2 = g
         \/ u2 = u /\ h2 = h /\ f2 = f /\ a2 = a - 1 /\ g2 = g + 1
  PROVE  f2 + h2 + u2 <= n /\ g2 + h2 + a2 + u2 <= n /\ (u2 = 0 => g2 + h2 + a2 >= 1)
  OBVIOUS

LEMMA CountedAgain ==
  ASSUME TypeOK, TypeOK', NEW i \in Numbers, file' = file, attempts' = attempts,
         CountedAt(i), Changes(i)
  PROVE  CountedAt(i)'
  <1>1. /\ InFile(i) \in Nat /\ Ahead(i) \in Nat /\ Held(i) \in Nat /\ Given(i) \in Nat
        /\ Unread(i) \in Nat
    BY CountsTyped
  <1>2. attempts \in Nat
    BY DEF TypeOK
  <1>3. /\ InFile(i)' \in Nat /\ Ahead(i)' \in Nat /\ Held(i)' \in Nat /\ Given(i)' \in Nat
        /\ Unread(i)' \in Nat
    <2>1. Numbers' = Numbers
      BY DEF Numbers
    <2> QED  BY <2>1, CountsTypedThen
  <1>4. \/ /\ Unread(i)' = Unread(i) /\ Held(i)' = Held(i) /\ InFile(i)' = InFile(i)
           /\ Ahead(i)' = Ahead(i) /\ Given(i)' = Given(i)
        \/ /\ Unread(i)' = Unread(i) - 1 /\ Held(i)' = Held(i) /\ InFile(i)' = InFile(i)
           /\ Ahead(i)' = Ahead(i) /\ Given(i)' = Given(i) + 1
        \/ /\ Unread(i)' = Unread(i) - 1 /\ Held(i)' = Held(i) + 1 /\ InFile(i)' = InFile(i)
           /\ Ahead(i)' = Ahead(i) /\ Given(i)' = Given(i)
        \/ /\ Unread(i)' = Unread(i) - 1 /\ Held(i)' = Held(i) /\ InFile(i)' = InFile(i) + 1
           /\ Ahead(i)' = Ahead(i) + 1 /\ Given(i)' = Given(i)
        \/ /\ Unread(i)' = Unread(i) /\ Held(i)' = Held(i) - 1 /\ InFile(i)' = InFile(i)
           /\ Ahead(i)' = Ahead(i) /\ Given(i)' = Given(i) + 1
        \/ /\ Unread(i)' = Unread(i) /\ Held(i)' = Held(i) - 1 /\ InFile(i)' = InFile(i) + 1
           /\ Ahead(i)' = Ahead(i) + 1 /\ Given(i)' = Given(i)
        \/ /\ Unread(i)' = Unread(i) /\ Held(i)' = Held(i) /\ InFile(i)' = InFile(i)
           /\ Ahead(i)' = Ahead(i) - 1 /\ Given(i)' = Given(i) + 1
    BY <1>1 DEF Changes, Change
  <1>5. /\ InFile(i) + Held(i) + Unread(i) <= attempts
        /\ Given(i) + Held(i) + Ahead(i) + Unread(i) <= attempts
        /\ Unread(i) = 0 => Given(i) + Held(i) + Ahead(i) >= 1
    BY DEF CountedAt
  <1>6. /\ InFile(i)' + Held(i)' + Unread(i)' <= attempts
        /\ Given(i)' + Held(i)' + Ahead(i)' + Unread(i)' <= attempts
        /\ Unread(i)' = 0 => Given(i)' + Held(i)' + Ahead(i)' >= 1
    BY ONLY <1>1, <1>2, <1>3, <1>4, <1>5, CountedSums
  <1> QED  BY <1>6 DEF CountedAt

\* What leaves the files that are open and to be opened alone leaves what they owe.
LEMMA FilesAgain ==
  ASSUME NEW i, file' = file, orphans' = orphans
  PROVE  /\ InFile(i)' = InFile(i)
         /\ slot' = slot /\ todo' = todo => Ahead(i)' = Ahead(i)
  BY DEF InFile, Ahead, FileOf, IsChild, SlotOf, Copies

\* A record more.
LEMMA GivenNow ==
  ASSUME Inv, file' = file, NEW i \in Numbers, NEW v \in {"parent", "emit", "orphan", "invalid"},
         Handed(i, v), NEW j \in Numbers
  PROVE  Given(j)' = Given(j) + (IF i = j THEN 1 ELSE 0)
  <1> DEFINE r == [line |-> i, verdict |-> v]
  <1>1. out \in Seq(Records) /\ r \in Records /\ r.line = i
    BY DEF Inv, TypeOK, Records
  <1>2. /\ DOMAIN out = 1..Len(out) /\ DOMAIN out' = 1..(Len(out) + 1) /\ Len(out) \in Nat
        /\ \A k \in 1..Len(out) : out'[k] = out[k]
        /\ out'[Len(out) + 1] = r
    BY <1>1 DEF Handed
  <1> HIDE DEF r
  <1>3. HandedOf(j)' = IF i = j THEN HandedOf(j) \cup {Len(out) + 1} ELSE HandedOf(j)
    BY <1>1, <1>2 DEF HandedOf
  <1>4. Len(out) + 1 \notin HandedOf(j)
    BY <1>2 DEF HandedOf
  <1>5. IsFiniteSet(HandedOf(j))
    <2>1. HandedOf(j) \in SUBSET (1..Len(out))
      BY <1>2 DEF HandedOf
    <2>2. 1 \in Int /\ Len(out) \in Int
      BY <1>2
    <2>3. IsFiniteSet(1..Len(out))
      BY ONLY <2>2, FS_Interval
    <2> QED  BY ONLY <2>1, <2>3, FS_Subset
  <1>6. Cardinality(HandedOf(j) \cup {Len(out) + 1}) = Cardinality(HandedOf(j)) + 1
    BY <1>4, <1>5, FS_AddElement
  <1>7. Given(j) \in Nat
    BY <1>5, FS_CardinalityType DEF Given
  <1> QED  BY <1>3, <1>6, <1>7 DEF Given

LEMMA GivenAgain == ASSUME NEW j, out' = out PROVE Given(j)' = Given(j)
  BY DEF Given, HandedOf

\* A line less to read.
LEMMA UnreadNow ==
  ASSUME Inv, pc = "read", pos < Len(file), pos' = pos + 1, NEW j \in Numbers
  PROVE  Unread(j)' = Unread(j) + (IF j = pos + 1 THEN -1 ELSE 0)
  BY LineIs DEF Unread, Numbers

-----------------------------------------------------------------------------
(* How the counts change, action by action.                                   *)

LEMMA AnswerReadGiven ==
  ASSUME Inv, AnswerInv, ReadParent \/ ReadInvalid \/ ReadChild
  PROVE  Emptied' /\ \A i \in Numbers : Changes(i)
  <1>1. /\ pc = "read" /\ pos < Len(file) /\ pos' = pos + 1 /\ pc' \in {"read", "drain"}
        /\ UNCHANGED <<file, buffer, orphans, slot, todo>>
    BY DEF ReadParent, ReadInvalid, ReadChild, Reading, disk
  <1>2. PICK v \in {"parent", "emit", "orphan", "invalid"} : Handed(pos + 1, v)
    BY DEF ReadParent, ReadInvalid, ReadChild
  <1>3. ASSUME NEW i \in Numbers PROVE Changes(i)
    <2>1. Given(i)' = Given(i) + (IF pos + 1 = i THEN 1 ELSE 0)
      BY <1>1, <1>2, LineIs, GivenNow
    <2>2. Unread(i)' = Unread(i) + (IF i = pos + 1 THEN -1 ELSE 0)
      BY <1>1, UnreadNow
    <2>3. InFile(i)' = InFile(i) /\ Ahead(i)' = Ahead(i) /\ Held(i)' = Held(i)
      BY <1>1, FilesAgain DEF Held, Copies
    <2>4. InFile(i) \in Nat /\ Ahead(i) \in Nat /\ Held(i) \in Nat
      BY CountsTyped DEF Inv
    <2> QED  BY <2>1, <2>2, <2>3, <2>4 DEF Changes, Change
  <1> QED  BY <1>1, <1>3 DEF AnswerInv, Emptied

LEMMA AnswerDrain ==
  ASSUME Inv, AnswerInv, Drain
  PROVE  Emptied' /\ \A i \in Numbers : Changes(i)
  <1>1. /\ pc = "drain" /\ pc' \in {"read", "drain"}
        /\ UNCHANGED <<file, pos, orphans, slot, todo>>
    BY DEF Drain, disk
  <1>2. ASSUME NEW i \in Numbers PROVE Changes(i)
    <2>1. /\ InFile(i)' = InFile(i) /\ Ahead(i)' = Ahead(i) /\ Unread(i)' = Unread(i)
          /\ InFile(i) \in Nat /\ Ahead(i) \in Nat /\ Unread(i) \in Nat
          /\ Held(i) \in Nat /\ Given(i) \in Nat
      BY <1>1, FilesAgain, CountsTyped DEF Inv, Unread
    <2>2. CASE UNCHANGED <<buffer, out>>
      <3>1. Given(i)' = Given(i) /\ Held(i)' = Held(i)
        BY <2>2, GivenAgain DEF Held, Copies
      <3> QED  BY <2>1, <3>1 DEF Changes, Change
    <2>3. CASE \E n \in DOMAIN buffer : Handed(buffer[n], "emit") /\ buffer' = CutOut(buffer, n)
      <3>1. PICK n \in DOMAIN buffer : Handed(buffer[n], "emit") /\ buffer' = CutOut(buffer, n)
        BY <2>3
      <3>2. buffer' \in Seq(Variants) /\ Inserted(buffer', buffer, n, buffer[n])
        BY <3>1, DrainedIs
      <3>3. buffer \in Seq(Variants)
        BY DEF Inv, TypeOK
      <3>4. buffer[n] \in Numbers
        BY <3>3 DEF Variants
      <3>5. Copies(buffer, i) = Copies(buffer', i) + (IF buffer[n] = i THEN 1 ELSE 0)
        BY ONLY <3>2, <3>3, CopiesInserted
      <3>6. Given(i)' = Given(i) + (IF buffer[n] = i THEN 1 ELSE 0)
        BY <1>1, <3>1, <3>4, GivenNow
      <3>7. Copies(buffer', i) \in Nat /\ Held(i)' = Copies(buffer', i)
        BY ONLY <3>2, CopiesTyped DEF Held, Copies
      <3> QED  BY <2>1, <3>5, <3>6, <3>7 DEF Changes, Change, Held
    <2> QED  BY <2>2, <2>3 DEF Drain, Waiting, CutOut
  <1> QED  BY <1>1, <1>2 DEF AnswerInv, Emptied

LEMMA AnswerBuffer ==
  ASSUME Inv, AnswerInv, BufferVariant
  PROVE  Emptied' /\ \A i \in Numbers : Changes(i)
  <1>1. /\ pc = "read" /\ pos < Len(file) /\ pos' = pos + 1 /\ pc' = pc
        /\ UNCHANGED <<file, orphans, slot, todo, out>>
    BY DEF BufferVariant, Reading, disk
  <1>2. PICK n \in 0..Len(buffer) : /\ buffer' \in Seq(Variants)
                                   /\ Inserted(buffer, buffer', n + 1, pos + 1)
    BY BufferedIs
  <1>3. buffer \in Seq(Variants)
    BY DEF Inv, TypeOK
  <1>4. ASSUME NEW i \in Numbers PROVE Changes(i)
    <2>1. /\ InFile(i)' = InFile(i) /\ Ahead(i)' = Ahead(i) /\ Given(i)' = Given(i)
          /\ InFile(i) \in Nat /\ Ahead(i) \in Nat /\ Given(i) \in Nat /\ Held(i) \in Nat
      BY <1>1, FilesAgain, GivenAgain, CountsTyped DEF Inv
    <2>2. Unread(i)' = Unread(i) + (IF i = pos + 1 THEN -1 ELSE 0)
      BY <1>1, UnreadNow
    <2>3. Copies(buffer', i) = Copies(buffer, i) + (IF pos + 1 = i THEN 1 ELSE 0)
      BY ONLY <1>2, <1>3, CopiesInserted
    <2>4. Held(i)' = Copies(buffer', i)
      BY DEF Held, Copies
    <2> QED  BY <2>1, <2>2, <2>3, <2>4 DEF Changes, Change, Held
  <1> QED  BY <1>1, <1>4 DEF AnswerInv, Emptied

\* A line spilled is once more in its file, and owed once more.
LEMMA SpilledNow ==
  ASSUME Inv, slot = 0, slot' = 0, file' = file, NEW i \in Numbers, IsChild(i),
         orphans' = Spilled(i), NEW j \in Numbers
  PROVE  /\ InFile(j)' = InFile(j) + (IF i = j THEN 1 ELSE 0)
         /\ Ahead(j)' = Ahead(j) + (IF i = j THEN 1 ELSE 0)
  <1> DEFINE kb(l) == <<file[l].kind, Bucket[file[l].parent]>>
             s == orphans[kb(i)]
  <1>1. orphans \in [ChildKinds \X (0..(Buckets - 1)) -> Seq(Numbers)]
    BY DEF Inv, TypeOK
  <1>2. \A l \in Numbers : IsChild(l) => kb(l) \in ChildKinds \X (0..(Buckets - 1))
    BY SlotOfIs DEF IsChild
  <1>3. s \in Seq(Numbers)
    BY <1>1, <1>2
  <1>4. orphans' = [orphans EXCEPT ![kb(i)] = Append(s, i)]
    BY DEF Spilled
  <1>5. \A l : FileOf(l) = orphans[kb(l)] /\ FileOf(l)' = orphans'[kb(l)] /\ IsChild(l)' = IsChild(l)
    BY DEF FileOf, IsChild
  <1> HIDE DEF kb, s
  <1>6. InFile(j)' = InFile(j) + (IF i = j THEN 1 ELSE 0)
    <2>2. CASE IsChild(j)
      <3>1. InFile(j)' = Copies(orphans'[kb(j)], j) /\ InFile(j) = Copies(orphans[kb(j)], j)
        BY <1>5, <2>2 DEF InFile, Copies
      <3>2. CASE kb(j) = kb(i)
        <4> DEFINE t == Append(s, i)
        <4>1. orphans'[kb(j)] = t /\ orphans[kb(j)] = s
          BY <1>1, <1>2, <1>4, <3>2 DEF s
        <4>2. t \in Seq(Numbers) /\ Inserted(s, t, Len(s) + 1, i)
          BY ONLY <1>3, AppendedIs
        <4> HIDE DEF t
        <4>3. Copies(t, j) = Copies(s, j) + (IF i = j THEN 1 ELSE 0)
          BY ONLY <1>3, <4>2, CopiesInserted
        <4> QED  BY ONLY <3>1, <4>1, <4>3
      <3>3. CASE kb(j) # kb(i)
        <4>1. orphans'[kb(j)] = orphans[kb(j)] /\ i # j
          BY <1>1, <1>2, <1>4, <2>2, <3>3
        <4>2. InFile(j) \in Nat
          BY CountsTyped DEF Inv
        <4> QED  BY ONLY <3>1, <4>1, <4>2
      <3> QED  BY <3>2, <3>3
    <2>4. CASE ~IsChild(j)
      <3>1. InFile(j)' = 0 /\ InFile(j) = 0 /\ i # j
        BY <1>5, <2>4 DEF InFile
      <3> QED  BY ONLY <3>1
    <2> QED  BY <2>2, <2>4
  <1>7. ASSUME IsChild(j) PROVE Ahead(j) = InFile(j) /\ Ahead(j)' = InFile(j)'
    <2>1. SlotOf(j) \in Nat /\ SlotOf(j)' = SlotOf(j)
      BY <1>7, SlotOfIs DEF SlotOf, Slots
    <2> QED  BY <1>5, <1>7, <2>1 DEF Ahead
  <1>8. ASSUME ~IsChild(j) PROVE Ahead(j) = 0 /\ Ahead(j)' = 0 /\ i # j
    BY <1>5, <1>8 DEF Ahead
  <1> QED  BY <1>6, <1>7, <1>8

LEMMA AnswerSpill ==
  ASSUME Inv, AnswerInv, SpillChild
  PROVE  Emptied' /\ \A i \in Numbers : Changes(i)
  <1>1. /\ pc = "read" /\ pos < Len(file) /\ pos' = pos + 1 /\ pc' = pc /\ IsChild(pos + 1)
        /\ orphans' = Spilled(pos + 1)
        /\ UNCHANGED <<file, buffer, slot, todo, out>>
    BY DEF SpillChild, Reading, Line, IsChild
  <1>2. slot = 0 /\ pos + 1 \in Numbers
    BY <1>1, LineIs DEF AnswerInv, Emptied
  <1>3. ASSUME NEW i \in Numbers PROVE Changes(i)
    <2>1. Given(i)' = Given(i) /\ Held(i)' = Held(i) /\ Given(i) \in Nat /\ Held(i) \in Nat
      BY <1>1, GivenAgain, CountsTyped DEF Inv, Held, Copies
    <2>2. Unread(i)' = Unread(i) + (IF i = pos + 1 THEN -1 ELSE 0)
      BY <1>1, UnreadNow
    <2>3. /\ InFile(i)' = InFile(i) + (IF pos + 1 = i THEN 1 ELSE 0)
          /\ Ahead(i)' = Ahead(i) + (IF pos + 1 = i THEN 1 ELSE 0)
      BY <1>1, <1>2, SpilledNow
    <2> QED  BY <2>1, <2>2, <2>3 DEF Changes, Change
  <1> QED  BY <1>1, <1>3 DEF AnswerInv, Emptied

LEMMA AnswerEnd ==
  ASSUME Inv, AnswerInv, EndOfLines \/ Save
  PROVE  Emptied' /\ \A i \in Numbers : Changes(i)
  <1>1. /\ pc' = pc \/ (pc = "read" /\ pc' = "spill")
        /\ UNCHANGED <<file, pos, buffer, orphans, slot, todo, out>>
    BY DEF EndOfLines, Save, memory, disk
  <1>2. ASSUME NEW i \in Numbers PROVE Changes(i)
    <2>1. /\ InFile(i)' = InFile(i) /\ Ahead(i)' = Ahead(i) /\ Given(i)' = Given(i)
          /\ Unread(i)' = Unread(i) /\ Held(i)' = Held(i)
      BY <1>1, FilesAgain, GivenAgain DEF Unread, Held, Copies
    <2>2. /\ InFile(i) \in Nat /\ Ahead(i) \in Nat /\ Given(i) \in Nat /\ Unread(i) \in Nat
          /\ Held(i) \in Nat
      BY CountsTyped DEF Inv
    <2> QED  BY <2>1, <2>2 DEF Changes, Change
  <1> QED  BY <1>1, <1>2 DEF AnswerInv, Emptied

LEMMA AnswerSpillBuffered ==
  ASSUME Inv, AnswerInv, SpillBuffered
  PROVE  Emptied' /\ \A i \in Numbers : Changes(i)
  <1>1. /\ pc = "spill" /\ UNCHANGED <<file, pos, slot, todo, out>>
        /\ \/ buffer = <<>> /\ pc' = "resolve" /\ UNCHANGED <<buffer, orphans>>
           \/ /\ buffer # <<>> /\ pc' = pc
              /\ orphans' = Spilled(Head(buffer)) /\ buffer' = Tail(buffer)
    BY DEF SpillBuffered
  <1>2. slot = 0 /\ todo = <<>>
    BY <1>1 DEF AnswerInv, Emptied
  <1>3. Emptied'
    BY <1>1, <1>2 DEF Emptied
  <1>4. ASSUME NEW i \in Numbers PROVE Changes(i)
    <2>1. /\ Given(i)' = Given(i) /\ Unread(i)' = Unread(i)
          /\ Given(i) \in Nat /\ Unread(i) \in Nat /\ Held(i) \in Nat
          /\ InFile(i) \in Nat /\ Ahead(i) \in Nat
      BY <1>1, GivenAgain, CountsTyped DEF Inv, Unread
    <2>2. CASE UNCHANGED <<buffer, orphans>>
      <3>1. InFile(i)' = InFile(i) /\ Ahead(i)' = Ahead(i) /\ Held(i)' = Held(i)
        BY <1>1, <2>2, FilesAgain DEF Held, Copies
      <3> QED  BY <2>1, <3>1 DEF Changes, Change
    <2>3. CASE buffer # <<>> /\ orphans' = Spilled(Head(buffer)) /\ buffer' = Tail(buffer)
      <3> DEFINE h == Head(buffer)
      <3>1. buffer \in Seq(Variants)
        BY DEF Inv, TypeOK
      <3>2. Tail(buffer) \in Seq(Variants) /\ Inserted(Tail(buffer), buffer, 1, h) /\ h \in Variants
        BY <2>3, <3>1, HeadedIs
      <3>3. buffer' \in Seq(Variants) /\ Inserted(buffer', buffer, 1, h)
        BY <2>3, <3>2
      <3> HIDE DEF h
      <3>4. Copies(buffer, i) = Copies(buffer', i) + (IF h = i THEN 1 ELSE 0)
        BY ONLY <3>1, <3>3, CopiesInserted
      <3>5. Copies(buffer', i) \in Nat
        BY ONLY <3>3, CopiesTyped
      <3>6. Held(i)' = Copies(buffer', i) /\ Held(i) = Copies(buffer, i)
        BY DEF Held, Copies
      <3>7. h \in Numbers /\ IsChild(h) /\ orphans' = Spilled(h)
        BY <2>3, <3>2 DEF h, Variants, IsChild, ChildKinds
      <3>8. /\ InFile(i)' = InFile(i) + (IF h = i THEN 1 ELSE 0)
            /\ Ahead(i)' = Ahead(i) + (IF h = i THEN 1 ELSE 0)
        BY <1>1, <1>2, <3>7, SpilledNow
      <3>9. CASE h = i
        BY <2>1, <3>4, <3>5, <3>6, <3>8, <3>9 DEF Changes, Change
      <3>10. CASE h # i
        BY <2>1, <3>4, <3>5, <3>6, <3>8, <3>10 DEF Changes, Change
      <3> QED  BY <3>9, <3>10
    <2> QED  BY <1>1, <2>2, <2>3
  <1> QED  BY <1>3, <1>4

LEMMA AnswerOpen ==
  ASSUME Inv, AnswerInv, OpenBucket
  PROVE  Emptied' /\ \A i \in Numbers : Changes(i)
  <1>1. /\ pc = "resolve" /\ todo = <<>> /\ slot < Slots /\ slot' = slot + 1
        /\ todo' = orphans[<<KindOf(slot), BucketOf(slot)>>]
        /\ UNCHANGED <<file, pc, pos, buffer, orphans, out>>
    BY DEF OpenBucket, disk
  <1>2. slot \in 0..(Slots - 1) /\ slot \in Nat
    BY <1>1 DEF Inv, TypeOK, Slots
  <1>3. ASSUME NEW i \in Numbers PROVE Changes(i)
    <2>1. /\ InFile(i)' = InFile(i) /\ Given(i)' = Given(i) /\ Unread(i)' = Unread(i) /\ Held(i)' = Held(i)
          /\ Given(i) \in Nat /\ Unread(i) \in Nat /\ Held(i) \in Nat /\ InFile(i) \in Nat /\ Ahead(i) \in Nat
      BY <1>1, FilesAgain, GivenAgain, CountsTyped DEF Inv, Unread, Held, Copies
    <2>2. Ahead(i)' = Ahead(i)
      <3>1. IsChild(i)' = IsChild(i) /\ SlotOf(i)' = SlotOf(i)
        BY <1>1 DEF IsChild, SlotOf
      <3>2. CASE ~IsChild(i)
        BY <3>1, <3>2 DEF Ahead
      <3>3. CASE IsChild(i)
        <4>1. SlotOf(i) \in Nat
          BY <3>3, SlotOfIs DEF Slots
        <4>2. /\ Ahead(i) = IF slot <= SlotOf(i) THEN InFile(i)
                            ELSE IF slot = SlotOf(i) + 1 THEN Copies(todo, i) ELSE 0
              /\ Ahead(i)' = IF slot + 1 <= SlotOf(i) THEN InFile(i)'
                             ELSE IF slot + 1 = SlotOf(i) + 1 THEN Copies(todo', i) ELSE 0
          BY <1>1, <3>1, <3>3 DEF Ahead, Copies
        <4>3. CASE slot = SlotOf(i)
          <5>1. <<KindOf(slot), BucketOf(slot)>> = <<file[i].kind, Bucket[file[i].parent]>>
            BY <3>3, <4>3, SlotOfIs
          <5>2. todo' = FileOf(i)
            BY ONLY <1>1, <5>1 DEF FileOf
          <5>3. InFile(i) = Copies(todo', i)
            BY <3>3, <5>2 DEF InFile
          <5> QED  BY ONLY <1>2, <4>2, <4>3, <5>3
        <4>4. CASE slot = SlotOf(i) + 1
          <5>1. Copies(todo, i) = 0
            <6>1. {k \in DOMAIN todo : todo[k] = i} = {}
              BY <1>1
            <6> QED  BY <6>1, FS_EmptySet DEF Copies
          <5> QED  BY ONLY <1>2, <4>1, <4>2, <4>4, <5>1
        <4>5. CASE slot # SlotOf(i) /\ slot # SlotOf(i) + 1
          BY ONLY <1>2, <2>1, <4>1, <4>2, <4>5
        <4> QED  BY <4>3, <4>4, <4>5
      <3> QED  BY <3>2, <3>3
    <2> QED  BY <2>1, <2>2 DEF Changes, Change
  <1>4. Emptied'
    BY <1>1 DEF AnswerInv, Emptied
  <1> QED  BY <1>3, <1>4

LEMMA AnswerResolve ==
  ASSUME Inv, AnswerInv, Resolve
  PROVE  Emptied' /\ \A i \in Numbers : Changes(i)
  <1> DEFINE h == Head(todo)
  <1>1. /\ pc = "resolve" /\ todo # <<>> /\ todo' = Tail(todo)
        /\ Handed(h, Verdict(h))
        /\ UNCHANGED <<file, pc, pos, buffer, orphans, slot>>
    BY DEF Resolve, disk
  <1>2. todo \in Seq(OfSlot(slot)) /\ slot \in 0..Slots
    BY DEF Inv, TypeOK
  <1>3. Tail(todo) \in Seq(OfSlot(slot)) /\ Inserted(Tail(todo), todo, 1, h) /\ h \in OfSlot(slot)
    BY <1>1, <1>2, HeadedIs
  <1> HIDE DEF h
  <1>4. todo' \in Seq(OfSlot(slot)) /\ Inserted(todo', todo, 1, h)
    BY <1>1, <1>3
  <1>5. /\ slot - 1 \in 0..(Slots - 1) /\ h \in Numbers /\ IsChild(h)
        /\ file[h].kind = KindOf(slot - 1) /\ Bucket[file[h].parent] = BucketOf(slot - 1)
    BY <1>2, <1>3, SlotsAre DEF OfSlot, Placed, Slots, IsChild
  <1>6. slot = SlotOf(h) + 1
    BY <1>2, <1>5, SlotOfIs DEF Slots
  <1>7. Verdict(h) \in {"emit", "orphan"}
    BY DEF Verdict
  <1>8. ASSUME NEW i \in Numbers PROVE Changes(i)
    <2>1. /\ InFile(i)' = InFile(i) /\ Unread(i)' = Unread(i) /\ Held(i)' = Held(i)
          /\ Given(i) \in Nat /\ Unread(i) \in Nat /\ Held(i) \in Nat /\ InFile(i) \in Nat /\ Ahead(i) \in Nat
      BY <1>1, FilesAgain, CountsTyped DEF Inv, Unread, Held, Copies
    <2>2. Given(i)' = Given(i) + (IF h = i THEN 1 ELSE 0)
      BY <1>1, <1>5, <1>7, GivenNow
    <2>3. Ahead(i) = Ahead(i)' + (IF h = i THEN 1 ELSE 0) /\ Ahead(i)' \in Nat
      <3>1. IsChild(i)' = IsChild(i) /\ SlotOf(i)' = SlotOf(i)
        BY <1>1 DEF IsChild, SlotOf
      <3>2. CASE ~IsChild(i)
        BY <1>5, <3>1, <3>2 DEF Ahead
      <3>3. CASE IsChild(i) /\ slot # SlotOf(i) + 1
        <4>1. Ahead(i)' = Ahead(i)
          BY <1>1, <2>1, <3>1, <3>3 DEF Ahead
        <4> QED  BY <1>6, <2>1, <3>3, <4>1
      <3>4. CASE IsChild(i) /\ slot = SlotOf(i) + 1
        <4>1. ~(slot <= SlotOf(i))
          BY <3>4, SlotOfIs DEF Slots
        <4>2. Ahead(i) = Copies(todo, i) /\ Ahead(i)' = Copies(todo', i)
          BY <1>1, <3>1, <3>4, <4>1 DEF Ahead, Copies
        <4>3. Copies(todo, i) = Copies(todo', i) + (IF h = i THEN 1 ELSE 0)
          BY ONLY <1>2, <1>4, CopiesInserted
        <4>4. Copies(todo', i) \in Nat
          BY ONLY <1>4, CopiesTyped
        <4> QED  BY ONLY <4>2, <4>3, <4>4
      <3> QED  BY <3>2, <3>3, <3>4
    <2> QED  BY <2>1, <2>2, <2>3 DEF Changes, Change
  <1>9. Emptied'
    BY <1>1 DEF AnswerInv, Emptied
  <1> QED  BY <1>8, <1>9

LEMMA AnswerFinish ==
  ASSUME Inv, AnswerInv, Finish
  PROVE  Emptied' /\ \A i \in Numbers : Changes(i)
  <1>1. /\ pc = "resolve" /\ todo = <<>> /\ slot = Slots /\ pc' = "done"
        /\ UNCHANGED <<file, pos, buffer, orphans, slot, todo, out>>
    BY DEF Finish, disk
  <1>2. ASSUME NEW i \in Numbers PROVE Changes(i)
    <2>1. /\ InFile(i)' = InFile(i) /\ Ahead(i)' = Ahead(i) /\ Given(i)' = Given(i)
          /\ Unread(i)' = Unread(i) /\ Held(i)' = Held(i)
      BY <1>1, FilesAgain, GivenAgain DEF Unread, Held, Copies
    <2>2. /\ InFile(i) \in Nat /\ Ahead(i) \in Nat /\ Given(i) \in Nat /\ Unread(i) \in Nat
          /\ Held(i) \in Nat
      BY CountsTyped DEF Inv
    <2> QED  BY <2>1, <2>2 DEF Changes, Change
  <1>3. Slots' = Slots
    BY DEF Slots
  <1> QED  BY <1>1, <1>2, <1>3 DEF AnswerInv, Emptied

\* A new attempt finds in the files what attempts before it put there.
LEMMA AnswerAgain == Inv /\ AnswerInv /\ Again => AnswerInv'
  <1> SUFFICES ASSUME Inv, AnswerInv, Again PROVE AnswerInv'
    OBVIOUS
  <1>1. /\ attempts' = attempts + 1 /\ pc' = "read" /\ pos' = 0 /\ buffer' = <<>>
        /\ slot' = 0 /\ todo' = <<>> /\ out' = <<>> /\ file' = file
        /\ orphans' = orphans \/ orphans' = NoOrphans
    BY DEF Again, disk
  <1>2. Emptied'
    BY <1>1 DEF Emptied
  <1>3. ASSUME NEW i \in Numbers PROVE CountedAt(i)'
    <2>1. Copies(<<>>, i) = 0
      <3>1. {k \in DOMAIN <<>> : <<>>[k] = i} = {}
        OBVIOUS
      <3> QED  BY <3>1, FS_EmptySet DEF Copies
    <2>2. Held(i)' = 0
      BY <1>1, <2>1 DEF Held, Copies
    <2>3. Given(i)' = 0
      <3>1. HandedOf(i)' = {}
        BY <1>1 DEF HandedOf
      <3> QED  BY <3>1, FS_EmptySet DEF Given
    <2>4. Unread(i)' = 1
      BY <1>1 DEF Unread, Numbers
    <2>5. InFile(i) \in Nat /\ Held(i) \in Nat /\ Unread(i) \in Nat /\ attempts \in Nat
      BY CountsTyped DEF Inv, TypeOK
    <2>6. InFile(i)' = InFile(i) \/ InFile(i)' = 0
      <3>1. CASE orphans' = orphans
        BY <1>1, <3>1, FilesAgain
      <3>2. CASE orphans' = NoOrphans
        <4>1. CASE ~IsChild(i)
          BY <1>1, <4>1 DEF InFile, IsChild
        <4>2. CASE IsChild(i)
          <5>1. FileOf(i)' = <<>>
            BY <1>1, <3>2, <4>2, SlotOfIs DEF FileOf, NoOrphans, IsChild
          <5> QED  BY <1>1, <2>1, <4>2, <5>1 DEF InFile, IsChild, Copies
        <4> QED  BY <4>1, <4>2
      <3> QED  BY <1>1, <3>1, <3>2
    <2>7. Ahead(i)' = InFile(i)'
      <3>1. CASE ~IsChild(i)
        BY <1>1, <3>1 DEF Ahead, InFile, IsChild
      <3>2. CASE IsChild(i)
        <4>1. SlotOf(i)' = SlotOf(i) /\ SlotOf(i) \in Nat /\ IsChild(i)'
          BY <1>1, <3>2, SlotOfIs DEF SlotOf, Slots, IsChild
        <4> QED  BY <1>1, <4>1 DEF Ahead
      <3> QED  BY <3>1, <3>2
    <2>8. InFile(i) <= attempts
      BY <2>5 DEF AnswerInv, CountedAt
    <2> QED  BY <1>1, <2>2, <2>3, <2>4, <2>5, <2>6, <2>7, <2>8 DEF CountedAt
  <1> QED  BY <1>1, <1>2, <1>3 DEF AnswerInv, Numbers

LEMMA AnswerInit == Init => AnswerInv
  <1> SUFFICES ASSUME Init PROVE AnswerInv
    OBVIOUS
  <1>1. /\ pc = "read" /\ pos = 0 /\ buffer = <<>> /\ slot = 0 /\ todo = <<>> /\ out = <<>>
        /\ attempts = 1 /\ orphans = NoOrphans
    BY DEF Init
  <1>2. Inv
    BY InvInit
  <1>3. ASSUME NEW i \in Numbers PROVE CountedAt(i)
    <2>1. Copies(<<>>, i) = 0
      <3>1. {k \in DOMAIN <<>> : <<>>[k] = i} = {}
        OBVIOUS
      <3> QED  BY <3>1, FS_EmptySet DEF Copies
    <2>2. Held(i) = 0
      BY <1>1, <2>1 DEF Held
    <2>3. Given(i) = 0
      <3>1. HandedOf(i) = {}
        BY <1>1 DEF HandedOf
      <3> QED  BY <3>1, FS_EmptySet DEF Given
    <2>4. Unread(i) = 1
      BY <1>1 DEF Unread, Numbers
    <2>5. InFile(i) = 0
      <3>1. CASE IsChild(i)
        <4>1. FileOf(i) = <<>>
          BY <1>1, <1>2, <3>1, SlotOfIs DEF FileOf, NoOrphans, IsChild
        <4> QED  BY <2>1, <3>1, <4>1 DEF InFile
      <3> QED  BY <3>1 DEF InFile
    <2>6. Ahead(i) = 0
      BY <1>1, <2>1, <2>5 DEF Ahead
    <2> QED  BY <1>1, <2>2, <2>3, <2>4, <2>5, <2>6 DEF CountedAt
  <1> QED  BY <1>1, <1>3 DEF AnswerInv, Emptied

LEMMA AnswerNext == Inv /\ Inv' /\ AnswerInv /\ [Next]_vars => AnswerInv'
  <1> SUFFICES ASSUME Inv, Inv', AnswerInv, [Next]_vars PROVE AnswerInv'
    OBVIOUS
  <1>1. CASE Again
    BY <1>1, AnswerAgain
  <1>2. CASE UNCHANGED vars
    BY <1>2 DEF vars, memory, disk, saved, AnswerInv, Emptied, Slots, CountedAt, Numbers, InFile, Ahead,
                Held, Given, Unread, FileOf, SlotOf, IsChild, Copies, HandedOf
  <1>3. CASE Next /\ ~Again
    <2>1. Emptied' /\ \A i \in Numbers : Changes(i)
      BY <1>3, AnswerReadGiven, AnswerDrain, AnswerBuffer, AnswerSpill, AnswerEnd,
         AnswerSpillBuffered, AnswerOpen, AnswerResolve, AnswerFinish DEF Next
    <2>2. file' = file /\ attempts' = attempts
      BY <1>3 DEF Next, ReadParent, Drain, ReadInvalid, ReadChild, BufferVariant, SpillChild, EndOfLines,
                  SpillBuffered, OpenBucket, Resolve, Save, Finish, saved
    <2>3. ASSUME NEW i \in Numbers PROVE CountedAt(i)'
      BY <2>1, <2>2, CountedAgain DEF Inv, AnswerInv
    <2>4. Numbers' = Numbers
      BY <2>2 DEF Numbers
    <2> QED  BY <2>1, <2>3, <2>4 DEF AnswerInv
  <1> QED  BY <1>1, <1>2, <1>3

\* When stitching ends every line has been answered; and none has been answered more
\* often than there were attempts, although an attempt resolves the bucket files of
\* those before it too.
THEOREM LinesAnswered == Spec => []EveryLineAnswered
  <1>1. Inv /\ AnswerInv => EveryLineAnswered
    <2> SUFFICES ASSUME Inv, AnswerInv PROVE EveryLineAnswered
      OBVIOUS
    <2>1. ASSUME NEW i \in Numbers PROVE Cardinality(HandedOf(i)) <= attempts
      <3>1. /\ Given(i) \in Nat /\ Held(i) \in Nat /\ Ahead(i) \in Nat /\ Unread(i) \in Nat /\ attempts \in Nat
            /\ Given(i) + Held(i) + Ahead(i) + Unread(i) <= attempts
        BY CountsTyped DEF Inv, TypeOK, AnswerInv, CountedAt
      <3> QED  BY <3>1 DEF Given
    <2>2. ASSUME pc = "done", NEW i \in Numbers PROVE HandedOf(i) # {}
      <3>1. Copies(<<>>, i) = 0
        <4>1. {k \in DOMAIN <<>> : <<>>[k] = i} = {}
          OBVIOUS
        <4> QED  BY <4>1, FS_EmptySet DEF Copies
      <3>2. buffer = <<>> /\ todo = <<>> /\ slot = Slots /\ pos = Len(file)
        BY <2>2 DEF AnswerInv, Emptied, Inv, PhaseOK
      <3>3. Held(i) = 0
        BY <3>1, <3>2 DEF Held
      <3>4. Ahead(i) = 0
        BY <3>1, <3>2, SlotOfIs DEF Ahead, Slots
      <3>5. Unread(i) = 0
        BY <3>2 DEF Unread, Numbers, Inv, TypeOK
      <3>6. Given(i) \in Nat /\ Given(i) + 0 + 0 >= 1
        BY <3>3, <3>4, <3>5, CountsTyped DEF AnswerInv, CountedAt, Inv
      <3>7. Given(i) # 0
        BY ONLY <3>6
      <3>8. Cardinality({}) = 0
        BY ONLY FS_EmptySet
      <3> QED  BY ONLY <3>7, <3>8 DEF Given
    <2> QED  BY <2>1, <2>2 DEF EveryLineAnswered
  <1> QED  BY <1>1, AnswerInit, AnswerNext, Invariance, PTL DEF Spec

-----------------------------------------------------------------------------
(* The replay.  Every attempt reads the same lines with the same memory, so   *)
(* that it makes of them what the attempts before it have made.               *)

\* What a reader knows, and what it has handed on.
Here == [pc |-> pc, pos |-> pos, recent |-> recent, order |-> order, buffer |-> buffer, out |-> out]
Start == [pc |-> "read", pos |-> 0, recent |-> {}, order |-> <<>>, buffer |-> <<>>, out |-> <<>>]

Waits(h, id) == {n \in DOMAIN h.buffer : file[h.buffer[n]].parent = id}
First(h, id) == CHOOSE n \in Waits(h, id) : \A k \in Waits(h, id) : n <= k
Last(h, id) == IF Waits(h, id) = {} THEN Len(h.buffer)
               ELSE CHOOSE n \in Waits(h, id) : \A k \in Waits(h, id) : k <= n

\* The reader goes on with other lines in its buffer and a record more or none.
Reader(c, n, h, b, o) ==
    [pc |-> c, pos |-> n, recent |-> h.recent, order |-> h.order, buffer |-> b, out |-> o]
With(h, i, v) == Append(h.out, [line |-> i, verdict |-> v])

AfterDrain(h) ==
    LET id == file[h.pos].id
        n == First(h, id)
    IN  IF Waits(h, id) = {} THEN Reader("read", h.pos, h, h.buffer, h.out)
        ELSE Reader("drain", h.pos, h, CutOut(h.buffer, n), With(h, h.buffer[n], "emit"))

AfterParent(h) ==
    LET i == h.pos + 1
        ids == Append(h.order, file[i].id)
        known == h.recent \cup {file[i].id}
    IN  [pc |-> IF file[i].kind = "product" THEN "drain" ELSE "read", pos |-> i,
         recent |-> IF Len(ids) > MaxParents THEN known \ {Head(ids)} ELSE known,
         order |-> Kept(ids), buffer |-> h.buffer, out |-> With(h, i, "parent")]

AfterOther(h) ==
    LET i == h.pos + 1
        id == file[i].parent
    IN  IF file[i].kind = "invalid" THEN Reader("read", i, h, h.buffer, With(h, i, "invalid"))
        ELSE IF id \in h.recent THEN Reader("read", i, h, h.buffer, With(h, i, "emit"))
        ELSE IF file[i].kind = "variant" /\ Len(h.buffer) < MaxOrphans
             THEN Reader("read", i, h, PutIn(h.buffer, Last(h, id), i), h.out)
        ELSE Reader("read", i, h, h.buffer, h.out)

After(h) ==
    IF h.pc = "drain" THEN AfterDrain(h)
    ELSE IF file[h.pos + 1].kind \in ParentKinds THEN AfterParent(h) ELSE AfterOther(h)

Over(h) == h.pc = "read" /\ h.pos = Len(file)

\* The first and the last of a set of places is one.
LEMMA FirstIs ==
  ASSUME NEW h, NEW id, NEW n \in Waits(h, id), DOMAIN h.buffer \subseteq Nat
  PROVE  /\ (\A k \in Waits(h, id) : n <= k) => First(h, id) = n
         /\ (\A k \in Waits(h, id) : k <= n) => Last(h, id) = n
  <1>1. \A k \in Waits(h, id) : k \in Nat
    BY DEF Waits
  <1>2. ASSUME \A k \in Waits(h, id) : n <= k PROVE First(h, id) = n
    <2>1. \A x \in Waits(h, id) : (\A k \in Waits(h, id) : x <= k) => x = n
      BY <1>1, <1>2
    <2> QED  BY <1>2, <2>1 DEF First
  <1>3. ASSUME \A k \in Waits(h, id) : k <= n PROVE Last(h, id) = n
    <2>1. \A x \in Waits(h, id) : (\A k \in Waits(h, id) : k <= x) => x = n
      BY <1>1, <1>3
    <2>2. Waits(h, id) # {}
      OBVIOUS
    <2> QED  BY <1>3, <2>1, <2>2 DEF Last
  <1> QED  BY <1>2, <1>3

LEMMA ReadsOn ==
  ASSUME Inv, ReadParent \/ Drain \/ ReadInvalid \/ ReadChild \/ BufferVariant \/ SpillChild
  PROVE  Here' = After(Here) /\ ~Over(Here) /\ pc \in {"read", "drain"} /\ pc' \in {"read", "drain"}
  <1>1. /\ Here.pc = pc /\ Here.pos = pos /\ Here.recent = recent /\ Here.order = order
        /\ Here.buffer = buffer /\ Here.out = out
        /\ \A id : Waits(Here, id) = Waiting(id)
        /\ Here' = [pc |-> pc', pos |-> pos', recent |-> recent', order |-> order',
                    buffer |-> buffer', out |-> out']
    BY DEF Here, Waits, Waiting
  <1> HIDE DEF Here
  <1>2. DOMAIN buffer \subseteq Nat /\ Len(file) \in Nat /\ DOMAIN buffer = 1..Len(buffer) /\ Len(buffer) \in Nat
    BY DEF Inv, TypeOK
  <1>3. CASE ReadParent
    <2>1. pc = "read" /\ pos < Len(file) /\ Line.kind \in ParentKinds /\ Line = file[pos + 1]
      BY <1>3 DEF ReadParent, Reading, Line
    <2> QED  BY <1>1, <1>2, <1>3, <2>1 DEF ReadParent, RecordParent, After, AfterParent, With, Handed, Over
  <1>4. CASE Drain
    <2>1. pc = "drain" /\ After(Here) = AfterDrain(Here)
      BY <1>1, <1>4 DEF Drain, After
    <2>2. CASE Waiting(file[pos].id) = {}
      BY <1>1, <1>4, <2>1, <2>2 DEF Drain, AfterDrain, Reader, Over
    <2>3. CASE Waiting(file[pos].id) # {}
      <3>1. PICK n \in Waiting(file[pos].id) :
              /\ \A k \in Waiting(file[pos].id) : n <= k
              /\ Handed(buffer[n], "emit")
              /\ buffer' = CutOut(buffer, n) /\ pc' = pc
        BY <1>4, <2>3 DEF Drain, CutOut
      <3>2. First(Here, file[pos].id) = n
        BY <1>1, <1>2, <3>1, FirstIs
      <3> QED  BY <1>1, <1>4, <2>1, <2>3, <3>1, <3>2 DEF Drain, AfterDrain, Reader, With, Handed, Over
    <2> QED  BY <2>2, <2>3
  <1>5. ASSUME ReadInvalid \/ ReadChild \/ BufferVariant \/ SpillChild
        PROVE  /\ pc = "read" /\ pos < Len(file) /\ Line = file[pos + 1] /\ pc' = pc
               /\ After(Here) = AfterOther(Here) /\ ~Over(Here)
               /\ recent' = recent /\ order' = order /\ pos' = pos + 1
    <2>1. /\ pc = "read" /\ pos < Len(file) /\ Line = file[pos + 1] /\ pc' = pc
          /\ Line.kind \notin ParentKinds
          /\ recent' = recent /\ order' = order /\ pos' = pos + 1
      BY <1>5 DEF ReadInvalid, ReadChild, BufferVariant, SpillChild, Reading, Line, ParentKinds, ChildKinds
    <2> QED  BY <1>1, <1>2, <2>1 DEF After, Over
  <1>6. CASE ReadInvalid
    BY <1>1, <1>5, <1>6 DEF ReadInvalid, Reading, AfterOther, Reader, With, Handed
  <1>7. CASE ReadChild
    <2>1. Line.kind # "invalid" /\ Line.parent \in recent
      BY <1>7 DEF ReadChild, Reading, ChildKinds
    <2> QED  BY <1>1, <1>5, <1>7, <2>1 DEF ReadChild, AfterOther, Reader, With, Handed
  <1>8. CASE BufferVariant
    <2>1. Line.kind = "variant" /\ Line.parent \notin recent /\ Len(buffer) < MaxOrphans
      BY <1>8 DEF BufferVariant, Reading, Room
    <2>2. PICK n \in 0..Len(buffer) : Place(Line.parent, n) /\ buffer' = PutIn(buffer, n, pos + 1)
      BY <1>8 DEF BufferVariant, PutIn
    <2>3. Last(Here, Line.parent) = n
      <3>1. CASE Waiting(Line.parent) = {}
        BY <1>1, <2>2, <3>1 DEF Place, Last
      <3>2. CASE Waiting(Line.parent) # {}
        BY <1>1, <1>2, <2>2, <3>2, FirstIs DEF Place
      <3> QED  BY <3>1, <3>2
    <2> QED  BY <1>1, <1>5, <1>8, <2>1, <2>2, <2>3 DEF BufferVariant, AfterOther, Reader
  <1>9. CASE SpillChild
    <2>1. /\ Line.kind # "invalid" /\ Line.parent \notin recent
          /\ ~(Line.kind = "variant" /\ Len(buffer) < MaxOrphans)
      BY <1>9 DEF SpillChild, Reading, ChildKinds, Room
    <2> QED  BY <1>1, <1>5, <1>9, <2>1 DEF SpillChild, AfterOther, Reader
  <1> QED  BY <1>3, <1>4, <1>5, <1>6, <1>7, <1>8, <1>9

-----------------------------------------------------------------------------
(* What attempts without another host have in common.  T are the n states a   *)
(* reader has been in; D[t] is how many records the attempt had handed on     *)
(* when it opened bucket t; B, s and p say the same of the attempt that made  *)
(* the checkpoint, if it was at place p of bucket s - 1.                      *)

Begins(u, v) ==
    /\ Len(u) \in Nat /\ Len(v) \in Nat /\ Len(u) <= Len(v)
    /\ \A k \in 1..Len(u) : u[k] = v[k]

Slotted(t) == orphans[<<KindOf(t), BucketOf(t)>>]
Resolved == Len(Slotted(slot - 1)) - Len(todo)
Stageable == {i \in Numbers : ToStage([line |-> i, verdict |-> Contract!Right(file, i)])}
Staged(i) == i \in Stageable => i \in staged

Replayed(T, n) ==
    /\ n \in Nat \ {0} /\ T[1] = Start
    /\ \A i \in 1..(n - 1) : ~Over(T[i]) /\ T[i + 1] = After(T[i])
    /\ \A i, j \in 1..n : i <= j => Begins(T[i].out, T[j].out)

\* The records a reader has handed on and the checkpoint counts are staged.
SavedReading(T, n) ==
    /\ \A i \in 1..n : \A k \in 1..Len(T[i].out) : k <= committed => Staged(T[i].out[k].line)
    /\ committed <= Len(T[n].out) \/ Over(T[n])

Where(T, n) ==
    IF pc \in {"read", "drain"} THEN \E m \in 1..n : T[m] = Here
    ELSE Over(T[n]) /\ Begins(T[n].out, out) /\ (slot = 0 => Len(out) = Len(T[n].out))

Bases(T, n, D) ==
    slot > 0 =>
        /\ D[0] = Len(T[n].out)
        /\ \A t \in 1..(slot - 1) : D[t] <= D[t - 1] + Len(Slotted(t - 1))
        /\ Len(todo) <= Len(Slotted(slot - 1)) /\ Len(out) = D[slot - 1] + Resolved
        /\ \A q \in 1..Resolved : out[D[slot - 1] + q].line = Slotted(slot - 1)[q]
        /\ \A q \in 1..Len(todo) : todo[q] = Slotted(slot - 1)[Resolved + q]

\* Those the checkpoint counts of the bucket files are, and no attempt is ahead
\* of the one that made it: the files have only grown.
SavedResolving(T, n, B, s, p) ==
    committed > Len(T[n].out) =>
        /\ s \in 1..Slots /\ p \in 0..Len(Slotted(s - 1))
        /\ committed = B[s - 1] + p /\ B[0] = Len(T[n].out)
        /\ \A t \in 1..(s - 1) : B[t] <= B[t - 1] + Len(Slotted(t - 1))
        /\ \A i \in Numbers : IsChild(i) /\ SlotOf(i) < s - 1 => Staged(i)
        /\ \A q \in 1..p : Staged(Slotted(s - 1)[q])

Behind(T, n, D, B, s) ==
    committed > Len(T[n].out) /\ slot > 0 =>
        IF slot <= s THEN D[slot - 1] >= B[slot - 1] ELSE Len(out) >= committed

Skipped == \A k \in DOMAIN out : k <= from => Staged(out[k].line)

\* The checkpoint is the one this attempt began with, until it is past it.
Counts == from <= committed /\ (committed # from => Len(out) > from)

History(T, n, D, B, s, p) ==
    /\ D \in [0..Slots -> Nat] /\ B \in [0..Slots -> Nat] /\ s \in Nat /\ p \in Nat
    /\ Replayed(T, n) /\ SavedReading(T, n) /\ Where(T, n)
    /\ Bases(T, n, D) /\ SavedResolving(T, n, B, s, p) /\ Behind(T, n, D, B, s)

Repeats == Counts /\ Skipped /\ \E T, n, D, B, s, p : History(T, n, D, B, s, p)

ReplayInv ==
    /\ staged \subseteq Stageable
    /\ ~moved => Repeats /\ (pc = "done" => Stageable \subseteq staged)

LEMMA BeginsOn == ASSUME NEW u, NEW v, NEW w, Begins(u, v), Begins(v, w) PROVE Begins(u, w)
  BY DEF Begins

LEMMA OutBegins ==
  ASSUME Inv, \/ out' = out
              \/ \E i \in Numbers, v \in {"parent", "emit", "orphan", "invalid"} : Handed(i, v)
  PROVE  /\ Begins(out, out') /\ Len(out) \in Nat /\ DOMAIN out = 1..Len(out)
         /\ DOMAIN out' = 1..Len(out') /\ Len(out') <= Len(out) + 1
  <1>1. out \in Seq(Records) /\ Len(out) \in Nat /\ DOMAIN out = 1..Len(out)
    BY DEF Inv, TypeOK
  <1>2. CASE out' = out
    BY <1>1, <1>2 DEF Begins
  <1>3. ASSUME NEW i \in Numbers, NEW v \in {"parent", "emit", "orphan", "invalid"}, Handed(i, v)
        PROVE  /\ Begins(out, out') /\ DOMAIN out' = 1..Len(out') /\ Len(out') <= Len(out) + 1
    <2> DEFINE r == [line |-> i, verdict |-> v]
    <2>1. r \in Records
      BY DEF Records
    <2>2. out' = Append(out, r)
      BY <1>3 DEF Handed
    <2> HIDE DEF r
    <2>3. Len(out') = Len(out) + 1 /\ DOMAIN out' = 1..Len(out') /\ \A k \in 1..Len(out) : out'[k] = out[k]
      BY ONLY <1>1, <2>1, <2>2
    <2> QED  BY ONLY <1>1, <2>3 DEF Begins
  <1> QED  BY <1>1, <1>2, <1>3

\* What is to be staged of the records is what the contract says.
LEMMA StagedNowIs ==
  ASSUME Inv
  PROVE  /\ StagedNow = staged \cup {out[k].line : k \in {m \in DOMAIN out : m > from /\ out[m].line \in Stageable}}
         /\ \A k \in DOMAIN out : out[k].line \in Numbers
  <1>1. ASSUME NEW k \in DOMAIN out
        PROVE  out[k].line \in Numbers /\ (ToStage(out[k]) <=> out[k].line \in Stageable)
    <2>1. out[k] \in Records /\ out[k].verdict = Contract!Right(file, out[k].line)
      BY DEF Inv, TypeOK, VerdictsRight
    <2>2. out[k].line \in Numbers
      BY <2>1 DEF Records
    <2> QED  BY <2>1, <2>2 DEF Stageable, ToStage
  <1> QED  BY <1>1 DEF StagedNow

\* The reader takes a step that others have taken before, or the first to do so.
LEMMA ReplayGoesOn ==
  ASSUME committed \in Nat, NEW T, NEW n, Replayed(T, n), SavedReading(T, n), NEW m \in 1..n, T[m] = Here, ~Over(Here),
         Here' = After(Here), Begins(out, out'), UNCHANGED <<file, committed, staged>>
  PROVE  \E U, l : /\ Replayed(U, l)' /\ SavedReading(U, l)'
                   /\ \E i \in 1..l : U[i] = Here'
                   /\ committed > Len(U[l].out) => U = T /\ l = n
  <1>0. n \in Nat /\ m \in Nat /\ n >= 1 /\ Here.out = out /\ Here'.out = out'
    BY DEF Replayed, Here
  <1>1. \A h : /\ Over(h)' = Over(h)
               /\ After(h)' = After(h)
    BY DEF Over, After, AfterDrain, AfterParent, AfterOther, Reader, With, Waits, First, Last
  <1>2. \A i : Staged(i)' = Staged(i)
    BY DEF Staged, Stageable, Numbers, ToStage, Contract!Right, Contract!Parents
  <1>3. CASE m < n
    <2>1. T[m + 1] = Here' /\ m + 1 \in 1..n
      BY <1>0, <1>3 DEF Replayed
    <2>2. Replayed(T, n)'
      BY <1>1 DEF Replayed
    <2>3. SavedReading(T, n)'
      BY <1>1, <1>2 DEF SavedReading
    <2> QED  BY <2>1, <2>2, <2>3
  <1>4. CASE m = n
    <2>a. PICK h : h = Here'
      OBVIOUS
    <2>b. PICK U : U = [i \in 1..(n + 1) |-> IF i <= n THEN T[i] ELSE h]
      OBVIOUS
    <2>1. /\ \A i \in 1..n : U[i] = T[i]
          /\ U[n + 1] = Here' /\ n + 1 \in 1..(n + 1) /\ n + 1 \in Nat \ {0}
          /\ \A i \in 1..(n + 1) : i \in 1..n \/ i = n + 1
      BY <1>0, <2>a, <2>b
    <2>2. T[n] = Here /\ T[n].out = out /\ ~Over(T[n])
      BY <1>0, <1>4
    <2>3. ASSUME NEW i \in 1..n PROVE ~Over(U[i]) /\ U[i + 1] = After(U[i])
      BY <1>0, <2>1, <2>2, <2>3 DEF Replayed
    <2>4. ASSUME NEW i \in 1..(n + 1), NEW j \in 1..(n + 1), i <= j PROVE Begins(U[i].out, U[j].out)
      <3>1. CASE j \in 1..n
        BY <1>0, <2>1, <2>4, <3>1 DEF Replayed
      <3>2. CASE j = n + 1 /\ i \in 1..n
        <4>1. Begins(T[i].out, T[n].out)
          BY <1>0, <3>2 DEF Replayed
        <4> QED  BY <1>0, <2>1, <2>2, <3>2, <4>1, BeginsOn
      <3>3. CASE j = n + 1 /\ i = n + 1
        BY <1>0, <2>1, <3>3 DEF Begins
      <3> QED  BY <2>1, <2>4, <3>1, <3>2, <3>3
    <2>5. Replayed(U, n + 1)'
      <3>1. \A i \in 1..((n + 1) - 1) : i \in 1..n
        BY <1>0
      <3>2. U[1] = Start
        BY <1>0, <2>1 DEF Replayed
      <3> QED  BY <1>1, <2>1, <2>3, <2>4, <3>1, <3>2 DEF Replayed
    <2>6. committed <= Len(out) /\ Len(out) <= Len(out') /\ Len(U[n + 1].out) = Len(out')
      BY <1>0, <2>1, <2>2 DEF SavedReading, Begins
    <2>7. ASSUME NEW i \in 1..(n + 1), NEW k \in 1..Len(U[i].out), k <= committed
          PROVE  Staged(U[i].out[k].line)
      <3>1. CASE i \in 1..n
        BY <2>1, <2>7, <3>1 DEF SavedReading
      <3>2. CASE i = n + 1
        <4>1. k \in 1..Len(out) /\ U[i].out[k] = T[n].out[k] /\ n \in 1..n
          BY <1>0, <2>1, <2>2, <2>6, <2>7, <3>2 DEF Begins
        <4> QED  BY <2>2, <2>7, <4>1 DEF SavedReading
      <3> QED  BY <2>1, <3>1, <3>2
    <2>8. committed <= Len(U[n + 1].out)
      BY <2>6, <1>0 DEF Begins, SavedReading
    <2>9. SavedReading(U, n + 1)'
      BY <1>2, <2>7, <2>8 DEF SavedReading
    <2> QED  BY <2>1, <2>5, <2>8, <2>9
  <1> QED  BY <1>0, <1>3, <1>4

\* What is true of the history stays true while the files grow, more is staged
\* and the checkpoint is the same.
LEMMA FilesGrow ==
  ASSUME Inv, orphans' = orphans \/ \E i \in Numbers : IsChild(i) /\ orphans' = Spilled(i)
  PROVE  \A t \in 0..(Slots - 1) : Begins(Slotted(t), Slotted(t)')
  <1> SUFFICES ASSUME NEW t \in 0..(Slots - 1) PROVE Begins(Slotted(t), Slotted(t)')
    OBVIOUS
  <1>1. PICK key : key = <<KindOf(t), BucketOf(t)>>
    OBVIOUS
  <1>2. key \in ChildKinds \X (0..(Buckets - 1))
    BY <1>1, SlotsAre
  <1>3. orphans \in [ChildKinds \X (0..(Buckets - 1)) -> Seq(Numbers)] /\ orphans[key] \in Seq(Numbers)
    BY <1>2 DEF Inv, TypeOK
  <1>4. Slotted(t) = orphans[key] /\ Slotted(t)' = orphans'[key]
    BY <1>1 DEF Slotted
  <1>5. CASE orphans'[key] = orphans[key]
    BY <1>3, <1>4, <1>5 DEF Begins
  <1>6. ASSUME NEW i \in Numbers, orphans' = Spilled(i), orphans'[key] # orphans[key]
        PROVE  orphans'[key] = Append(orphans[key], i)
    BY <1>2, <1>3, <1>6 DEF Spilled
  <1>7. ASSUME NEW i \in Numbers, orphans'[key] = Append(orphans[key], i) PROVE Begins(orphans[key], orphans'[key])
    <2>1. Inserted(orphans[key], orphans'[key], Len(orphans[key]) + 1, i) /\ Len(orphans[key]) \in Nat
      BY <1>3, <1>7, AppendedIs
    <2> QED  BY <2>1 DEF Inserted, Begins
  <1> QED  BY <1>4, <1>5, <1>6, <1>7

LEMMA StagedOn ==
  ASSUME file' = file, staged \subseteq staged'
  PROVE  Stageable' = Stageable /\ \A i : Staged(i) => Staged(i)'
  <1>1. Stageable' = Stageable
    BY DEF Stageable, Numbers, ToStage, Contract!Right, Contract!Parents
  <1> QED  BY <1>1 DEF Staged

LEMMA ReplayedOn ==
  ASSUME NEW T, NEW n, Replayed(T, n), UNCHANGED file
  PROVE  Replayed(T, n)' /\ \A h : Over(h)' = Over(h)
  <1>1. \A h : Over(h)' = Over(h) /\ After(h)' = After(h)
    BY DEF Over, After, AfterDrain, AfterParent, AfterOther, Reader, With, Waits, First, Last
  <1> QED  BY <1>1 DEF Replayed

LEMMA ReadingOn ==
  ASSUME NEW T, NEW n, Replayed(T, n), SavedReading(T, n), UNCHANGED <<file, committed>>, staged \subseteq staged'
  PROVE  SavedReading(T, n)'
  BY ReplayedOn, StagedOn DEF SavedReading

LEMMA ResolvingOn ==
  ASSUME NEW T, NEW n, NEW B \in [0..Slots -> Nat], NEW s, NEW p, SavedResolving(T, n, B, s, p),
         UNCHANGED <<file, committed>>, staged \subseteq staged',
         \A t \in 0..(Slots - 1) : Begins(Slotted(t), Slotted(t)')
  PROVE  SavedResolving(T, n, B, s, p)'
  <1> SUFFICES ASSUME committed > Len(T[n].out) PROVE SavedResolving(T, n, B, s, p)'
    BY DEF SavedResolving
  <1>1. /\ s \in 1..Slots /\ p \in 0..Len(Slotted(s - 1))
        /\ committed = B[s - 1] + p /\ B[0] = Len(T[n].out)
        /\ \A t \in 1..(s - 1) : B[t] <= B[t - 1] + Len(Slotted(t - 1))
        /\ \A i \in Numbers : IsChild(i) /\ SlotOf(i) < s - 1 => Staged(i)
        /\ \A q \in 1..p : Staged(Slotted(s - 1)[q])
    BY DEF SavedResolving
  <1>2. Slots \in Nat /\ Numbers' = Numbers /\ \A i : IsChild(i)' = IsChild(i) /\ SlotOf(i)' = SlotOf(i)
    BY DEF Slots, Numbers, IsChild, SlotOf
  <1>3. \A i : Staged(i) => Staged(i)'
    BY StagedOn
  <1>4. ASSUME NEW t \in 1..s
        PROVE  /\ Len(Slotted(t - 1)) \in Nat /\ Len(Slotted(t - 1)') \in Nat
               /\ Len(Slotted(t - 1)) <= Len(Slotted(t - 1)')
               /\ \A q \in 1..Len(Slotted(t - 1)) : Slotted(t - 1)'[q] = Slotted(t - 1)[q]
    <2>1. t - 1 \in 0..(Slots - 1)
      BY <1>1, <1>2
    <2> QED  BY <2>1 DEF Begins
  <1>a. PICK g : g = Slotted(s - 1)'
    OBVIOUS
  <1>5. p \in 0..Len(g) /\ \A q \in 1..p : Staged(g[q])'
    <2>1. s \in 1..s /\ \A q \in 1..p : q \in 1..Len(Slotted(s - 1))
      BY <1>1, <1>2, <1>4
    <2>2. \A q \in 1..p : g[q] = Slotted(s - 1)[q]
      BY <1>4, <1>a, <2>1
    <2>3. p \in 0..Len(g)
      BY <1>1, <1>4, <1>a, <2>1
    <2> QED  BY <1>1, <1>3, <2>2, <2>3
  <1>6. ASSUME NEW t \in 1..(s - 1) PROVE B[t] <= B[t - 1] + Len(Slotted(t - 1)')
    <2>1. B[t] \in Nat /\ B[t - 1] \in Nat /\ t \in 1..s
      BY <1>1, <1>2
    <2> QED  BY <1>1, <1>4, <2>1
  <1>7. Slots' = Slots
    BY DEF Slots
  <1>8. /\ (s \in 1..Slots)' /\ (p \in 0..Len(Slotted(s - 1)))'
        /\ (\A q \in 1..p : Staged(Slotted(s - 1)[q]))'
    BY <1>1, <1>5, <1>7, <1>a
  <1>9. (\A t \in 1..(s - 1) : B[t] <= B[t - 1] + Len(Slotted(t - 1)))'
    BY <1>6
  <1>10. (\A i \in Numbers : IsChild(i) /\ SlotOf(i) < s - 1 => Staged(i))'
    BY <1>1, <1>2, <1>3
  <1> QED  BY <1>1, <1>8, <1>9, <1>10 DEF SavedResolving

\* A record that the attempt skips has to be one that is staged already.
LEMMA SkippedOn ==
  ASSUME Inv, Counts, Skipped, UNCHANGED <<file, from, committed, staged>>,
         \/ out' = out
         \/ \E i \in Numbers, v \in {"parent", "emit", "orphan", "invalid"} : Handed(i, v),
         Len(out) < committed /\ Len(out') = Len(out) + 1 => Staged(out'[Len(out) + 1].line)
  PROVE  Counts' /\ Skipped'
  <1>1. /\ Begins(out, out') /\ Len(out) \in Nat /\ DOMAIN out = 1..Len(out)
        /\ DOMAIN out' = 1..Len(out') /\ Len(out') <= Len(out) + 1
        /\ from \in Nat /\ committed \in Nat
    BY OutBegins DEF Inv, TypeOK
  <1>2. \A i : Staged(i) => Staged(i)'
    BY StagedOn
  <1>3. /\ Len(out') \in Nat /\ Len(out) <= Len(out')
    BY <1>1 DEF Begins
  <1>4. \A k \in 1..Len(out) : out'[k] = out[k]
    BY <1>1 DEF Begins
  <1>5. from <= committed /\ (committed # from => Len(out) > from)
    BY DEF Counts
  <1>6. Len(out) \in Nat /\ from \in Nat /\ committed \in Nat
    BY <1>1
  <1>7. Counts'
    <2>1. committed # from => Len(out') > from
      BY ONLY <1>3, <1>5, <1>6
    <2> QED  BY <1>5, <2>1 DEF Counts
  <1>8. ASSUME NEW k \in DOMAIN out', k <= from PROVE Staged(out'[k].line)
    <2>1. k \in 1..Len(out') /\ Len(out') <= Len(out) + 1
      BY <1>1
    <2>2. CASE k \in 1..Len(out)
      BY <1>1, <1>4, <1>8, <2>2 DEF Skipped
    <2>3. CASE k = Len(out) + 1
      <3>1. Len(out) < committed /\ Len(out') = Len(out) + 1
        BY ONLY <1>3, <1>5, <1>6, <1>8, <2>1, <2>3
      <3> QED  BY <2>3, <3>1
    <2>4. k \in 1..Len(out) \/ k = Len(out) + 1
      BY ONLY <1>3, <1>6, <2>1
    <2> QED  BY <2>2, <2>3, <2>4
  <1> QED  BY <1>2, <1>7, <1>8 DEF Skipped

-----------------------------------------------------------------------------
(* The steps of an attempt.                                                   *)

LEMMA ReadsRepeat ==
  ASSUME Inv, AnswerInv, Repeats,
         ReadParent \/ Drain \/ ReadInvalid \/ ReadChild \/ BufferVariant \/ SpillChild
  PROVE  Repeats'
  <1>1. /\ UNCHANGED <<file, committed, staged, from, slot, todo, attempts>>
        /\ orphans' = orphans \/ \E i \in Numbers : IsChild(i) /\ orphans' = Spilled(i)
    <2>1. CASE SpillChild
      BY <2>1, LineIs DEF SpillChild, saved, Reading, IsChild
    <2>2. CASE ReadParent \/ Drain \/ ReadInvalid \/ ReadChild \/ BufferVariant
      BY <2>2 DEF ReadParent, Drain, ReadInvalid, ReadChild, BufferVariant, saved, disk
    <2> QED  BY <2>1, <2>2
  <1>2. /\ Here' = After(Here) /\ ~Over(Here) /\ pc \in {"read", "drain"} /\ pc' \in {"read", "drain"}
        /\ slot = 0
    BY ReadsOn DEF AnswerInv, Emptied
  <1>3. \/ out' = out
        \/ \E i \in Numbers, v \in {"parent", "emit", "orphan", "invalid"} : Handed(i, v)
    <2>1. attempts \in Nat
      BY DEF Inv, TypeOK
    <2>2. Next /\ ~Again
      BY <1>1, <2>1 DEF Next, Again
    <2> QED  BY <2>2, OneRecord
  <1>4. /\ Begins(out, out') /\ Len(out) \in Nat /\ committed \in Nat
        /\ staged \subseteq staged' /\ \A i : Staged(i)' = Staged(i)
    BY <1>1, <1>3, OutBegins DEF Inv, TypeOK, Staged, Stageable, Numbers, ToStage, Contract!Right, Contract!Parents
  <1>5. PICK T, n, D, B, s, p : History(T, n, D, B, s, p)
    BY DEF Repeats
  <1>6. PICK m \in 1..n : T[m] = Here
    BY <1>2, <1>5 DEF History, Where
  <1>7. PICK U, l : /\ Replayed(U, l)' /\ SavedReading(U, l)'
                    /\ \E i \in 1..l : U[i] = Here'
                    /\ committed > Len(U[l].out) => U = T /\ l = n
    BY <1>1, <1>2, <1>4, <1>5, <1>6, ReplayGoesOn DEF History
  <1>8. SavedResolving(U, l, B, s, p)'
    <2>1. CASE committed > Len(U[l].out)
      BY <1>1, <1>4, <1>5, <1>7, <2>1, FilesGrow, ResolvingOn DEF History
    <2>2. CASE ~(committed > Len(U[l].out))
      BY <1>1, <2>2 DEF SavedResolving
    <2> QED  BY <2>1, <2>2
  <1>9. Where(U, l)' /\ Bases(U, l, D)' /\ Behind(U, l, D, B, s)'
    BY <1>1, <1>2, <1>7 DEF Where, Bases, Behind
  <1>10. History(U, l, D, B, s, p)'
    <2>1. Slots' = Slots
      BY DEF Slots
    <2> QED  BY <1>5, <1>7, <1>8, <1>9, <2>1 DEF History
  <1>11. ASSUME Len(out) < committed, Len(out') = Len(out) + 1
         PROVE  Staged(out'[Len(out) + 1].line)
    <2>1. PICK i \in 1..l : U[i] = Here'
      BY <1>7
    <2>2. U[i].out = out'
      BY <2>1 DEF Here
    <2>3. Len(out) + 1 \in 1..Len(out') /\ Len(out) + 1 <= committed
      BY <1>4, <1>11
    <2> QED  BY <1>1, <1>4, <1>7, <2>2, <2>3 DEF SavedReading
  <1>12. Counts' /\ Skipped'
    BY <1>1, <1>3, <1>11, SkippedOn DEF Repeats
  <1> QED  BY <1>10, <1>12 DEF Repeats

\* The end of the lines is the last of the states of a reader.
LEMMA EndRepeats ==
  ASSUME Inv, AnswerInv, Repeats, EndOfLines
  PROVE  Repeats'
  <1>1. /\ pc = "read" /\ pos = Len(file) /\ pc' = "spill"
        /\ UNCHANGED <<file, committed, staged, from, slot, todo, orphans, out>>
    BY DEF EndOfLines, disk, saved
  <1>2. PICK T, n, D, B, s, p : History(T, n, D, B, s, p)
    BY DEF Repeats
  <1>3. PICK m \in 1..n : T[m] = Here
    BY <1>1, <1>2 DEF History, Where
  <1>4. Over(Here) /\ Here.out = out
    BY <1>1 DEF Here, Over
  <1>5. T[n] = Here
    <2>1. n \in Nat \ {0} /\ \A i \in 1..(n - 1) : ~Over(T[i])
      BY <1>2 DEF History, Replayed
    <2>2. ~(m < n)
      BY <1>3, <1>4, <2>1
    <2> QED  BY <1>3, <2>1, <2>2
  <1>6. slot = 0 /\ Len(out) \in Nat
    BY <1>1 DEF AnswerInv, Emptied, Inv, TypeOK
  <1>7. staged \subseteq staged' /\ Slots' = Slots
    BY <1>1 DEF Slots
  <1>8. Replayed(T, n)' /\ SavedReading(T, n)' /\ SavedResolving(T, n, B, s, p)'
    BY <1>1, <1>2, <1>7, FilesGrow, ReplayedOn, ReadingOn, ResolvingOn DEF History
  <1>9. Where(T, n)' /\ Bases(T, n, D)' /\ Behind(T, n, D, B, s)'
    <2>1. Over(T[n])' /\ Begins(out, out)
      BY <1>1, <1>4, <1>5, <1>6 DEF Over, Begins
    <2> QED  BY <1>1, <1>4, <1>5, <1>6, <2>1 DEF Where, Bases, Behind
  <1>10. Counts' /\ Skipped'
    BY <1>1, <1>6, SkippedOn DEF Repeats
  <1> QED  BY <1>2, <1>7, <1>8, <1>9, <1>10 DEF Repeats, History

LEMMA SpillRepeats ==
  ASSUME Inv, AnswerInv, Repeats, SpillBuffered
  PROVE  Repeats'
  <1>1. /\ pc = "spill" /\ pc' \in {"spill", "resolve"}
        /\ UNCHANGED <<file, committed, staged, from, slot, todo, out>>
    BY DEF SpillBuffered, saved
  <1>2. orphans' = orphans \/ \E i \in Numbers : IsChild(i) /\ orphans' = Spilled(i)
    <2>1. CASE buffer = <<>>
      BY <2>1 DEF SpillBuffered
    <2>2. CASE buffer # <<>>
      <3>1. buffer \in Seq(Variants)
        BY DEF Inv, TypeOK
      <3>2. Head(buffer) \in Variants
        BY ONLY <2>2, <3>1
      <3> QED  BY <2>2, <3>2 DEF SpillBuffered, Variants, IsChild, ChildKinds
    <2> QED  BY <2>1, <2>2
  <1>3. slot = 0 /\ Len(out) \in Nat
    BY <1>1 DEF AnswerInv, Emptied, Inv, TypeOK
  <1>4. PICK T, n, D, B, s, p : History(T, n, D, B, s, p)
    BY DEF Repeats
  <1>5. staged \subseteq staged' /\ Slots' = Slots
    BY <1>1 DEF Slots
  <1>6. Replayed(T, n)' /\ SavedReading(T, n)' /\ SavedResolving(T, n, B, s, p)'
    BY <1>1, <1>2, <1>4, <1>5, FilesGrow, ReplayedOn, ReadingOn, ResolvingOn DEF History
  <1>7. Where(T, n)' /\ Bases(T, n, D)' /\ Behind(T, n, D, B, s)'
    BY <1>1, <1>3, <1>4 DEF History, Where, Bases, Behind, Over
  <1>8. Counts' /\ Skipped'
    BY <1>1, <1>3, SkippedOn DEF Repeats
  <1> QED  BY <1>4, <1>5, <1>6, <1>7, <1>8 DEF Repeats, History

\* A file is opened no earlier than by the attempt that made the checkpoint.
LEMMA OpenRepeats ==
  ASSUME Inv, AnswerInv, Repeats, OpenBucket
  PROVE  Repeats'
  <1>1. /\ pc = "resolve" /\ pc' = pc /\ todo = <<>> /\ slot < Slots /\ slot' = slot + 1
        /\ todo' = Slotted(slot)
        /\ UNCHANGED <<file, committed, staged, from, orphans, out>>
    BY DEF OpenBucket, Slotted, disk, saved
  <1>2. slot \in Nat /\ Slots \in Nat /\ slot \in 0..(Slots - 1) /\ Len(out) \in Nat /\ committed \in Nat
    BY <1>1 DEF Inv, TypeOK, Slots
  <1>3. PICK T, n, D, B, s, p : History(T, n, D, B, s, p)
    BY DEF Repeats
  <1>4. PICK E : E = [D EXCEPT ![slot] = Len(out)]
    OBVIOUS
  <1>5. /\ D \in [0..Slots -> Nat] /\ B \in [0..Slots -> Nat]
        /\ E \in [0..Slots -> Nat] /\ E[slot] = Len(out)
        /\ \A t \in 0..(slot - 1) : E[t] = D[t]
    BY <1>2, <1>3, <1>4 DEF History
  <1>6. Over(T[n]) /\ Begins(T[n].out, out) /\ (slot = 0 => Len(out) = Len(T[n].out))
    BY <1>1, <1>3 DEF History, Where
  <1>7. \A t \in 0..(Slots - 1) : Slotted(t)' = Slotted(t) /\ Len(Slotted(t)) \in Nat
    <2>1. \A t \in 0..(Slots - 1) : Begins(Slotted(t), Slotted(t)')
      BY <1>1, FilesGrow
    <2> QED  BY <1>1, <2>1 DEF Begins, Slotted
  <1>8. slot > 0 => Len(out) = D[slot - 1] + Len(Slotted(slot - 1))
    <2> SUFFICES ASSUME slot > 0 PROVE Len(out) = D[slot - 1] + Len(Slotted(slot - 1))
      OBVIOUS
    <2>1. Len(out) = D[slot - 1] + Resolved /\ Len(todo) = 0
      BY <1>1, <1>3 DEF History, Bases
    <2>2. Len(Slotted(slot - 1)) \in Nat /\ D[slot - 1] \in Nat
      BY <1>2, <1>5, <1>7
    <2> QED  BY <2>1, <2>2 DEF Resolved
  <1>9. slot' - 1 = slot /\ slot' > 0 /\ Slotted(slot - 1)' = Slotted(slot) /\ todo' = Slotted(slot)
    <2>1. slot' - 1 = slot /\ slot' > 0
      BY <1>1, <1>2
    <2>2. Slotted(slot - 1)' = orphans[<<KindOf(slot' - 1), BucketOf(slot' - 1)>>]
      BY <1>1 DEF Slotted
    <2> QED  BY <1>1, <2>1, <2>2 DEF Slotted
  <1>10. Resolved' = 0
    <2>1. Resolved' = Len(Slotted(slot)) - Len(Slotted(slot)) /\ Len(Slotted(slot)) \in Nat
      BY <1>2, <1>7, <1>9 DEF Resolved
    <2> QED  BY <2>1
  <1>11. Bases(T, n, E)'
    <2>1. E[0] = Len(T[n].out)
      <3>1. CASE slot = 0
        BY <1>5, <1>6, <3>1
      <3>2. CASE slot > 0
        <4>1. D[0] = Len(T[n].out)
          BY <1>3, <3>2 DEF History, Bases
        <4>2. 0 \in 0..(slot - 1)
          BY ONLY <1>2, <3>2
        <4> QED  BY <1>5, <4>1, <4>2
      <3> QED  BY <1>2, <3>1, <3>2
    <2>2. ASSUME NEW t \in 1..slot PROVE E[t] <= E[t - 1] + Len(Slotted(t - 1))
      <3>1. CASE t = slot
        BY <1>2, <1>5, <1>8, <2>2, <3>1
      <3>2. CASE t \in 1..(slot - 1)
        BY <1>2, <1>3, <1>5, <3>2 DEF History, Bases
      <3> QED  BY <1>2, <3>1, <3>2
    <2>3. (\A t \in 1..(slot - 1) : E[t] <= E[t - 1] + Len(Slotted(t - 1)))'
      <3>1. \A t \in 1..slot : t - 1 \in 0..(Slots - 1)
        BY <1>2
      <3> QED  BY <1>7, <1>9, <2>2, <3>1
    <2>4. (Len(todo) <= Len(Slotted(slot - 1)) /\ Len(out) = E[slot - 1] + Resolved)'
      <3>1. Len(Slotted(slot)) <= Len(Slotted(slot)) /\ Len(out) = E[slot] + 0
        BY <1>2, <1>5, <1>7
      <3> QED  BY <1>1, <1>9, <1>10, <3>1
    <2>5. (\A q \in 1..Resolved : out[E[slot - 1] + q].line = Slotted(slot - 1)[q])'
      BY <1>10
    <2>6. (\A q \in 1..Len(todo) : todo[q] = Slotted(slot - 1)[Resolved + q])'
      <3>1. \A q \in 1..Len(Slotted(slot)) : 0 + q = q
        BY <1>2, <1>7
      <3> QED  BY <1>9, <1>10, <3>1
    <2> QED  BY <2>1, <2>3, <2>4, <2>5, <2>6 DEF Bases
  <1>12. SavedResolving(T, n, B, s, p)'
    BY <1>1, <1>3, <1>5, FilesGrow, ResolvingOn DEF History
  <1>13. Behind(T, n, E, B, s)'
    <2> SUFFICES ASSUME committed > Len(T[n].out)
                 PROVE  IF slot + 1 <= s THEN E[slot] >= B[slot] ELSE Len(out) >= committed
      BY <1>1, <1>9 DEF Behind
    <2>1. /\ s \in 1..Slots /\ p \in 0..Len(Slotted(s - 1))
          /\ committed = B[s - 1] + p /\ B[0] = Len(T[n].out)
          /\ \A t \in 1..(s - 1) : B[t] <= B[t - 1] + Len(Slotted(t - 1))
      BY <1>3 DEF History, SavedResolving
    <2>2. slot > 0 => IF slot <= s THEN D[slot - 1] >= B[slot - 1] ELSE Len(out) >= committed
      BY <1>3 DEF History, Behind
    <2>3. CASE slot = 0
      <3>1. E[slot] = Len(out) /\ B[slot] = Len(out)
        BY <1>5, <1>6, <2>1, <2>3
      <3>2. slot + 1 <= s
        BY ONLY <2>1, <2>3
      <3> QED  BY ONLY <1>2, <3>1, <3>2
    <2>4. ASSUME slot > 0, slot <= s
          PROVE  /\ D[slot - 1] \in Nat /\ B[slot - 1] \in Nat /\ Len(Slotted(slot - 1)) \in Nat
                 /\ Len(out) >= B[slot - 1] + Len(Slotted(slot - 1))
      <3>1. slot - 1 \in 0..(Slots - 1) /\ slot - 1 \in 0..Slots
        BY ONLY <1>2, <2>4
      <3>2. D[slot - 1] \in Nat /\ B[slot - 1] \in Nat /\ Len(Slotted(slot - 1)) \in Nat
        BY <1>5, <1>7, <3>1
      <3> QED  BY <1>8, <2>2, <2>4, <3>2
    <2>5. CASE slot > 0 /\ slot < s
      <3>1. B[slot] <= B[slot - 1] + Len(Slotted(slot - 1)) /\ slot + 1 <= s
        BY ONLY <1>2, <2>1, <2>5
      <3>2. B[slot] \in Nat /\ E[slot] = Len(out) /\ s \in Nat
        BY <1>2, <1>5, <2>1
      <3>3. B[slot - 1] \in Nat /\ Len(Slotted(slot - 1)) \in Nat /\ Len(out) >= B[slot - 1] + Len(Slotted(slot - 1))
        BY ONLY <1>2, <2>4, <2>5, <3>2
      <3>4. Len(out) >= B[slot]
        BY ONLY <1>2, <3>1, <3>2, <3>3
      <3> QED  BY <3>1, <3>2, <3>4
    <2>6. CASE slot > 0 /\ slot = s
      BY ONLY <1>2, <2>1, <2>4, <2>6
    <2>7. CASE slot > s
      BY <1>2, <2>1, <2>2, <2>7
    <2> QED  BY <1>2, <2>1, <2>3, <2>5, <2>6, <2>7
  <1>14. Replayed(T, n)' /\ SavedReading(T, n)'
    BY <1>1, <1>3, ReplayedOn, ReadingOn DEF History
  <1>15. Where(T, n)'
    BY <1>1, <1>6, <1>9 DEF Where, Over
  <1>16. Counts' /\ Skipped'
    BY <1>1, <1>2, SkippedOn DEF Repeats
  <1>17. Slots' = Slots
    BY DEF Slots
  <1> QED  BY <1>3, <1>5, <1>11, <1>12, <1>13, <1>14, <1>15, <1>16, <1>17 DEF Repeats, History

\* What the attempt resolves before the checkpoint, that of another has.
LEMMA ResolveRepeats ==
  ASSUME Inv, AnswerInv, Repeats, Resolve
  PROVE  Repeats'
  <1> DEFINE i == Head(todo)
  <1>1. /\ pc = "resolve" /\ pc' = pc /\ todo # <<>> /\ todo' = Tail(todo) /\ slot' = slot
        /\ Handed(i, Verdict(i))
        /\ UNCHANGED <<file, committed, staged, from, orphans>>
    BY DEF Resolve, disk, saved
  <1>2. /\ todo \in Seq(OfSlot(slot)) /\ slot \in 0..Slots /\ Slots \in Nat
        /\ Len(out) \in Nat /\ committed \in Nat
    BY DEF Inv, TypeOK, Slots
  <1>3. /\ i \in OfSlot(slot) /\ i = todo[1] /\ Len(todo) \in Nat /\ Len(todo) >= 1
        /\ Len(todo') = Len(todo) - 1 /\ \A q \in 1..(Len(todo) - 1) : todo'[q] = todo[q + 1]
    BY ONLY <1>1, <1>2
  <1> HIDE DEF i
  <1>4. /\ slot \in 1..Slots /\ slot - 1 \in 0..(Slots - 1) /\ i \in Numbers /\ IsChild(i)
        /\ SlotOf(i) = slot - 1 /\ Verdict(i) \in {"emit", "orphan"}
    <2>1. /\ slot \in 1..Slots /\ slot - 1 \in 0..(Slots - 1) /\ i \in Numbers
          /\ file[i].kind = KindOf(slot - 1) /\ Bucket[file[i].parent] = BucketOf(slot - 1)
      BY <1>2, <1>3 DEF OfSlot, Placed
    <2>2. IsChild(i)
      BY <2>1, SlotsAre DEF IsChild
    <2> QED  BY <2>1, <2>2, SlotOfIs DEF Verdict
  <1>5. /\ Begins(out, out') /\ Len(out') = Len(out) + 1
        /\ out'[Len(out) + 1].line = i
        /\ \A k \in 1..Len(out) : out'[k] = out[k]
    <2>1. [line |-> i, verdict |-> Verdict(i)] \in Records /\ out \in Seq(Records)
      BY <1>4 DEF Records, Inv, TypeOK
    <2>2. PICK r : r = [line |-> i, verdict |-> Verdict(i)]
      OBVIOUS
    <2>3. out' = Append(out, r) /\ r \in Records /\ r.line = i
      BY <1>1, <2>1, <2>2 DEF Handed
    <2>4. Len(out') = Len(out) + 1 /\ out'[Len(out) + 1] = r /\ \A k \in 1..Len(out) : out'[k] = out[k]
      BY ONLY <2>1, <2>3
    <2> QED  BY <1>2, <2>3, <2>4 DEF Begins
  <1>6. PICK T, n, D, B, s, p : History(T, n, D, B, s, p)
    BY DEF Repeats
  <1>7. D \in [0..Slots -> Nat] /\ B \in [0..Slots -> Nat] /\ D[slot - 1] \in Nat /\ B[slot - 1] \in Nat
    BY <1>2, <1>4, <1>6 DEF History
  <1>8. /\ Over(T[n]) /\ Begins(T[n].out, out) /\ Begins(T[n].out, out')
    BY <1>1, <1>5, <1>6, BeginsOn DEF History, Where
  <1>9. PICK f : f = Slotted(slot - 1)
    OBVIOUS
  <1>10. /\ Slotted(slot - 1)' = f /\ Len(f) \in Nat
         /\ \A t \in 0..(Slots - 1) : Begins(Slotted(t), Slotted(t)') /\ Slotted(t)' = Slotted(t)
    <2>1. \A t \in 0..(Slots - 1) : Begins(Slotted(t), Slotted(t)') /\ Slotted(t)' = Slotted(t)
      BY <1>1, FilesGrow DEF Slotted
    <2>2. Slotted(slot - 1)' = f
      BY <1>1, <1>9 DEF Slotted
    <2> QED  BY <1>4, <1>9, <2>1, <2>2 DEF Begins
  <1>11. /\ D[0] = Len(T[n].out)
         /\ \A t \in 1..(slot - 1) : D[t] <= D[t - 1] + Len(Slotted(t - 1))
         /\ Len(todo) <= Len(f) /\ Len(out) = D[slot - 1] + Resolved
         /\ \A q \in 1..Resolved : out[D[slot - 1] + q].line = f[q]
         /\ \A q \in 1..Len(todo) : todo[q] = f[Resolved + q]
    BY <1>4, <1>6, <1>9 DEF History, Bases
  <1>12. Resolved = Len(f) - Len(todo) /\ Resolved' = Resolved + 1 /\ Resolved \in Nat
    <2>1. Resolved = Len(f) - Len(todo) /\ Resolved' = Len(f) - Len(todo')
      BY <1>9, <1>10 DEF Resolved
    <2> QED  BY ONLY <1>3, <1>10, <1>11, <2>1
  <1>13. i = f[Resolved + 1]
    BY <1>3, <1>11
  <1>14. Bases(T, n, D)'
    <2>1. (\A t \in 1..(slot - 1) : D[t] <= D[t - 1] + Len(Slotted(t - 1)))'
      <3>1. \A t \in 1..(slot - 1) : t - 1 \in 0..(Slots - 1)
        BY ONLY <1>2, <1>4
      <3> QED  BY <1>1, <1>10, <1>11, <3>1
    <2>2. Len(todo') <= Len(f) /\ Len(out') = D[slot - 1] + Resolved'
      <3>1. /\ Len(todo) \in Nat /\ Len(todo') = Len(todo) - 1 /\ Len(todo) <= Len(f) /\ Len(f) \in Nat
            /\ Len(out') = Len(out) + 1 /\ Len(out) = D[slot - 1] + Resolved /\ D[slot - 1] \in Nat
            /\ Resolved' = Resolved + 1 /\ Resolved \in Nat
        BY ONLY <1>3, <1>5, <1>7, <1>10, <1>11, <1>12
      <3> QED  BY ONLY <3>1, Z3
    <2>3. ASSUME NEW q \in 1..(Resolved + 1) PROVE out'[D[slot - 1] + q].line = f[q]
      <3>1. CASE q = Resolved + 1
        <4>1. D[slot - 1] + q = Len(out) + 1
          BY ONLY <1>7, <1>11, <1>12, <3>1
        <4> QED  BY <1>5, <1>13, <3>1, <4>1
      <3>2. CASE q \in 1..Resolved
        <4>1. D[slot - 1] + q \in 1..Len(out)
          BY ONLY <1>7, <1>11, <1>12, <3>2
        <4> QED  BY <1>5, <1>11, <3>2, <4>1
      <3> QED  BY <1>12, <3>1, <3>2
    <2>4. ASSUME NEW q \in 1..Len(todo') PROVE todo'[q] = f[Resolved' + q]
      <3>1. q \in 1..(Len(todo) - 1) /\ q + 1 \in 1..Len(todo) /\ Resolved' + q = Resolved + (q + 1)
        BY ONLY <1>3, <1>12, <2>4
      <3> QED  BY <1>3, <1>11, <3>1
    <2> QED  BY <1>1, <1>10, <1>11, <1>12, <2>1, <2>2, <2>3, <2>4 DEF Bases
  <1>15. Behind(T, n, D, B, s)'
    <2>1. committed > Len(T[n].out) =>
            IF slot <= s THEN D[slot - 1] >= B[slot - 1] ELSE Len(out) >= committed
      BY <1>4, <1>6 DEF History, Behind
    <2>2. Len(out) >= committed => Len(out') >= committed
      BY ONLY <1>2, <1>5
    <2> QED  BY <1>1, <2>1, <2>2 DEF Behind
  <1>16. ASSUME Len(out) < committed PROVE Staged(i)
    <2>1. committed > Len(T[n].out)
      BY <1>2, <1>8, <1>16 DEF Begins
    <2>2. /\ s \in 1..Slots /\ p \in Nat /\ committed = B[s - 1] + p
          /\ \A j \in Numbers : IsChild(j) /\ SlotOf(j) < s - 1 => Staged(j)
          /\ \A q \in 1..p : Staged(Slotted(s - 1)[q])
          /\ IF slot <= s THEN D[slot - 1] >= B[slot - 1] ELSE Len(out) >= committed
      BY <1>4, <1>6, <2>1 DEF History, SavedResolving, Behind
    <2>3. CASE slot < s
      <3>1. SlotOf(i) < s - 1
        BY ONLY <1>2, <1>4, <2>2, <2>3
      <3> QED  BY <1>4, <2>2, <3>1
    <2>4. CASE slot = s
      <3>1. /\ committed = B[slot - 1] + p /\ D[slot - 1] >= B[slot - 1]
            /\ D[slot - 1] \in Nat /\ B[slot - 1] \in Nat /\ Resolved \in Nat /\ p \in Nat
            /\ Len(out) = D[slot - 1] + Resolved /\ Len(out) < committed
        BY <1>4, <1>7, <1>11, <1>12, <1>16, <2>2, <2>4
      <3>2. Resolved + 1 \in 1..p
        BY ONLY <3>1
      <3> QED  BY <1>9, <1>13, <2>2, <2>4, <3>2
    <2>5. CASE slot > s
      BY <1>2, <1>16, <2>2, <2>5
    <2> QED  BY <1>2, <2>2, <2>3, <2>4, <2>5
  <1>17. Counts' /\ Skipped'
    BY <1>1, <1>4, <1>5, <1>16, SkippedOn DEF Repeats
  <1>18. SavedResolving(T, n, B, s, p)' /\ Replayed(T, n)' /\ SavedReading(T, n)'
    BY <1>1, <1>6, <1>7, <1>10, ReplayedOn, ReadingOn, ResolvingOn DEF History
  <1>19. Where(T, n)' /\ Slots' = Slots
    BY <1>1, <1>4, <1>8 DEF Where, Over, Slots
  <1> QED  BY <1>6, <1>14, <1>15, <1>17, <1>18, <1>19 DEF Repeats, History

\* A checkpoint counts the records of the attempt that makes it, and they are
\* staged: those it has skipped, and those it has not.
LEMMA SaveStages ==
  ASSUME Inv, Skipped, staged \subseteq Stageable, Save \/ Finish
  PROVE  /\ file' = file /\ staged \subseteq staged' /\ staged' \subseteq Stageable'
         /\ \A k \in DOMAIN out : \A i : out[k].line = i => i \in Numbers /\ Staged(i)'
  <1>1. file' = file /\ staged' = StagedNow
    BY DEF Save, Finish
  <1>2. /\ staged' = staged \cup {out[k].line : k \in {m \in DOMAIN out : m > from /\ out[m].line \in Stageable}}
        /\ \A k \in DOMAIN out : out[k].line \in Numbers
    BY <1>1, StagedNowIs
  <1>3. staged \subseteq staged' /\ staged' \subseteq Stageable
    BY <1>2
  <1>4. Stageable' = Stageable /\ \A i : Staged(i) => Staged(i)'
    BY <1>1, <1>3, StagedOn
  <1>5. ASSUME NEW k \in DOMAIN out, NEW i, out[k].line = i PROVE Staged(i)'
    <2>1. k \in Nat /\ from \in Nat
      BY DEF Inv, TypeOK
    <2>2. CASE k <= from
      BY <1>4, <1>5, <2>2 DEF Skipped
    <2>3. CASE k > from
      <3>1. i \in Stageable => i \in staged'
        BY ONLY <1>2, <1>5, <2>3
      <3> QED  BY <1>4, <3>1 DEF Staged
    <2> QED  BY <2>1, <2>2, <2>3
  <1> QED  BY <1>1, <1>2, <1>3, <1>4, <1>5

\* When a later bucket is open, the lines of the earlier ones have been handed on.
LEMMA EarlierGiven ==
  ASSUME Inv, AnswerInv, pc \in {"resolve", "done"}, NEW i \in Numbers,
         SlotOf(i) < slot - 1 \/ (todo = <<>> /\ slot = Slots)
  PROVE  \E k \in DOMAIN out : out[k].line = i
  <1>1. Copies(<<>>, i) = 0
    <2>1. {k \in DOMAIN <<>> : <<>>[k] = i} = {}
      OBVIOUS
    <2> QED  BY <2>1, FS_EmptySet DEF Copies
  <1>2. buffer = <<>> /\ pos = Len(file) /\ slot \in Nat /\ slot \in 0..Slots /\ Slots \in Nat
    BY DEF AnswerInv, Emptied, Inv, PhaseOK, TypeOK, Slots
  <1>3. Held(i) = 0
    BY <1>1, <1>2 DEF Held
  <1>4. Ahead(i) = 0
    <2>1. CASE ~IsChild(i)
      BY <2>1 DEF Ahead
    <2>2. CASE IsChild(i)
      <3>1. SlotOf(i) \in 0..(Slots - 1)
        BY <2>2, SlotOfIs
      <3>2. CASE SlotOf(i) < slot - 1
        BY <1>2, <2>2, <3>1, <3>2 DEF Ahead
      <3>3. CASE todo = <<>> /\ slot = Slots
        BY <1>1, <1>2, <2>2, <3>1, <3>3 DEF Ahead
      <3> QED  BY <2>2, <3>2, <3>3
    <2> QED  BY <2>1, <2>2
  <1>5. Unread(i) = 0
    BY <1>2 DEF Unread, Numbers, Inv, TypeOK
  <1>6. Given(i) \in Nat /\ Given(i) + 0 + 0 >= 1
    BY <1>3, <1>4, <1>5, CountsTyped DEF AnswerInv, CountedAt, Inv
  <1>7. Given(i) # 0
    BY ONLY <1>6
  <1>8. Cardinality({}) = 0
    BY ONLY FS_EmptySet
  <1>9. HandedOf(i) # {}
    BY ONLY <1>7, <1>8 DEF Given
  <1> QED  BY <1>9 DEF HandedOf

LEMMA SaveRepeats ==
  ASSUME Inv, AnswerInv, Repeats, staged \subseteq Stageable, Save \/ Finish
  PROVE  Repeats'
  <1>1. /\ pc' = pc \/ (pc = "resolve" /\ pc' = "done")
        /\ committed' = Len(out) /\ staged' = StagedNow
        /\ UNCHANGED <<file, pos, recent, order, buffer, orphans, slot, todo, out, from>>
    BY DEF Save, Finish, memory, disk, Counted
  <1>2. Len(out) \in Nat /\ from \in Nat /\ committed \in Nat /\ slot \in 0..Slots /\ Slots \in Nat \ {0}
    BY DEF Inv, TypeOK, Slots
  <1>3. DOMAIN out = 1..Len(out)
    BY DEF Inv, TypeOK
  <1>4. /\ \A k \in DOMAIN out : \A i : out[k].line = i => Staged(i)'
        /\ staged \subseteq staged'
    BY SaveStages DEF Repeats
  <1>5. PICK T, n, D, B, s, p : History(T, n, D, B, s, p)
    BY DEF Repeats
  <1>6. /\ D \in [0..Slots -> Nat] /\ B \in [0..Slots -> Nat] /\ s \in Nat /\ p \in Nat
        /\ n \in Nat \ {0} /\ \A i, j \in 1..n : i <= j => Begins(T[i].out, T[j].out)
    BY <1>5 DEF History, Replayed
  <1>7. pc \in {"read", "drain"} => \E m \in 1..n : T[m].out = out
    BY <1>5 DEF History, Where, Here
  <1>8. pc \notin {"read", "drain"} =>
          Over(T[n]) /\ Begins(T[n].out, out) /\ (slot = 0 => Len(out) = Len(T[n].out))
    BY <1>5 DEF History, Where
  <1>9. ASSUME NEW t \in 0..(Slots - 1) PROVE Len(Slotted(t)) \in Nat /\ Slotted(t)' = Slotted(t)
    BY <1>1, <1>9, FilesGrow DEF Begins, Slotted
  <1>10. SavedReading(T, n)'
    <2>1. ASSUME NEW i \in 1..n, NEW k \in 1..Len(T[i].out), k <= Len(out)
          PROVE  T[i].out[k] = out[k] /\ k \in DOMAIN out
      <3>1. k \in DOMAIN out
        BY <1>2, <1>3, <2>1
      <3>2. CASE pc \in {"read", "drain"}
        <4>1. PICK m \in 1..n : T[m].out = out
          BY <1>7, <3>2
        <4>2. CASE i <= m
          <5>1. Begins(T[i].out, out)
            BY <1>6, <4>1, <4>2
          <5> QED  BY <3>1, <5>1 DEF Begins
        <4>3. CASE m <= i
          <5>1. Begins(out, T[i].out)
            BY <1>6, <4>1, <4>3
          <5> QED  BY <1>3, <3>1, <5>1 DEF Begins
        <4> QED  BY <1>6, <4>2, <4>3
      <3>3. CASE pc \notin {"read", "drain"}
        <4>1. Begins(T[i].out, T[n].out)
          BY <1>6
        <4>2. Begins(T[i].out, out)
          BY <1>8, <3>3, <4>1, BeginsOn
        <4> QED  BY <3>1, <4>2 DEF Begins
      <3> QED  BY <3>2, <3>3
    <2>2. Len(out) <= Len(T[n].out) \/ Over(T[n])
      <3>1. CASE pc \in {"read", "drain"}
        <4>1. PICK m \in 1..n : T[m].out = out
          BY <1>7, <3>1
        <4>2. Begins(out, T[n].out)
          BY <1>6, <4>1
        <4> QED  BY <4>2 DEF Begins
      <3> QED  BY <1>8, <3>1
    <2>3. Over(T[n])' = Over(T[n])
      BY <1>1 DEF Over
    <2> QED  BY <1>1, <1>4, <2>1, <2>2, <2>3 DEF SavedReading
  <1>11. Replayed(T, n)'
    BY <1>1, <1>5, ReplayedOn DEF History
  <1>12. Where(T, n)'
    BY <1>1, <1>5 DEF History, Where, Here, Over
  <1>13. Bases(T, n, D)'
    BY <1>1, <1>5 DEF History, Bases, Resolved, Slotted
  <1>14. PICK c : c = slot
    OBVIOUS
  <1>15. Behind(T, n, D, D, c)'
    <2>1. slot > 0 => D[slot - 1] \in Nat
      BY <1>2, <1>6
    <2> QED  BY <1>1, <1>2, <1>14, <2>1 DEF Behind
  <1>16. slot > 0 =>
           /\ D[0] = Len(T[n].out)
           /\ \A t \in 1..(slot - 1) : D[t] <= D[t - 1] + Len(Slotted(t - 1))
           /\ Len(todo) <= Len(Slotted(slot - 1)) /\ Len(out) = D[slot - 1] + Resolved
           /\ \A q \in 1..Resolved : out[D[slot - 1] + q].line = Slotted(slot - 1)[q]
           /\ slot - 1 \in 0..(Slots - 1) /\ D[slot - 1] \in Nat /\ Len(Slotted(slot - 1)) \in Nat
           /\ Resolved = Len(Slotted(slot - 1)) - Len(todo)
    <2> SUFFICES ASSUME slot > 0
                 PROVE  /\ slot - 1 \in 0..(Slots - 1) /\ D[slot - 1] \in Nat
                        /\ Len(Slotted(slot - 1)) \in Nat
                        /\ Resolved = Len(Slotted(slot - 1)) - Len(todo)
      BY <1>5 DEF History, Bases
    <2>1. slot - 1 \in 0..(Slots - 1) /\ slot - 1 \in 0..Slots
      BY <1>2
    <2> QED  BY <1>6, <1>9, <2>1 DEF Resolved
  <1>17. \E q \in Nat : SavedResolving(T, n, D, c, q)'
    <2>1. CASE Len(out) > Len(T[n].out)
      <3>1. pc \notin {"read", "drain"}
        <4> SUFFICES ASSUME pc \in {"read", "drain"} PROVE FALSE
          OBVIOUS
        <4>1. PICK m \in 1..n : T[m].out = out
          BY <1>7
        <4>2. Begins(out, T[n].out)
          BY <1>6, <4>1
        <4> QED  BY <2>1, <4>2 DEF Begins
      <3>2. slot > 0 /\ slot \in 1..Slots /\ pc \in {"resolve", "done"}
        <4>1. slot > 0 /\ slot \in 1..Slots
          BY <1>2, <1>8, <2>1, <3>1
        <4> QED  BY <3>1, <4>1 DEF AnswerInv, Emptied, Inv, TypeOK
      <3>3. PICK q : q = Resolved
        OBVIOUS
      <3>4. Len(todo) \in Nat
        BY DEF Inv, TypeOK
      <3>5. q \in Nat /\ q \in 0..Len(Slotted(slot - 1)) /\ Len(out) = D[slot - 1] + q
        BY ONLY <1>16, <3>2, <3>3, <3>4
      <3>6. ASSUME NEW i \in Numbers, SlotOf(i) < c - 1 PROVE Staged(i)'
        <4>1. PICK k \in DOMAIN out : out[k].line = i
          BY <1>14, <3>2, <3>6, EarlierGiven
        <4> QED  BY <1>4, <4>1
      <3>7. PICK f : f = Slotted(c - 1)
        OBVIOUS
      <3>8. ASSUME NEW j \in 1..q PROVE Staged(f[j])'
        <4>1. D[slot - 1] + j \in DOMAIN out
          <5>1. D[slot - 1] \in Nat
            BY <1>16, <3>2
          <5> QED  BY ONLY <1>2, <1>3, <3>5, <3>8, <5>1
        <4>2. out[D[slot - 1] + j].line = f[j]
          BY <1>14, <1>16, <3>2, <3>3, <3>7, <3>8
        <4> QED  BY <1>4, <4>1, <4>2
      <3>9. /\ c \in 1..Slots /\ Slotted(c - 1)' = f /\ q \in 0..Len(f)
            /\ committed' = D[c - 1] + q /\ D[0] = Len(T[n].out)
            /\ Slots' = Slots /\ Numbers' = Numbers /\ \A i : SlotOf(i)' = SlotOf(i)
        BY <1>1, <1>9, <1>14, <1>16, <3>2, <3>5, <3>7 DEF Slots, Numbers, SlotOf
      <3>10. (\A t \in 1..(c - 1) : D[t] <= D[t - 1] + Len(Slotted(t - 1)))'
        <4>1. \A t \in 1..(c - 1) : t - 1 \in 0..(Slots - 1)
          BY ONLY <1>2, <1>14
        <4> QED  BY <1>9, <1>14, <1>16, <3>2, <4>1
      <3>11. (\A j \in 1..q : Staged(Slotted(c - 1)[j]))'
        BY <3>8, <3>9
      <3>12. (\A i \in Numbers : IsChild(i) /\ SlotOf(i) < c - 1 => Staged(i))'
        BY <3>6, <3>9
      <3> QED  BY <3>5, <3>9, <3>10, <3>11, <3>12 DEF SavedResolving
    <2>2. CASE ~(Len(out) > Len(T[n].out))
      <3>1. SavedResolving(T, n, D, c, 0)'
        BY <1>1, <2>2 DEF SavedResolving
      <3> QED  BY <3>1
    <2> QED  BY <2>1, <2>2
  <1>18. from <= Len(out)
    <2>1. CASE Save
      BY <1>2, <2>1 DEF Save
    <2>2. CASE Finish /\ Len(out) < from
      <3>1. pc = "resolve" /\ slot = Slots /\ Len(todo) = 0 /\ slot > 0
        BY <1>2, <2>2 DEF Finish
      <3>2. committed > Len(out) /\ committed \in Nat
        BY <1>2, <2>2 DEF Repeats, Counts
      <3>3. committed > Len(T[n].out)
        BY <1>2, <1>8, <3>1, <3>2 DEF Begins
      <3>4. /\ s \in 1..Slots /\ p \in 0..Len(Slotted(s - 1)) /\ committed = B[s - 1] + p
            /\ IF slot <= s THEN D[slot - 1] >= B[slot - 1] ELSE Len(out) >= committed
        BY <1>5, <3>1, <3>3 DEF History, SavedResolving, Behind
      <3>5. slot = s
        BY ONLY <1>2, <3>1, <3>2, <3>4
      <3>6. /\ Len(out) = D[slot - 1] + Len(Slotted(slot - 1)) /\ B[slot - 1] \in Nat
            /\ D[slot - 1] \in Nat /\ Len(Slotted(slot - 1)) \in Nat
        <4>1. /\ Len(out) = D[slot - 1] + Resolved /\ Resolved = Len(Slotted(slot - 1)) - 0
              /\ D[slot - 1] \in Nat /\ Len(Slotted(slot - 1)) \in Nat
          BY <1>16, <3>1
        <4>2. B[slot - 1] \in Nat
          BY <1>2, <1>6, <3>1
        <4> QED  BY <4>1, <4>2
      <3>7. /\ committed = B[slot - 1] + p /\ p \in 0..Len(Slotted(slot - 1))
            /\ D[slot - 1] >= B[slot - 1]
        BY <1>2, <3>1, <3>4, <3>5
      <3> QED  BY ONLY <1>2, <3>2, <3>6, <3>7
    <2> QED  BY <1>2, <2>1, <2>2
  <1>19. Counts'
    BY <1>1, <1>2, <1>18 DEF Counts
  <1>20. Skipped'
    BY <1>1, <1>4 DEF Skipped
  <1>21. PICK q \in Nat : SavedResolving(T, n, D, c, q)'
    BY <1>17
  <1>22. c \in Nat /\ Slots' = Slots
    BY <1>2, <1>14 DEF Slots
  <1> QED  BY <1>6, <1>10, <1>11, <1>12, <1>13, <1>15, <1>19, <1>20, <1>21, <1>22 DEF Repeats, History

\* A new attempt begins where all have begun, and skips what the checkpoint counts.
LEMMA AgainRepeats ==
  ASSUME Inv, AnswerInv, Repeats, Again, ~moved'
  PROVE  Repeats'
  <1>1. /\ pc' = "read" /\ slot' = 0 /\ out' = <<>> /\ from' = committed
        /\ Here' = Start
        /\ staged' = IF committed = 0 THEN {} ELSE staged
        /\ UNCHANGED <<file, committed, orphans>>
    BY DEF Again, disk, Here, Start, Remembered
  <1>2. committed \in Nat
    BY DEF Inv, TypeOK
  <1>3. PICK T, n, D, B, s, p : History(T, n, D, B, s, p)
    BY DEF Repeats
  <1>4. n \in Nat \ {0} /\ T[1] = Start /\ \A i \in 1..n : Len(T[i].out) \in Nat
    BY <1>3 DEF History, Replayed, Begins
  <1>5. SavedReading(T, n)' /\ SavedResolving(T, n, B, s, p)'
    <2>1. CASE committed = 0
      <3>1. \A i \in 1..n : \A k \in 1..Len(T[i].out) : ~(k <= 0)
        BY <1>4
      <3>2. ~(0 > Len(T[n].out)) /\ 0 <= Len(T[n].out)
        BY <1>4
      <3> QED  BY <1>1, <2>1, <3>1, <3>2 DEF SavedReading, SavedResolving
    <2>2. CASE committed # 0
      <3>1. staged \subseteq staged' /\ B \in [0..Slots -> Nat]
        BY <1>1, <1>3, <2>2 DEF History
      <3> QED  BY <1>1, <1>3, <3>1, FilesGrow, ReadingOn, ResolvingOn DEF History
    <2> QED  BY <2>1, <2>2
  <1>6. Replayed(T, n)'
    BY <1>1, <1>3, ReplayedOn DEF History
  <1>7. Where(T, n)' /\ Bases(T, n, D)' /\ Behind(T, n, D, B, s)'
    <2>1. 1 \in 1..n
      BY <1>4
    <2> QED  BY <1>1, <1>4, <2>1 DEF Where, Bases, Behind
  <1>8. Counts' /\ Skipped'
    BY <1>1, <1>2 DEF Counts, Skipped
  <1>9. Slots' = Slots
    BY DEF Slots
  <1> QED  BY <1>3, <1>5, <1>6, <1>7, <1>8, <1>9 DEF Repeats, History

LEMMA StutterRepeats == Repeats /\ UNCHANGED vars => Repeats'
  <1> SUFFICES ASSUME Repeats, UNCHANGED vars PROVE Repeats'
    OBVIOUS
  <1>1. UNCHANGED <<file, pc, pos, recent, order, buffer, orphans, slot, todo, out,
                    committed, from, staged>>
    BY DEF vars, memory, disk, saved
  <1>2. PICK T, n, D, B, s, p : History(T, n, D, B, s, p)
    BY DEF Repeats
  <1>3. Replayed(T, n)' /\ \A h : Over(h)' = Over(h)
    BY <1>1, <1>2, ReplayedOn DEF History
  <1>4. (\A i : Staged(i)' = Staged(i)) /\ Numbers' = Numbers
    BY <1>1 DEF Staged, Stageable, Numbers, ToStage, Contract!Right, Contract!Parents
  <1>5. SavedReading(T, n)' /\ Where(T, n)'
    BY <1>1, <1>2, <1>3, <1>4 DEF History, SavedReading, Where, Here
  <1>6. Bases(T, n, D)' /\ Behind(T, n, D, B, s)'
    BY <1>1, <1>2 DEF History, Bases, Behind, Resolved, Slotted
  <1>7. SavedResolving(T, n, B, s, p)'
    BY <1>1, <1>2, <1>4 DEF History, SavedResolving, Slotted, Slots, IsChild, SlotOf
  <1>8. Counts' /\ Skipped' /\ Slots' = Slots
    BY <1>1, <1>4 DEF Repeats, Counts, Skipped, Slots
  <1> QED  BY <1>2, <1>3, <1>5, <1>6, <1>7, <1>8 DEF Repeats, History

LEMMA ReplayInit == Init => ReplayInv
  <1> SUFFICES ASSUME Init PROVE ReplayInv
    OBVIOUS
  <1>1. /\ pc = "read" /\ slot = 0 /\ out = <<>> /\ committed = 0 /\ from = 0 /\ staged = {}
        /\ Here = Start
    BY DEF Init, Here, Start
  <1>2. PICK T : T = [i \in 1..1 |-> Start]
    OBVIOUS
  <1>3. PICK D : D = [t \in 0..Slots |-> 0]
    OBVIOUS
  <1>4. Start.out = <<>> /\ Len(<<>>) = 0
    BY DEF Start
  <1>5. T[1] = Start /\ (\A i \in 1..1 : i = 1) /\ (\A i \in 1..(1 - 1) : FALSE)
    BY <1>2
  <1>6. Replayed(T, 1)
    BY <1>4, <1>5 DEF Replayed, Begins
  <1>7. SavedReading(T, 1) /\ Where(T, 1) /\ Bases(T, 1, D) /\ SavedResolving(T, 1, D, 0, 0) /\ Behind(T, 1, D, D, 0)
    BY <1>1, <1>4, <1>5 DEF SavedReading, Where, Bases, SavedResolving, Behind
  <1>8. History(T, 1, D, D, 0, 0)
    BY <1>3, <1>6, <1>7 DEF History
  <1>9. Counts /\ Skipped
    BY <1>1 DEF Counts, Skipped
  <1> QED  BY <1>1, <1>8, <1>9 DEF ReplayInv, Repeats

LEMMA ReplayNext == Inv /\ AnswerInv /\ ReplayInv /\ [Next]_vars => ReplayInv'
  <1> SUFFICES ASSUME Inv, AnswerInv, ReplayInv, [Next]_vars PROVE ReplayInv'
    OBVIOUS
  <1>1. CASE Save \/ Finish
    <2>1. moved' = moved /\ (pc' # "done" \/ Finish)
      BY <1>1 DEF Save, Finish, memory
    <2>2. ASSUME ~moved
          PROVE  Repeats' /\ staged' \subseteq Stageable' /\ (pc' = "done" => Stageable' \subseteq staged')
      <3>1. Repeats /\ staged \subseteq Stageable
        BY <2>2 DEF ReplayInv
      <3>2. /\ file' = file /\ staged' \subseteq Stageable'
            /\ \A k \in DOMAIN out : \A i : out[k].line = i => Staged(i)'
        BY <1>1, <3>1, SaveStages DEF Repeats
      <3>3. ASSUME Finish, NEW i \in Stageable' PROVE i \in staged'
        <4>1. i \in Numbers /\ pc \in {"resolve", "done"} /\ todo = <<>> /\ slot = Slots
          BY <3>2, <3>3 DEF Finish, Stageable, Numbers
        <4>2. PICK k \in DOMAIN out : out[k].line = i
          BY <4>1, EarlierGiven
        <4> QED  BY <3>2, <3>3, <4>2 DEF Staged
      <3>4. Repeats'
        BY <1>1, <3>1, SaveRepeats
      <3> QED  BY <2>1, <3>2, <3>3, <3>4
    <2>3. ASSUME moved PROVE staged' \subseteq Stageable'
      <3>1. StagedNow \subseteq Stageable
        BY StagedNowIs DEF ReplayInv
      <3>2. Stageable' = Stageable
        BY <1>1, StagedNowIs, StagedOn DEF Save, Finish
      <3> QED  BY <1>1, <3>1, <3>2 DEF Save, Finish
    <2> QED  BY <2>1, <2>2, <2>3 DEF ReplayInv
  <1>2. CASE Again
    <2>1. pc' # "done" /\ file' = file /\ staged' \subseteq staged /\ (~moved' => ~moved)
      BY <1>2 DEF Again, Inv, TypeOK
    <2>2. Stageable' = Stageable
      BY <2>1 DEF Stageable, Numbers, ToStage, Contract!Right, Contract!Parents
    <2>3. ~moved' => Repeats'
      BY <1>2, <2>1, AgainRepeats DEF ReplayInv
    <2> QED  BY <2>1, <2>2, <2>3 DEF ReplayInv
  <1>3. ASSUME UNCHANGED vars \/ (Next /\ ~(Save \/ Finish \/ Again))
        PROVE  /\ UNCHANGED <<file, staged, moved>> /\ (pc' = "done" => pc = "done")
               /\ Repeats => Repeats'
    <2>1. CASE UNCHANGED vars
      BY <2>1, StutterRepeats DEF vars, memory, saved
    <2>2. CASE ReadParent \/ Drain \/ ReadInvalid \/ ReadChild \/ BufferVariant \/ SpillChild
      BY <2>2, ReadsRepeat, ReadsOn
         DEF ReadParent, Drain, ReadInvalid, ReadChild, BufferVariant, SpillChild, saved
    <2>3. CASE EndOfLines \/ SpillBuffered \/ OpenBucket \/ Resolve
      <3>1. Repeats => Repeats'
        BY <2>3, EndRepeats, SpillRepeats, OpenRepeats, ResolveRepeats
      <3> QED  BY <2>3, <3>1 DEF EndOfLines, SpillBuffered, OpenBucket, Resolve, saved
    <2> QED  BY <1>3, <2>1, <2>2, <2>3 DEF Next
  <1>4. CASE UNCHANGED vars \/ (Next /\ ~(Save \/ Finish \/ Again))
    <2>1. Stageable' = Stageable
      BY <1>3, <1>4, StagedOn
    <2> QED  BY <1>3, <1>4, <2>1 DEF ReplayInv
  <1> QED  BY <1>1, <1>2, <1>4

\* What an attempt skips another has staged, although the attempts of a result hand
\* its records on in different numbers: they read its lines in the same way, and a
\* bucket file that a later attempt resolves begins with what an earlier one found
\* in it.
THEOREM SkippedIsStaged == Spec => []NothingSkippedIsLost
  <1>1. ReplayInv => NothingSkippedIsLost
    <2>1. Stageable = {i \in Numbers : ToStage([line |-> i, verdict |-> Contract!Right(file, i)])}
      BY DEF Stageable
    <2> QED  BY <2>1 DEF ReplayInv, NothingSkippedIsLost
  <1> QED  BY <1>1, ReplayInit, ReplayNext, AnswerInit, AnswerNext, Invariance, PTL DEF Spec

=============================================================================
