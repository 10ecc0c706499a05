-------------------------- MODULE EmbeddingsProofs ---------------------------
(* Proofs about Embeddings: the types of its state, and that two batches of   *)
(* the orchestrator are never open at once.                                   *)
EXTENDS Embeddings, TLAPS

(* The inductive invariant.                                                   *)

\* A processor has a job, at the place of its job; the poller of a batch has the
\* batch it is named for.
Roles ==
    /\ \A w \in Places : proc[w].pc # "idle" => proc[w].job \in Jobs
    /\ \A j \in Jobs : proc[j].pc # "idle" => proc[j].job = j
    /\ \A b \in Slots : proc[Poll(b)].pc # "idle" => proc[Poll(b)].b = b
    /\ \A w \in Places : proc[w].pc \in {"ask", "note", "store", "hand"} => proc[w].b \in Slots
    /\ \A w \in Places :
         proc[w].pc \in {"submit", "hand", "advance"} => proc[w].job \in {Orch, Backfill}

\* The orchestrator that goes on to select has seen no open batch, and none of
\* its own has been opened since.
Clear ==
    proc[Orch].pc \in {"select", "submit"} =>
        \A b \in Slots : ~(IsOpen(b) /\ batch[b].by = "orch")

\* A batch of the orchestrator is ended only when OpenAI has ended it.
EndedThere ==
    \A b \in Slots : batch[b].by = "orch" /\ ~IsOpen(b) => Mapped(batch[b].remote) = "ended"

\* What a poller saw of an ended batch still holds.
SeenHolds ==
    \A b \in Slots :
        /\ proc[Poll(b)].pc = "store" => proc[Poll(b)].seen = "completed"
        /\ proc[Poll(b)].pc \in {"note", "store"} /\ Mapped(proc[Poll(b)].seen) = "ended"
             => batch[b].remote = proc[Poll(b)].seen

\* A poller that is about to note that its batch runs does not open it again.
NoReopening ==
    \A b \in Slots :
        proc[Poll(b)].pc = "note" /\ Mapped(proc[Poll(b)].seen) = "open"
            => IsOpen(b) \/ batch[b].by # "orch"

Core ==
    /\ Roles
    /\ OneOrchestratedBatch
    /\ Clear
    /\ EndedThere
    /\ SeenHolds
    /\ NoReopening

IInv == TypeOK /\ Core

-----------------------------------------------------------------------------
LEMMA JobKinds ==
    /\ Orch \in Jobs /\ Backfill \in Jobs /\ Orch # Backfill
    /\ Late \notin Jobs /\ None \notin Slots
    /\ \A b \in Slots : Poll(b) \in Jobs /\ Poll(b) # Orch /\ Poll(b) # Backfill
    /\ \A b, c \in Slots : Poll(b) = Poll(c) => b = c
    /\ \A j \in Jobs : j = Orch \/ j = Backfill \/ \E b \in Slots : j = Poll(b)
    /\ \A j \in Jobs : j[1] = "orch" => j = Orch
    /\ Orch[1] = "orch" /\ Backfill[1] = "backfill" /\ \A b \in Slots : Poll(b)[1] = "poll"
    /\ \A b \in Slots : Poll(b)[2] = b
    /\ \A j \in Jobs : j[1] = "poll" => j[2] \in Slots /\ j = Poll(j[2])
    /\ \A j \in Jobs : j[1] \in {"orch", "backfill", "poll"}
    /\ \A j \in Jobs : j[2] \in Slots \cup {None}
BY NamesAssumption DEF Jobs, Orch, Backfill, Poll

LEMMA InitInv == Init => IInv
<1>1. SUFFICES ASSUME Init PROVE IInv
  OBVIOUS
<1>2. NoBatch \in Rows /\ NoJob \in [state : {"none", "waiting", "active", "done"},
                                    only : SUBSET Products] /\ Idle \in Processors
  BY DEF NoBatch, NoJob, Idle, Rows, Processors, Remotes
<1>3. TypeOK
  BY <1>1, <1>2, BoundsAssumption DEF Init, TypeOK, Contents
<1>4. \A w \in Places : proc[w].pc = "idle"
  BY <1>1 DEF Init, Idle
<1>5. \A b \in Slots : ~IsOpen(b) /\ batch[b].by # "orch"
  BY <1>1 DEF Init, NoBatch, IsOpen
<1>6. Jobs \subseteq Places /\ Orch \in Places /\ \A b \in Slots : Poll(b) \in Places
  BY JobKinds DEF Places
<1>7. QED
  BY <1>3, <1>4, <1>5, <1>6 DEF IInv, Core, Roles, OneOrchestratedBatch, Clear, EndedThere,
     SeenHolds, NoReopening

-----------------------------------------------------------------------------
(* Steps that leave the batches alone.                                        *)

\* What the processor at place w may become.
MayBecome(w, r) ==
    /\ r.pc # "idle" => r.job \in Jobs /\ (w \in Jobs => r.job = w)
    /\ r.pc \in {"ask", "note", "store", "hand"} => r.b \in Slots
    /\ r.pc \in {"submit", "hand", "advance"} => r.job \in {Orch, Backfill}
    /\ w = Orch /\ r.pc \in {"select", "submit"} =>
         \A b \in Slots : ~(IsOpen(b) /\ batch[b].by = "orch")
    /\ \A b \in Slots : w = Poll(b) =>
         /\ r.pc # "idle" => r.b = b
         /\ r.pc = "store" => r.seen = "completed"
         /\ r.pc \in {"note", "store"} /\ Mapped(r.seen) = "ended" => batch[b].remote = r.seen
         /\ r.pc = "note" /\ Mapped(r.seen) = "open" => IsOpen(b) \/ batch[b].by # "orch"

LEMMA Becomes ==
  ASSUME TypeOK, Core, NEW w \in Places, NEW r, MayBecome(w, r),
         proc' = [proc EXCEPT ![w] = r], batch' = batch
  PROVE  Core'
<1> USE JobKinds
<1>1. proc \in [Places -> Processors]
  BY DEF TypeOK
<1>2. \A x \in Places : proc'[x] = IF x = w THEN r ELSE proc[x]
  BY <1>1
<1>3. Orch \in Places /\ (\A b \in Slots : Poll(b) \in Places) /\ Jobs \subseteq Places
  BY DEF Places
<1>4. \A b \in Slots : IsOpen(b)' = IsOpen(b)
  BY DEF IsOpen
<1>5. Roles'
  BY <1>2, <1>3 DEF Roles, Core, MayBecome
<1>6. OneOrchestratedBatch' /\ EndedThere'
  BY <1>4 DEF OneOrchestratedBatch, EndedThere, Core
<1>7. Clear'
  BY <1>2, <1>3, <1>4 DEF Clear, Core, MayBecome
<1>8. SeenHolds'
  BY <1>2, <1>3 DEF SeenHolds, Core, MayBecome
<1>9. NoReopening'
  BY <1>2, <1>3, <1>4 DEF NoReopening, Core, MayBecome
<1>10. QED
  BY <1>5, <1>6, <1>7, <1>8, <1>9 DEF Core

LEMMA Rests ==
  ASSUME TypeOK, Core, NEW w \in Places, proc' = [proc EXCEPT ![w] = Idle], batch' = batch
  PROVE  Core'
<1>1. MayBecome(w, Idle)
  BY DEF MayBecome, Idle
<1>2. QED
  BY <1>1, Becomes

LEMMA Unmoved ==
  ASSUME Core, proc' = proc, batch' = batch
  PROVE  Core'
BY DEF Core, Roles, OneOrchestratedBatch, Clear, EndedThere, SeenHolds, NoReopening, IsOpen

-----------------------------------------------------------------------------
(* Types of jobs and processors.                                              *)

JobTypes == [Jobs -> [state : {"none", "waiting", "active", "done"}, only : SUBSET Products]]

LEMMA IdleType == Idle \in Processors
BY DEF Idle, Processors, Remotes

LEMMA AddedType ==
  ASSUME NEW jobs \in JobTypes, NEW j \in Jobs, NEW only \in SUBSET Products
  PROVE  Added(jobs, j, only) \in JobTypes
BY DEF Added, JobTypes

LEMMA StateType ==
  ASSUME NEW jobs \in JobTypes, NEW j, NEW s \in {"none", "waiting", "active", "done"}
  PROVE  [jobs EXCEPT ![j].state = s] \in JobTypes
BY DEF JobTypes

LEMMA GoneType ==
  ASSUME NEW jobs \in JobTypes, NEW j
  PROVE  [jobs EXCEPT ![j] = NoJob] \in JobTypes
BY DEF JobTypes, NoJob

LEMMA ProcType ==
  ASSUME TypeOK, NEW w, NEW r \in Processors, proc' = [proc EXCEPT ![w] = r]
  PROVE  proc' \in [Places -> Processors]
BY DEF TypeOK

LEMMA CompleteType ==
  ASSUME TypeOK, NEW w, NEW jobs \in JobTypes, Complete(jobs, w)
  PROVE  job' \in JobTypes /\ proc' \in [Places -> Processors]
<1>1. job' \in JobTypes
  BY StateType DEF Complete
<1>2. QED
  BY <1>1, IdleType, ProcType DEF Complete

LEMMA FailsType ==
  ASSUME TypeOK, NEW j, NEW jobs \in AttemptFailed(j)
  PROVE  jobs \in JobTypes
<1>1. job \in JobTypes
  BY DEF TypeOK, JobTypes
<1>2. QED
  BY <1>1, StateType, GoneType DEF AttemptFailed

\* A step of a processor that ends it, or moves it on, without touching a batch.
LEMMA Ends ==
  ASSUME IInv, NEW w \in Places, NEW jobs \in JobTypes, Complete(jobs, w),
         batch' = batch, content' = content
  PROVE  IInv'
<1>1. Core'
  BY Rests DEF IInv, Complete
<1>2. TypeOK'
  BY CompleteType DEF IInv, TypeOK, JobTypes
<1>3. QED
  BY <1>1, <1>2 DEF IInv

LEMMA GoesOn ==
  ASSUME IInv, NEW w \in Places, NEW r \in Processors, MayBecome(w, r),
         proc' = [proc EXCEPT ![w] = r], job' \in JobTypes, batch' = batch, content' = content
  PROVE  IInv'
<1>1. Core'
  BY Becomes DEF IInv
<1>2. TypeOK'
  BY ProcType DEF IInv, TypeOK, JobTypes
<1>3. QED
  BY <1>1, <1>2 DEF IInv

-----------------------------------------------------------------------------
(* The catalogue, the clock and the queue.                                    *)

LEMMA CatalogueSteps ==
  ASSUME IInv,
         \/ \E p \in Products : SyncStores(p) \/ \E h \in Contents : Edit(p, h)
         \/ ScheduleTick \/ BackfillTick
         \/ \E j \in Jobs : Expire(j)
  PROVE  IInv'
<1>1. proc' = proc /\ batch' = batch
  BY DEF SyncStores, Edit, ScheduleTick, BackfillTick, Expire
<1>2. Core'
  BY <1>1, Unmoved DEF IInv
<1>3. job \in JobTypes
  BY DEF IInv, TypeOK, JobTypes
<1>4. content' \in [Products -> Contents]
  BY DEF SyncStores, Edit, ScheduleTick, BackfillTick, Expire, catalogue, IInv, TypeOK
<1>5. job' \in JobTypes
  <2>1. Products \in SUBSET Products
    OBVIOUS
  <2>2. CASE ScheduleTick \/ BackfillTick
    BY <1>3, <2>1, <2>2, AddedType, JobKinds DEF ScheduleTick, BackfillTick
  <2>3. CASE \E j \in Jobs : Expire(j)
    BY <1>3, <2>3, GoneType DEF Expire
  <2>4. QED
    BY <1>3, <2>2, <2>3 DEF SyncStores, Edit
<1>6. QED
  BY <1>1, <1>2, <1>4, <1>5 DEF IInv, TypeOK, JobTypes

LEMMA TakeStep ==
  ASSUME IInv, NEW j \in Jobs, Take(j)
  PROVE  IInv'
<1> DEFINE r == [Idle EXCEPT !.pc = FirstStep(j[1]), !.job = j, !.only = job[j].only, !.b = j[2]]
<1> USE JobKinds
<1>1. job \in JobTypes /\ job[j].only \in SUBSET Products /\ j \in Places
  BY DEF IInv, TypeOK, JobTypes, Places
<1>2. FirstStep(j[1]) \in {"look", "pick", "ask"} /\ (FirstStep(j[1]) = "ask" => j[1] = "poll")
  BY DEF FirstStep
<1>3. r.pc = FirstStep(j[1]) /\ r.job = j /\ r.b = j[2]
  BY DEF Idle
<1>4. r \in Processors
  BY <1>1, <1>2, IdleType DEF Idle, Processors
<1>5. MayBecome(j, r)
  BY <1>2, <1>3 DEF MayBecome
<1>6. job' \in JobTypes
  BY <1>1, StateType DEF Take
<1>7. QED
  BY <1>1, <1>4, <1>5, <1>6, GoesOn DEF Take, catalogue

LEMMA FailureSteps ==
  ASSUME IInv, NEW w \in Places, Refused(w) \/ Throw(w) \/ Crash(w) \/ NotTaken(w)
  PROVE  IInv'
<1> USE JobKinds
<1>1. job \in JobTypes /\ proc[w] \in Processors /\ proc[w].only \in SUBSET Products
  BY DEF IInv, TypeOK, JobTypes, Processors
<1>2. batch' = batch /\ content' = content
  BY DEF Refused, Throw, Crash, NotTaken, Fails, catalogue
<1>3. CASE Refused(w)
  <2>1. PICK jobs \in JobTypes : Complete(jobs, w)
    BY <1>1, <1>3, AddedType DEF Refused
  <2>2. QED
    BY <1>2, <2>1, Ends
<1>4. CASE Throw(w) \/ Crash(w) \/ NotTaken(w)
  <2>1. job' \in JobTypes
    <3>1. CASE Crash(w)
      BY <1>1, <3>1, StateType DEF Crash
    <3>2. CASE Fails(w)
      <4>1. job' = job \/ job' \in AttemptFailed(proc[w].job)
        BY <3>2 DEF Fails
      <4>2. QED
        BY <1>1, <4>1, FailsType DEF IInv
    <3>3. QED
      BY <1>4, <3>1, <3>2 DEF Throw, NotTaken
  <2>2. proc' = [proc EXCEPT ![w] = Idle]
    BY <1>4 DEF Throw, Crash, NotTaken, Fails
  <2>3. MayBecome(w, Idle)
    BY DEF MayBecome, Idle
  <2>4. QED
    BY <1>2, <2>1, <2>2, <2>3, IdleType, GoesOn
<1>5. QED
  BY <1>3, <1>4

LEMMA TimeOutStep ==
  ASSUME IInv, NEW j \in Jobs, TimeOut(j)
  PROVE  IInv'
<1> USE JobKinds
<1>1. job' \in JobTypes
  BY FailsType DEF TimeOut, IInv
<1>2. proc \in [Places -> Processors] /\ j \in Places /\ Late \in Places /\ Late # j
  BY DEF IInv, TypeOK, Places
<1>3. /\ proc' \in [Places -> Processors]
      /\ \A x \in Places : proc'[x] = IF x = Late THEN proc[j] ELSE IF x = j THEN Idle ELSE proc[x]
  BY <1>2, IdleType DEF TimeOut
<1>4. batch' = batch /\ content' = content
  BY DEF TimeOut, catalogue
<1>5. Orch \in Places /\ (\A b \in Slots : Poll(b) \in Places) /\ Jobs \subseteq Places
  BY DEF Places
<1>6. Idle.pc = "idle"
  BY DEF Idle
<1>7. Roles'
  BY <1>2, <1>3, <1>5, <1>6 DEF Roles, Core, IInv
<1>8. Clear' /\ SeenHolds' /\ NoReopening'
  BY <1>3, <1>4, <1>5, <1>6 DEF Clear, SeenHolds, NoReopening, IsOpen, Core, IInv
<1>9. OneOrchestratedBatch' /\ EndedThere'
  BY <1>4 DEF OneOrchestratedBatch, EndedThere, IsOpen, Core, IInv
<1>10. QED
  BY <1>1, <1>3, <1>4, <1>7, <1>8, <1>9 DEF IInv, TypeOK, JobTypes, Core

-----------------------------------------------------------------------------
(* Batches that OpenAI ends, and that are forgotten.                          *)

LEMMA EndingStep ==
  ASSUME IInv, NEW b \in Slots,
         \/ \E answer \in [batch[b].items -> Answers] : Completes(b, answer)
         \/ \E remote \in {"failed", "cancelled", "expired"} : Breaks(b, remote)
  PROVE  IInv'
<1>1. batch \in [Slots -> Rows] /\ batch[b] \in Rows
  BY DEF IInv, TypeOK
<1>2. batch[b].items \in SUBSET Items
  BY <1>1 DEF Rows
<1>3. batch[b].remote = "running" /\ batch[b].status # "free"
  BY DEF Completes, Breaks
<1>4. PICK remote \in Remotes, answer \in {batch[b].answer} \cup [batch[b].items -> Answers] :
        batch' = [batch EXCEPT ![b].remote = remote, ![b].answer = answer]
  <2>1. CASE \E answer \in [batch[b].items -> Answers] : Completes(b, answer)
    BY <2>1 DEF Completes, Remotes
  <2>2. CASE \E remote \in {"failed", "cancelled", "expired"} : Breaks(b, remote)
    <3>1. PICK remote \in {"failed", "cancelled", "expired"} : Breaks(b, remote)
      BY <2>2
    <3>2. batch' = [batch EXCEPT ![b].remote = remote, ![b].answer = batch[b].answer]
      BY <1>1, <3>1 DEF Breaks, Rows
    <3>3. QED
      BY <3>2 DEF Remotes
  <2>3. QED
    BY <2>1, <2>2
<1>5. proc' = proc /\ job' = job /\ content' = content
  BY DEF Completes, Breaks, catalogue
<1>6. \A c \in Slots : /\ batch'[c].status = batch[c].status /\ batch'[c].by = batch[c].by
                       /\ c # b => batch'[c] = batch[c]
  BY <1>1, <1>4 DEF Rows
<1>7. \A c \in Slots : IsOpen(c)' = IsOpen(c)
  BY <1>6 DEF IsOpen
<1>8. Mapped("running") = "open"
  BY DEF Mapped
<1>9. batch'[b].items = batch[b].items /\ batch'[b] \in Rows
  <2>1. answer \in {<<>>} \cup UNION {[I -> Answers] : I \in SUBSET Items}
    BY <1>1, <1>2, <1>4 DEF Rows
  <2>2. QED
    BY <1>1, <1>4, <2>1 DEF Rows
<1>10. TypeOK'
  BY <1>1, <1>4, <1>5, <1>9 DEF IInv, TypeOK
<1>11. Roles' /\ OneOrchestratedBatch' /\ Clear' /\ NoReopening'
  BY <1>5, <1>6, <1>7 DEF Roles, OneOrchestratedBatch, Clear, NoReopening, Core, IInv
<1>12. EndedThere' /\ SeenHolds'
  BY <1>3, <1>5, <1>6, <1>7, <1>8 DEF EndedThere, SeenHolds, Core, IInv
<1>13. QED
  BY <1>10, <1>11, <1>12 DEF IInv, Core

LEMMA CleanupStep ==
  ASSUME IInv, NEW b \in Slots, Cleanup(b)
  PROVE  IInv'
<1> USE JobKinds
<1>1. batch \in [Slots -> Rows] /\ NoBatch \in Rows
  BY DEF IInv, TypeOK, NoBatch, Rows, Remotes
<1>2. batch' = [batch EXCEPT ![b] = NoBatch] /\ proc' = proc /\ content' = content
  BY DEF Cleanup, catalogue
<1>3. job' \in JobTypes
  <2>1. job \in JobTypes
    BY DEF IInv, TypeOK, JobTypes
  <2>2. QED
    BY <2>1, GoneType DEF Cleanup
<1>4. \A c \in Slots : batch'[c] = IF c = b THEN NoBatch ELSE batch[c]
  BY <1>1, <1>2
<1>5. NoBatch.by = "none" /\ NoBatch.status = "free"
  BY DEF NoBatch
<1>6. \A c \in Slots : IsOpen(c)' => c # b /\ IsOpen(c)
  BY <1>4, <1>5 DEF IsOpen
<1>7. \A c \in Slots : c # b => IsOpen(c)' = IsOpen(c)
  BY <1>4 DEF IsOpen
<1>8. Poll(b) \in Places /\ proc[Poll(b)].pc = "idle"
  BY DEF Cleanup, Unreferenced, Places, Roles, Core, IInv
<1>9. TypeOK'
  BY <1>1, <1>2, <1>3 DEF IInv, TypeOK, JobTypes
<1>10. Roles' /\ OneOrchestratedBatch' /\ Clear' /\ EndedThere'
  BY <1>2, <1>4, <1>5, <1>6, <1>7 DEF Roles, OneOrchestratedBatch, Clear, EndedThere, Core, IInv
<1>11. SeenHolds' /\ NoReopening'
  BY <1>2, <1>4, <1>7, <1>8 DEF SeenHolds, NoReopening, Core, IInv
<1>12. QED
  BY <1>9, <1>10, <1>11 DEF IInv, Core

-----------------------------------------------------------------------------
(* Steps of a processor that leave the batches alone.                         *)

LEMMA StateTypes ==
  ASSUME IInv, NEW w \in Places
  PROVE  /\ job \in JobTypes /\ proc \in [Places -> Processors] /\ proc[w] \in Processors
         /\ batch \in [Slots -> Rows] /\ content \in [Products -> Contents]
         /\ proc[w].pc # "idle" =>
              proc[w].job \in Jobs /\ (w \in Jobs => proc[w].job = w)
BY DEF IInv, TypeOK, JobTypes, Core, Roles, Places

\* The orchestrator's processor is at its own place or past its time-out.
LEMMA AtOrch ==
  ASSUME IInv, NEW w \in Places, NEW pc, At(w, "orch", pc), pc # "idle"
  PROVE  proc[w].pc = pc /\ proc[w].job = Orch /\ \A b \in Slots : w # Poll(b)
<1>1. proc[w].pc = pc /\ proc[w].job[1] = "orch"
  BY DEF At
<1>2. proc[w].job \in Jobs /\ (w \in Jobs => proc[w].job = w)
  BY <1>1, StateTypes
<1>3. proc[w].job = Orch
  BY <1>1, <1>2, JobKinds
<1>4. QED
  BY <1>1, <1>2, <1>3, JobKinds

LEMMA LookStep ==
  ASSUME IInv, NEW w \in Places, Look(w)
  PROVE  IInv'
<1> USE JobKinds, StateTypes
<1>1. job' \in JobTypes /\ batch' = batch /\ content' = content
  BY DEF Look, catalogue
<1>2. proc[w].pc = "look" /\ proc[w].job = Orch /\ \A b \in Slots : w # Poll(b)
  BY AtOrch DEF Look
<1>3. CASE OpenBatches = {} /\ proc' = [proc EXCEPT ![w].pc = "select"]
  <2> DEFINE r == [proc[w] EXCEPT !.pc = "select"]
  <2>1. r \in Processors /\ proc' = [proc EXCEPT ![w] = r] /\ r.pc = "select" /\ r.job = Orch
    BY <1>2, <1>3 DEF Processors
  <2>2. MayBecome(w, r)
    BY <1>2, <1>3, <2>1 DEF MayBecome, OpenBatches
  <2>3. QED
    BY <1>1, <2>1, <2>2, GoesOn
<1>4. ASSUME NEW b \in OpenBatches, proc' = [proc EXCEPT ![w] = [@ EXCEPT !.pc = "hand", !.b = b]]
      PROVE  IInv'
  <2> DEFINE r == [proc[w] EXCEPT !.pc = "hand", !.b = b]
  <2>1. b \in Slots
    BY DEF OpenBatches
  <2>6. proc[w] \in Processors
    BY StateTypes
  <2>2. r \in Processors /\ r.pc = "hand" /\ r.job = Orch /\ r.b = b
    <3> HIDE JobKinds, StateTypes
    <3>1. QED
      BY <1>2, <2>1, <2>6 DEF Processors
  <2>5. proc' = [proc EXCEPT ![w] = r]
    BY <1>4
  <2>3. MayBecome(w, r)
    BY <1>2, <2>1, <2>2 DEF MayBecome
  <2>4. QED
    BY <1>1, <2>2, <2>3, <2>5, GoesOn
<1>5. QED
  BY <1>3, <1>4 DEF Look

\* Select and PickSome go on to submit.
LEMMA ChosenStep ==
  ASSUME IInv, NEW w \in Places, NEW picks \in SUBSET Products, NEW last \in Nat,
         Chosen(w, picks, last), proc[w].pc \in {"select", "pick"},
         proc[w].job \in {Orch, Backfill}, proc[w].pc = "pick" => proc[w].job = Backfill,
         batch' = batch, job' = job, content' = content
  PROVE  IInv'
<1> USE JobKinds, StateTypes
<1> DEFINE items == {<<p, content[p]>> : p \in picks}
           r == [proc[w] EXCEPT !.pc = "submit", !.last = last, !.items = items]
<1>1. items \in SUBSET Items
  BY DEF Items, Hashes
<1>7. proc[w] \in Processors
  BY StateTypes
<1>2. r \in Processors /\ r.pc = "submit" /\ r.job = proc[w].job
  <2> HIDE JobKinds, StateTypes
  <2> HIDE DEF items
  <2>1. QED
    BY <1>1, <1>7 DEF Processors
<1>6. proc' = [proc EXCEPT ![w] = r]
  BY DEF Chosen
<1>3. w = Orch => \A b \in Slots : ~(IsOpen(b) /\ batch[b].by = "orch")
  BY DEF Core, Clear, IInv
<1>4. MayBecome(w, r)
  BY <1>2, <1>3 DEF MayBecome
<1>5. QED
  BY <1>2, <1>4, <1>6, GoesOn

LEMMA SelectStep ==
  ASSUME IInv, NEW w \in Places, Select(w)
  PROVE  IInv'
<1> USE JobKinds, StateTypes
<1> DEFINE candidates == {p \in proc[w].only : Selected(p) /\ Wanted(p, newest[p])}
<1>1. batch' = batch /\ content' = content
  BY DEF Select, catalogue
<1>2. CASE Return(w)
  BY <1>1, <1>2, Ends DEF Return
<1>3. ASSUME NEW picks \in kSubset(Least(MaxItems, Cardinality(candidates)), candidates),
             Chosen(w, picks, 0), job' = job
      PROVE  IInv'
  <2>1. picks \in SUBSET candidates
    BY <1>3 DEF kSubset
  <2>2. candidates \in SUBSET Products
    BY DEF Processors
  <2>3. picks \in SUBSET Products
    BY <2>1, <2>2
  <2>4. QED
    BY <1>1, <1>3, <2>3, ChosenStep DEF Select, At
<1>4. QED
  BY <1>2, <1>3 DEF Select

LEMMA PageType ==
  ASSUME NEW w
  PROVE  Page(w) \in SUBSET Products \/ ~(proc[w].only \in SUBSET Products)
BY DEF Page, FirstOf

LEMMA PickSteps ==
  ASSUME IInv, NEW w \in Places, PickNothing(w) \/ PickSpent(w) \/ PickSome(w) \/ Advance(w)
  PROVE  IInv'
<1> USE JobKinds, StateTypes
<1>1. batch' = batch /\ content' = content
  BY DEF PickNothing, PickSpent, PickSome, Advance, catalogue
<1>2. Page(w) \in SUBSET Products /\ \A last : Rest(last) \in SUBSET Products
  BY PageType DEF Processors, Rest
<1>3. CASE PickNothing(w)
  BY <1>1, <1>3, Ends DEF PickNothing, Return
<1>4. CASE PickSpent(w) \/ Advance(w)
  <2>1. PICK jobs \in JobTypes : Complete(jobs, w)
    BY <1>2, <1>4, AddedType DEF PickSpent, Advance
  <2>2. QED
    BY <1>1, <2>1, Ends
<1>5. CASE PickSome(w)
  <2>1. PICK picks \in SUBSET Products, last \in Page(w) : Chosen(w, picks, last)
    BY <1>2, <1>5 DEF PickSome, FirstOf
  <2>2. last \in Nat
    BY <1>2, BoundsAssumption DEF Products
  <2>3. QED
    BY <1>1, <1>5, <2>1, <2>2, ChosenStep DEF PickSome, At
<1>6. QED
  BY <1>3, <1>4, <1>5

LEMMA HandStep ==
  ASSUME IInv, NEW w \in Places, Hand(w)
  PROVE  IInv'
<1> USE JobKinds, StateTypes
<1> DEFINE jobs == Added(job, Poll(proc[w].b), {})
<1>1. batch' = batch /\ content' = content /\ proc[w].b \in Slots
      /\ proc[w].job \in {Orch, Backfill}
  BY DEF Hand, catalogue, IInv, Core, Roles
<1>2. jobs \in JobTypes
  BY <1>1, AddedType
<1>3. CASE proc[w].job = Orch
  BY <1>1, <1>2, <1>3, Ends DEF Hand
<1>4. CASE proc[w].job = Backfill
  <2> DEFINE r == [proc[w] EXCEPT !.pc = "advance"]
  <2>1. r \in Processors /\ proc' = [proc EXCEPT ![w] = r] /\ r.pc = "advance"
        /\ r.job = Backfill /\ job' = jobs
    BY <1>4 DEF Processors, Hand
  <2>2. MayBecome(w, r)
    BY <1>4, <2>1 DEF MayBecome, Hand
  <2>3. QED
    BY <1>1, <1>2, <2>1, <2>2, GoesOn
<1>5. QED
  BY <1>1, <1>3, <1>4

\* The batch of a poller: a processor in time polls the batch its job is named for.
LEMMA PolledBatch ==
  ASSUME IInv, NEW w \in Places, proc[w].pc \in {"ask", "note", "store"}, proc[w].job[1] = "poll"
  PROVE  /\ proc[w].b \in Slots /\ proc[w].job \in Jobs
         /\ proc[w].job # Orch /\ proc[w].job # Backfill
         /\ w = Late \/ w = Poll(proc[w].b)
BY JobKinds, StateTypes DEF IInv, Core, Roles, Places

LEMMA AskStep ==
  ASSUME IInv, NEW w \in Places, Ask(w)
  PROVE  IInv'
<1> USE JobKinds, StateTypes
<1> DEFINE b == proc[w].b
           seen == batch[b].remote
           r == [proc[w] EXCEPT !.seen = seen, !.pc = IF seen = "completed" THEN "store" ELSE "note"]
<1>1. b \in Slots /\ (w = Late \/ w = Poll(b)) /\ proc[w].job \in Jobs
  BY PolledBatch DEF Ask, At
<1>2. seen \in Remotes /\ proc[w].pc = "ask"
  BY <1>1 DEF Rows, Ask, At
<1>3. /\ r \in Processors /\ proc' = [proc EXCEPT ![w] = r] /\ r.job = proc[w].job /\ r.b = b
      /\ r.seen = seen /\ r.pc = IF seen = "completed" THEN "store" ELSE "note"
  BY <1>2 DEF Processors, Ask
<1>4. Mapped(seen) = "open" => IsOpen(b) \/ batch[b].by # "orch"
  BY <1>1 DEF IInv, Core, EndedThere, Mapped
<1>5. w = Orch \/ (\E j \in Jobs : w = j) => w = proc[w].job
  BY <1>2
<1>6. \A c \in Slots : w = Poll(c) => c = b
  BY <1>1
<1>7. MayBecome(w, r)
  BY <1>1, <1>2, <1>3, <1>4, <1>5, <1>6 DEF MayBecome
<1>8. job' \in JobTypes /\ batch' = batch /\ content' = content
  BY DEF Ask, catalogue
<1>9. QED
  BY <1>3, <1>7, <1>8, GoesOn

LEMMA RetryStep ==
  ASSUME IInv, NEW w \in Places, Retry(w)
  PROVE  IInv'
<1> USE JobKinds, StateTypes
<1>1. batch' = batch /\ content' = content
  BY DEF Retry, catalogue
<1>2. proc[w].only \in SUBSET Products
  BY DEF Processors
<1>3. PICK p \in proc[w].only : Complete(Added(job, Orch, {p}), w)
  BY DEF Retry
<1>4. Added(job, Orch, {p}) \in JobTypes
  BY <1>2, <1>3, AddedType
<1>5. QED
  BY <1>1, <1>3, <1>4, Ends

-----------------------------------------------------------------------------
(* Steps that write a batch.                                                  *)

LEMMA SubmitStep ==
  ASSUME IInv, NEW w \in Places, Submit(w)
  PROVE  IInv'
<1> DEFINE by == IF w = Late THEN "late" ELSE proc[w].job[1]
           items == proc[w].items
           row == [NoBatch EXCEPT !.status = "open", !.items = items, !.by = by]
<1>1. /\ job' = job /\ job \in JobTypes /\ content' = content /\ content \in [Products -> Contents]
      /\ batch \in [Slots -> Rows] /\ proc \in [Places -> Processors] /\ proc[w] \in Processors
  BY StateTypes DEF Submit, catalogue
<1>2. /\ proc[w].job \in {Orch, Backfill} /\ proc[w].pc = "submit" /\ (w # Late => proc[w].job = w)
      /\ \A b \in Slots : w # Poll(b)
  BY JobKinds, StateTypes DEF Submit, IInv, Core, Roles, Places
<1>3. PICK b \in Slots :
        /\ batch[b] = NoBatch /\ batch' = [batch EXCEPT ![b] = row]
        /\ proc' = [proc EXCEPT ![w] = [@ EXCEPT !.pc = "hand", !.b = b, !.items = {}]]
  BY DEF Submit
<1> DEFINE r == [proc[w] EXCEPT !.pc = "hand", !.b = b, !.items = {}]
<1>4. by \in {"orch", "backfill", "late"} /\ (by = "orch" => w = Orch)
  BY <1>2, JobKinds
<1>5. items \in SUBSET Items
  BY <1>1 DEF Processors
<1>6. row \in Rows /\ row.status = "open" /\ row.by = by
  BY <1>4, <1>5 DEF NoBatch, Rows, Remotes
<1>7. row.remote = "running" /\ NoBatch.remote = "running" /\ Mapped("running") = "open"
  BY DEF NoBatch, Mapped
<1>8. r \in Processors /\ r.pc = "hand" /\ r.job = proc[w].job /\ r.b = b
  BY <1>1 DEF Processors
<1> HIDE DEF row, r, by, items
<1>9. \A c \in Slots : batch'[c] = IF c = b THEN row ELSE batch[c]
  BY <1>1, <1>3
<1>10. \A x \in Places : proc'[x] = IF x = w THEN r ELSE proc[x]
  BY <1>1, <1>3 DEF r
<1>11. \A c \in Slots : IsOpen(c)' = (c = b \/ IsOpen(c))
  BY <1>6, <1>9 DEF IsOpen
<1>12. Orch \in Places /\ (\A c \in Slots : Poll(c) \in Places) /\ Jobs \subseteq Places
  BY JobKinds DEF Places
<1>13. TypeOK'
  <2>1. proc' \in [Places -> Processors]
    BY <1>1, <1>3, <1>8 DEF r
  <2>2. QED
    BY <1>1, <1>3, <1>6, <2>1 DEF TypeOK, JobTypes
<1>14. Roles'
  BY <1>1, <1>2, <1>8, <1>10, <1>12, JobKinds, StateTypes DEF Roles, Core, IInv
<1>15. OneOrchestratedBatch'
  BY <1>2, <1>4, <1>6, <1>9, <1>11 DEF OneOrchestratedBatch, Clear, Core, IInv
<1>16. Clear'
  BY <1>4, <1>6, <1>8, <1>9, <1>10, <1>11, <1>12 DEF Clear, Core, IInv
<1>17. EndedThere'
  BY <1>9, <1>11 DEF EndedThere, Core, IInv
<1>18. \A c \in Slots : proc'[Poll(c)] = proc[Poll(c)] /\ batch'[c].remote = batch[c].remote
  BY <1>2, <1>3, <1>7, <1>9, <1>10, <1>12
<1>19. SeenHolds'
  BY <1>18 DEF SeenHolds, Core, IInv
<1>20. NoReopening'
  BY <1>9, <1>11, <1>18 DEF NoReopening, Core, IInv
<1>21. QED
  BY <1>13, <1>14, <1>15, <1>16, <1>17, <1>19, <1>20 DEF IInv, Core

\* A processor writes a status into the row of its batch and goes on to anything
\* but a poll: a poller in time ends what OpenAI has ended, and leaves open only
\* what is open, unless it is no batch of the orchestrator.
LEMMA Writes ==
  ASSUME IInv, NEW w \in Places, NEW b \in Slots, NEW status \in {"open", "ended"},
         NEW r \in Processors, r.pc \in {"idle", "retry"},
         r.pc # "idle" => r.job = proc[w].job /\ r.b = b /\ proc[w].pc # "idle",
         batch' = [batch EXCEPT ![b].status = status, ![b].by = Writer(w)],
         proc' = [proc EXCEPT ![w] = r], job' \in JobTypes, content' = content,
         w = Late \/ w = Poll(b), proc[w].b = b, w # Late => proc[w].pc # "idle",
         w # Late /\ status = "ended" /\ batch[b].by = "orch" => Mapped(batch[b].remote) = "ended",
         w # Late /\ status = "open" => IsOpen(b) \/ batch[b].by # "orch"
  PROVE  IInv'
<1> DEFINE by == Writer(w)
<1>1. batch \in [Slots -> Rows] /\ batch[b] \in Rows /\ proc \in [Places -> Processors]
      /\ content \in [Products -> Contents]
  BY StateTypes
<1>2. by \in {"none", "orch", "backfill", "late"} /\ (by = "orch" => w # Late /\ batch[b].by = "orch")
  BY <1>1 DEF Writer, Rows
<1>3. /\ batch' \in [Slots -> Rows]
      /\ batch'[b].status = status /\ batch'[b].by = by /\ batch'[b].remote = batch[b].remote
      /\ \A c \in Slots \ {b} : batch'[c] = batch[c]
  <2> HIDE DEF by
  <2> DEFINE row == [batch[b] EXCEPT !.status = status, !.by = by]
  <2>1. /\ row \in Rows /\ row.status = status /\ row.by = by /\ row.remote = batch[b].remote
    BY <1>1, <1>2 DEF Rows
  <2>2. batch' = [batch EXCEPT ![b] = row]
    BY <1>1 DEF by, Rows
  <2> HIDE DEF row
  <2>3. \A c \in Slots : batch'[c] = IF c = b THEN row ELSE batch[c]
    BY <1>1, <2>2
  <2>4. batch' \in [Slots -> Rows]
    BY <1>1, <2>1, <2>2
  <2>5. QED
    BY <2>1, <2>3, <2>4
<1>4. \A x \in Places : proc'[x] = IF x = w THEN r ELSE proc[x]
  BY <1>1
<1>5. Orch \in Places /\ (\A c \in Slots : Poll(c) \in Places) /\ Jobs \subseteq Places
      /\ w # Orch /\ \A c \in Slots : w = Poll(c) => c = b
  BY JobKinds DEF Places
<1>6. \A c \in Slots : IsOpen(c)' = IF c = b THEN status = "open" ELSE IsOpen(c)
  BY <1>3 DEF IsOpen
<1> HIDE DEF by
<1>15. by = "orch" /\ status = "open" => IsOpen(b) /\ batch[b].by = "orch"
  BY <1>2
<1>16. \A c \in Slots : IsOpen(c)' /\ batch'[c].by = "orch" => IsOpen(c) /\ batch[c].by = "orch"
  BY <1>3, <1>6, <1>15
<1>7. TypeOK'
  BY <1>1, <1>3 DEF TypeOK, JobTypes
<1>8. Roles'
  BY <1>4, <1>5 DEF Roles, Core, IInv
<1>9. OneOrchestratedBatch'
  BY <1>16 DEF OneOrchestratedBatch, Core, IInv
<1>10. Clear'
  BY <1>4, <1>5, <1>16 DEF Clear, Core, IInv
<1>11. EndedThere'
  BY <1>2, <1>3, <1>6 DEF EndedThere, Core, IInv
<1>12. SeenHolds'
  BY <1>3, <1>4, <1>5 DEF SeenHolds, Core, IInv
<1>13. NoReopening'
  BY <1>2, <1>3, <1>4, <1>5, <1>6 DEF NoReopening, Core, IInv
<1>14. QED
  BY <1>7, <1>8, <1>9, <1>10, <1>11, <1>12, <1>13 DEF IInv, Core

LEMMA NoteStep ==
  ASSUME IInv, NEW w \in Places, Note(w)
  PROVE  IInv'
<1> DEFINE b == proc[w].b
           seen == proc[w].seen
           status == Mapped(seen)
<1>1. /\ b \in Slots /\ (w = Late \/ w = Poll(b)) /\ proc[w].pc = "note"
  BY PolledBatch DEF Note, At
<1>2. status \in {"open", "ended"}
  BY DEF Mapped
<1>3. /\ batch' = [batch EXCEPT ![b].status = status, ![b].by = Writer(w)]
      /\ content' = content
  BY DEF Note, catalogue
<1>4. PICK jobs \in JobTypes : Complete(jobs, w)
  BY <1>1, StateTypes, AddedType, JobKinds DEF Note
<1>5. job' \in JobTypes /\ proc' = [proc EXCEPT ![w] = Idle] /\ Idle.pc = "idle"
  BY <1>4, CompleteType DEF IInv, Complete, Idle
<1>6. w # Late /\ status = "ended" => Mapped(batch[b].remote) = "ended"
  BY <1>1 DEF IInv, Core, SeenHolds
<1>7. w # Late /\ status = "open" => IsOpen(b) \/ batch[b].by # "orch"
  BY <1>1 DEF IInv, Core, NoReopening
<1> HIDE DEF b, seen, status
<1>8. QED
  BY <1>1, <1>2, <1>3, <1>5, <1>6, <1>7, IdleType, Writes DEF b

LEMMA StoreStep ==
  ASSUME IInv, NEW w \in Places, Store(w)
  PROVE  IInv'
<1> DEFINE b == proc[w].b
<1>1. /\ b \in Slots /\ (w = Late \/ w = Poll(b)) /\ proc[w].pc = "store"
  BY PolledBatch DEF Store, At
<1>2. /\ batch' = [batch EXCEPT ![b].status = "ended", ![b].by = Writer(w)]
      /\ content' = content
  BY DEF Store
<1>3. w # Late => Mapped(batch[b].remote) = "ended"
  BY <1>1 DEF IInv, Core, SeenHolds, Mapped
<1>4. proc[w] \in Processors /\ job \in JobTypes
  BY StateTypes
<1>5. CASE Return(w)
  <2>1. job' \in JobTypes /\ proc' = [proc EXCEPT ![w] = Idle] /\ Idle.pc = "idle"
    BY <1>4, <1>5, CompleteType DEF IInv, Return, Complete, Idle
  <2> HIDE DEF b
  <2>2. QED
    BY <1>1, <1>2, <1>3, <2>1, IdleType, Writes DEF b
<1>6. ASSUME NEW again \in SUBSET Products, job' = job,
             proc' = [proc EXCEPT ![w] = [@ EXCEPT !.pc = "retry", !.only = again]]
      PROVE  IInv'
  <2> DEFINE r == [proc[w] EXCEPT !.pc = "retry", !.only = again]
  <2>1. r \in Processors /\ r.pc = "retry" /\ r.job = proc[w].job /\ r.b = b
    BY <1>4 DEF Processors
  <2>2. proc' = [proc EXCEPT ![w] = r]
    BY <1>6
  <2> HIDE DEF b, r
  <2>3. QED
    BY <1>1, <1>2, <1>3, <1>4, <1>6, <2>1, <2>2, Writes DEF b
<1>7. QED
  <2> DEFINE items == batch[b].items
             answer == batch[b].answer
             embedded == {i \in items : answer[i] = "ok"}
             after == [i \in Items |->
               CASE i \in embedded -> [emb[i] EXCEPT !.status = "ready"]
                 [] i \in items /\ answer[i] \in {"error", "refused"} -> Failed(emb[i], answer[i])
                 [] OTHER -> emb[i]]
             again == {i[1] : i \in {x \in items : answer[x] = "error" /\ after[x].retry < MaxRetries}}
  <2>1. \/ Return(w)
        \/ job' = job /\ proc' = [proc EXCEPT ![w] = [@ EXCEPT !.pc = "retry", !.only = again]]
    BY DEF Store
  <2>2. items \in SUBSET Items
    BY <1>1, StateTypes DEF Rows
  <2> HIDE DEF after, answer, items
  <2>3. again \in SUBSET Products
    BY <2>2 DEF Items
  <2> HIDE DEF again
  <2>4. QED
    BY <1>5, <1>6, <2>1, <2>3

-----------------------------------------------------------------------------
LEMMA StepInv ==
  ASSUME IInv, NEW w \in Places, Step(w)
  PROVE  IInv'
BY LookStep, SelectStep, SubmitStep, FailureSteps, HandStep, PickSteps, AskStep, NoteStep,
   StoreStep, RetryStep DEF Step

LEMMA NextInv ==
  ASSUME IInv, [Next]_vars
  PROVE  IInv'
<1>1. CASE \E b \in Slots : Cleanup(b)
  BY <1>1, CleanupStep
<1>2. CASE Act
  BY <1>2, CatalogueSteps, EndingStep, StepInv, FailureSteps, TakeStep, TimeOutStep DEF Act
<1>3. CASE UNCHANGED vars
  <2>1. Core'
    BY <1>3, Unmoved DEF IInv, vars
  <2>2. QED
    BY <1>3, <2>1 DEF IInv, TypeOK, vars
<1>4. QED
  BY <1>1, <1>2, <1>3 DEF Next

LEMMA Invariant == Spec => []IInv
BY InitInv, NextInv, PTL DEF Spec

\* Every step of batch.ts, backfill.ts and retry-scheduler.ts, and every failure of
\* theirs, leaves contents, rows, jobs and processors with the values they may have.
THEOREM Types == Spec => []TypeOK
<1>1. IInv => TypeOK
  BY DEF IInv
<1>2. QED
  BY <1>1, Invariant, PTL

\* The orchestrator never has two batches open: runAiBatchOrchestrator submits only
\* when it has seen none, and runAiBatchPoller does not open an ended one again,
\* for any number of products, batches, places for jobs and troubles.
THEOREM OneBatchAtATime == Spec => []OneOrchestratedBatch
<1>1. IInv => OneOrchestratedBatch
  BY DEF IInv, Core
<1>2. QED
  BY <1>1, Invariant, PTL

=============================================================================
