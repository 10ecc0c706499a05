----------------------------- MODULE Embeddings ------------------------------
(* The embeddings of one shop's products, made by OpenAI batches:             *)
(* processors/ai/{batch,backfill,retry-scheduler,schedule.worker}.ts and the  *)
(* job ids of queue-manager/src/ai.ts.                                        *)
(*                                                                            *)
(* The orchestrator submits a batch of products, or hands the open batch to a *)
(* poller; the poller asks OpenAI and stores the results; the backfill goes   *)
(* through the products in the order of their ids and submits batches of its  *)
(* own.  The jobs of a shop have one id per kind, pollers one per batch, and  *)
(* an id is taken as long as BullMQ keeps a job under it.                     *)
(* A step of a worker is one transaction, one call to OpenAI or one to Redis. *)
EXTENDS Integers, FiniteSets, Sequences, FiniteSetsExt

CONSTANTS
    N,              \* products are 1 .. N, in the order of their ids
    Versions,       \* contents a product may have (bound)
    Concurrency,    \* jobs that may be active at the same time
    Late,           \* the place of a processor whose time-out has won (one at a time)
    Slots,          \* batches OpenAI takes from the shop at a time, and their rows
    None,           \* no hash, no slot, no job, no active backfill run
    MaxItems,       \* maxItems of a batch, and chunkSize of the backfill
    MaxRetries,     \* OPENAI_EMBEDDING_MAX_RETRIES (3)
    Trouble,        \* what may happen beside the scheduler, orchestrator and pollers
    MaxFaults       \* bound on its happening

Products == 1 .. N
Contents == 1 .. Versions   \* their hashes
TitleHash == 0              \* hash of the title and vendor, that the PIM sync embeds
Hashes == Contents \cup {TitleHash}
Items == Products \X Hashes         \* a custom_id: product and content hash
Jobs == ({"orch", "backfill"} \X {None}) \cup ({"poll"} \X Slots)
Orch == <<"orch", None>>
Backfill == <<"backfill", None>>
Poll(b) == <<"poll", b>>
Places == Jobs \cup {Late}  \* a processor has the place of its job, or is late

ASSUME NamesAssumption == None \notin Slots \cup Jobs \cup Nat /\ Late \notin Jobs
ASSUME BoundsAssumption ==
    /\ N \in Nat /\ Concurrency \in Nat \ {0} /\ MaxFaults \in Nat /\ Versions \in Nat \ {0}
    /\ MaxItems \in Nat \ {0} /\ MaxRetries \in Nat \ {0}
ASSUME TroubleAssumption ==
    Trouble \subseteq {"refuse", "throw", "crash", "timeout", "failed", "cancelled",
                       "expired", "edit", "backfill", "sync", "budget"}

VARIABLES
    content,    \* content[p]: hash of the content of product p
    emb,        \* emb[<<p, h>>]: row of shop_product_embeddings
    newest,     \* newest[p]: hash of the row of p that was generated last
    dirty,      \* dirty[p]: p was updated after that row was generated
    batch,      \* batch[b]: row of embedding_batches, and OpenAI's batch
    made,       \* the rows in the order of created_at
    job,        \* job[j]: the BullMQ job under id j
    proc,       \* proc[w]: the processor at place w and its local variables
    cursor,     \* last_product_id of the active backfill run
    faults      \* troubles so far

vars == <<content, emb, newest, dirty, batch, made, job, proc, cursor, faults>>
catalogue == <<content, emb, newest, dirty>>

\* A row is open while it is pending, submitted or processing.
NoBatch == [status |-> "free", items |-> {}, remote |-> "running", answer |-> <<>>,
            by |-> "none"]
NoJob == [state |-> "none", only |-> {}]
Idle == [pc |-> "idle", job |-> None, only |-> {}, b |-> None, items |-> {},
         seen |-> "running", last |-> 0]

Remotes == {"running", "completed", "failed", "cancelled", "expired"}
\* What the files of a completed batch have for an item: an embedding, a passing
\* or a permanent error.  (An item without a line is as one of a failed batch.)
Answers == {"ok", "error", "refused"}
Rows == [status : {"free", "open", "ended"}, items : SUBSET Items, remote : Remotes,
         answer : {<<>>} \cup UNION {[I -> Answers] : I \in SUBSET Items},
         by : {"none", "orch", "backfill", "late"}]
Processors ==
    [pc : {"idle", "look", "select", "pick", "submit", "hand", "advance", "ask", "note",
           "store", "retry"},
     job : Jobs \cup {None}, only : SUBSET Products, b : Slots \cup {None},
     items : SUBSET Items, seen : Remotes, last : Nat]

Init ==
    /\ content = [p \in Products |-> 1]
    /\ emb = [i \in Items |-> [status |-> "none", retry |-> 0]]
    /\ newest = [p \in Products |-> None]
    /\ dirty = [p \in Products |-> FALSE]
    /\ batch = [b \in Slots |-> NoBatch]
    /\ made = <<>>
    /\ job = [j \in Jobs |-> NoJob]
    /\ proc = [w \in Places |-> Idle]
    /\ cursor = None
    /\ faults = 0

-----------------------------------------------------------------------------
(* Helpers.                                                                   *)

Fault(kind) ==
    /\ kind \in Trouble
    /\ faults < MaxFaults
    /\ faults' = faults + 1

\* BullMQ add: nothing happens under the id of a job that still exists.
Added(jobs, j, only) ==
    IF jobs[j].state = "none"
    THEN [jobs EXCEPT ![j] = [state |-> "waiting", only |-> only]]
    ELSE jobs

\* The processor of w returns; one whose time-out has won settles nothing.
Complete(jobs, w) ==
    /\ job' = IF w = Late THEN jobs ELSE [jobs EXCEPT ![proc[w].job].state = "done"]
    /\ proc' = [proc EXCEPT ![w] = Idle]

Return(w) == Complete(job, w)

At(w, type, pc) == proc[w].pc = pc /\ proc[w].job[1] = type

IsOpen(b) == batch[b].status = "open"

\* (Faulty variant, for mutation: LIMIT 1 before the status is looked at.)
OpenIfNewest == {b \in Slots : IsOpen(b) /\ b = made[Len(made)]}

\* The batches in the way of a new one, whoever submitted them.
OpenBatches == {b \in Slots : IsOpen(b)}

NotBefore(b, c) == \E i, k \in DOMAIN made : made[i] = b /\ made[k] = c /\ i >= k

Stored(p) == {h \in Hashes : emb[<<p, h>>].status # "none"}

Least(a, b) == IF a < b THEN a ELSE b
\* The first n products of a set, by id.
FirstOf(S, n) == {p \in S : Cardinality({q \in S : q < p}) < n}

\* computeEmbeddingCandidates of a product and the row it is given: a permanent
\* error or too many retries go to the dead-letter queue, ...
Spent(p, h) ==
    h # None /\ \/ emb[<<p, h>>].status = "rejected"
                \/ emb[<<p, h>>].status = "failed" /\ emb[<<p, h>>].retry >= MaxRetries

\* ... an unchanged content is skipped, and the rest are candidates.  A row that
\* failed is not compared with the content.
Wanted(p, h) ==
    /\ ~Spent(p, h)
    /\ ~(h # None /\ emb[<<p, h>>].status = "ready" /\ h = content[p])

\* (Faulty variant, for mutation: updates do not count.)
SelectedOnce(p) == newest[p] = None \/ emb[<<p, newest[p]>>].status # "ready"

\* The WHERE clause of the orchestrator, which looks at the newest row only.
Selected(p) ==
    \/ newest[p] = None
    \/ emb[<<p, newest[p]>>].status # "ready"
    \/ dirty[p]

-----------------------------------------------------------------------------
(* The catalogue and the clock.                                               *)

\* An ingest updates a product, with or without a new content.
Edit(p, h) ==
    /\ content' = [content EXCEPT ![p] = h]
    /\ IF h = content[p] THEN UNCHANGED faults ELSE Fault("edit")
    /\ dirty' = [dirty EXCEPT ![p] = newest[p] # None]
    /\ UNCHANGED <<emb, newest, batch, made, job, proc, cursor>>

\* The PIM sync of an ingest stores a combined embedding of title and vendor.
SyncStores(p) ==
    /\ Fault("sync")
    /\ emb' = [emb EXCEPT ![<<p, TitleHash>>].status = "ready"]
    /\ newest' = [newest EXCEPT ![p] = TitleHash]
    /\ dirty' = [dirty EXCEPT ![p] = FALSE]
    /\ UNCHANGED <<content, batch, made, job, proc, cursor>>

\* runAiBatchScheduleTick, every minute, and its daily part.
ScheduleTick ==
    /\ job[Orch].state = "none"
    /\ job' = Added(job, Orch, Products)
    /\ UNCHANGED <<catalogue, batch, made, proc, cursor, faults>>

BackfillTick ==
    /\ job[Backfill].state = "none"
    /\ Fault("backfill")
    /\ job' = Added(job, Backfill, Products)
    /\ UNCHANGED <<catalogue, batch, made, proc, cursor>>

\* OpenAI ends a batch; expired is a status mapOpenAiStatus does not know.
Completes(b, answer) ==
    /\ batch[b].status # "free"
    /\ batch[b].remote = "running"
    /\ batch' = [batch EXCEPT ![b].remote = "completed", ![b].answer = answer]
    /\ UNCHANGED <<catalogue, made, job, proc, cursor, faults>>

CompletesWell(b) == Completes(b, [i \in batch[b].items |-> "ok"])

Breaks(b, remote) ==
    /\ batch[b].status # "free"
    /\ batch[b].remote = "running"
    /\ Fault(remote)
    /\ batch' = [batch EXCEPT ![b].remote = remote]
    /\ UNCHANGED <<catalogue, made, job, proc, cursor>>

\* runAiBatchCleanup deletes the files of an ended batch after the retention.  Once
\* no job and no processor refers to the row, nothing tells whether it is there:
\* its slot is free for another, and this happens at once.
Unreferenced(b) ==
    /\ batch[b].status = "ended"
    /\ job[Poll(b)].state \in {"none", "done"}
    /\ \A w \in Places : proc[w].b # b

Cleanup(b) ==
    /\ Unreferenced(b)
    /\ batch' = [batch EXCEPT ![b] = NoBatch]
    /\ made' = SelectSeq(made, LAMBDA x : x # b)
    /\ job' = [job EXCEPT ![Poll(b)] = NoJob]
    /\ UNCHANGED <<catalogue, proc, cursor, faults>>

\* BullMQ keeps a completed job for 24 hours, and until another job of the queue
\* completes: only then does it look at the ages.  Here one completes that is of
\* another shop, or was this shop's last step.  (The poller of an ended batch goes
\* with its row.)
Expire(j) ==
    /\ job[j].state = "done"
    /\ j[1] = "poll" => IsOpen(j[2])
    /\ job' = [job EXCEPT ![j] = NoJob]
    /\ UNCHANGED <<catalogue, batch, made, proc, cursor, faults>>

-----------------------------------------------------------------------------
(* Jobs: taken, refused, thrown, timed out.                                   *)

FirstStep(type) ==
    CASE type = "orch" -> "look" [] type = "backfill" -> "pick" [] type = "poll" -> "ask"

Take(j) ==
    /\ job[j].state = "waiting"
    /\ Cardinality({x \in Jobs : job[x].state = "active"}) < Concurrency
    /\ job' = [job EXCEPT ![j].state = "active"]
    /\ proc' = [proc EXCEPT ![j] =
                  [Idle EXCEPT !.pc = FirstStep(j[1]), !.job = j, !.only = job[j].only,
                               !.b = j[2]]]
    /\ UNCHANGED <<catalogue, batch, made, cursor, faults>>

\* OpenAI is disabled, the budget is spent, all places for batches are taken, or
\* the backfill is outside its hours or throttled: it adds itself, which has no
\* effect while it is active, and returns.
Refused(w) ==
    /\ proc[w].pc \in {"look", "select", "pick", "ask"}
    /\ Fault("refuse")
    /\ Complete(IF proc[w].job = Backfill THEN Added(job, Backfill, proc[w].only) ELSE job, w)
    /\ UNCHANGED <<catalogue, batch, made, cursor>>

\* The attempt failed: the job waits again or, after its last attempt, is
\* dead-lettered and removed.  The attempts are not counted.
AttemptFailed(j) ==
    {[job EXCEPT ![j].state = "waiting"], [job EXCEPT ![j] = NoJob]}

Fails(w) ==
    /\ job' \in (IF w = Late THEN {job} ELSE AttemptFailed(proc[w].job))
    /\ proc' = [proc EXCEPT ![w] = Idle]
    /\ UNCHANGED <<catalogue, batch, made, cursor>>

\* A call fails before it has had an effect, or, for the batch of "submit",
\* after OpenAI accepted it and before there is a row that knows it.
Throw(w) ==
    /\ proc[w].pc # "idle"
    /\ Fault("throw")
    /\ Fails(w)

\* OpenAI takes no more batches.
NotTaken(w) ==
    /\ proc[w].pc = "submit"
    /\ \A b \in Slots : batch[b] # NoBatch
    /\ Fails(w)
    /\ UNCHANGED faults

\* The worker dies: its stalled job runs again.
Crash(w) ==
    /\ proc[w].pc # "idle"
    /\ Fault("crash")
    /\ job' = IF w = Late THEN job ELSE [job EXCEPT ![proc[w].job].state = "waiting"]
    /\ proc' = [proc EXCEPT ![w] = Idle]
    /\ UNCHANGED <<catalogue, batch, made, cursor>>

\* The time-out of createWorker wins; nothing stops the processor.
TimeOut(j) ==
    /\ proc[j].pc # "idle"
    /\ proc[Late].pc = "idle"
    /\ Fault("timeout")
    /\ job' \in AttemptFailed(j)
    /\ proc' = [proc EXCEPT ![Late] = proc[j], ![j] = Idle]
    /\ UNCHANGED <<catalogue, batch, made, cursor>>

-----------------------------------------------------------------------------
(* The orchestrator.                                                          *)

\* (Faulty variant, for mutation: an open batch is left to its poller.)
LookAway(w) ==
    /\ At(w, "orch", "look")
    /\ IF OpenBatches = {}
       THEN proc' = [proc EXCEPT ![w].pc = "select"] /\ UNCHANGED job
       ELSE Return(w)
    /\ UNCHANGED <<catalogue, batch, made, cursor, faults>>

\* The newest open batch is handed to a poller before anything is looked for.
Look(w) ==
    /\ At(w, "orch", "look")
    /\ \/ /\ OpenBatches = {}
          /\ proc' = [proc EXCEPT ![w].pc = "select"]
       \/ \E b \in OpenBatches :
            /\ \A c \in OpenBatches : NotBefore(b, c)
            /\ proc' = [proc EXCEPT ![w] = [@ EXCEPT !.pc = "hand", !.b = b]]
    /\ UNCHANGED <<catalogue, batch, made, job, cursor, faults>>

\* A submitter goes on with these items, taken from their present contents.
Chosen(w, picks, last) ==
    proc' = [proc EXCEPT ![w] = [@ EXCEPT !.pc = "submit", !.last = last,
                                          !.items = {<<p, content[p]>> : p \in picks}]]

\* The products have no order here: any maxItems of the candidates.
Select(w) ==
    /\ At(w, "orch", "select")
    /\ LET candidates == {p \in proc[w].only : Selected(p) /\ Wanted(p, newest[p])}
       IN  IF candidates = {} THEN Return(w)
           ELSE /\ \E picks \in kSubset(Least(MaxItems, Cardinality(candidates)), candidates) :
                      Chosen(w, picks, 0)
                /\ UNCHANGED job
    /\ UNCHANGED <<catalogue, batch, made, cursor, faults>>

\* createBatch and the INSERT of its row, of the orchestrator or the backfill.
Submit(w) ==
    /\ proc[w].pc = "submit"
    /\ \E b \in Slots : batch[b] = NoBatch
    /\ LET b == CHOOSE x \in Slots : batch[x] = NoBatch
       IN  /\ batch' = [batch EXCEPT ![b] =
                        [NoBatch EXCEPT !.status = "open", !.items = proc[w].items,
                                        !.by = IF w = Late THEN "late" ELSE proc[w].job[1]]]
           /\ made' = Append(made, b)
           /\ proc' = [proc EXCEPT ![w] = [@ EXCEPT !.pc = "hand", !.b = b, !.items = {}]]
    /\ UNCHANGED <<catalogue, job, cursor, faults>>

Hand(w) ==
    /\ proc[w].pc = "hand"
    /\ IF proc[w].job = Orch THEN Complete(Added(job, Poll(proc[w].b), {}), w)
       ELSE /\ job' = Added(job, Poll(proc[w].b), {})
            /\ proc' = [proc EXCEPT ![w].pc = "advance"]
    /\ UNCHANGED <<catalogue, batch, made, cursor, faults>>

-----------------------------------------------------------------------------
(* The backfill.                                                              *)

\* getOrCreateBackfillRun: a new run starts before the first product.
Resumed == IF cursor = None THEN 0 ELSE cursor

\* The next page of products that have no embedding.
Page(w) ==
    LET after == IF proc[w].only = Products THEN {p \in Products : p > Resumed}
                 ELSE proc[w].only
    IN  FirstOf({p \in after : \A h \in Hashes : emb[<<p, h>>].status # "ready"}, MaxItems)

\* No order among the rows of a product: existing[p] may be any of them.
Given(page) ==
    {f \in [page -> Hashes \cup {None}] :
        \A p \in page : f[p] \in (IF Stored(p) = {} THEN {None} ELSE Stored(p))}

Rest(last) == {p \in Products : p > last}

\* The active run is completed when the page is empty.
PickNothing(w) ==
    /\ At(w, "backfill", "pick")
    /\ Page(w) = {}
    /\ cursor' = None
    /\ Return(w)
    /\ UNCHANGED <<catalogue, batch, made, faults>>

\* A page of given-up products is passed over; the job that is to go on with the
\* next page has the id of this one.
PickSpent(w) ==
    /\ At(w, "backfill", "pick")
    /\ Page(w) # {}
    /\ \E existing \in Given(Page(w)) : \A p \in Page(w) : ~Wanted(p, existing[p])
    /\ \E last \in Page(w) :
         /\ Rest(last) \cap Page(w) = {}
         /\ cursor' = last
         /\ Complete(Added(job, Backfill, Rest(last)), w)
    /\ UNCHANGED <<catalogue, batch, made, faults>>

\* The daily budget may pay for fewer products than the page has; the cursor
\* will pass the whole page.
PickSome(w) ==
    /\ At(w, "backfill", "pick")
    /\ \E existing \in Given(Page(w)), last \in Page(w) :
         LET candidates == {p \in Page(w) : Wanted(p, existing[p])}
         IN  /\ candidates # {}
             /\ Rest(last) \cap Page(w) = {}
             /\ \E k \in 1 .. Cardinality(candidates) :
                  /\ IF k = Cardinality(candidates) THEN UNCHANGED faults ELSE Fault("budget")
                  /\ Chosen(w, FirstOf(candidates, k), last)
    /\ cursor' = Resumed
    /\ UNCHANGED <<catalogue, batch, made, job>>

\* The run moves past the page; then as in PickSpent.
Advance(w) ==
    /\ At(w, "backfill", "advance")
    /\ cursor' = proc[w].last
    /\ Complete(Added(job, Backfill, Rest(proc[w].last)), w)
    /\ UNCHANGED <<catalogue, batch, made, faults>>

-----------------------------------------------------------------------------
(* The poller.                                                                *)

Ask(w) ==
    /\ At(w, "poll", "ask")
    /\ LET seen == batch[proc[w].b].remote
       IN  proc' = [proc EXCEPT ![w].seen = seen,
                                ![w].pc = IF seen = "completed" THEN "store" ELSE "note"]
    /\ UNCHANGED <<catalogue, batch, made, job, cursor, faults>>

\* mapOpenAiStatus: what it does not know is pending.
Mapped(remote) ==
    IF remote \in {"completed", "failed", "cancelled"} THEN "ended" ELSE "open"

\* What a processor past its time-out writes is marked.
Writer(w) == IF w = Late THEN "late" ELSE batch[proc[w].b].by

\* The answer is written whatever the row says by now; an open batch is polled
\* again by a job that has the id of this one.
Note(w) ==
    /\ At(w, "poll", "note")
    /\ LET b == proc[w].b
           status == Mapped(proc[w].seen)
       IN  /\ batch' = [batch EXCEPT ![b].status = status, ![b].by = Writer(w)]
           /\ Complete(IF status = "open" THEN Added(job, Poll(b), {}) ELSE job, w)
    /\ UNCHANGED <<catalogue, made, cursor, faults>>

\* A failure counts on the row of its content, if there is one.
Failed(row, answer) ==
    IF row.status = "none" THEN row
    ELSE [status |-> IF answer = "refused" THEN "rejected" ELSE "failed",
          retry |-> Least(row.retry + 1, MaxRetries)]

\* The transaction of the poller.
Store(w) ==
    /\ At(w, "poll", "store")
    /\ LET b == proc[w].b
           items == batch[b].items
           answer == batch[b].answer
           embedded == {i \in items : answer[i] = "ok"}
           after == [i \in Items |->
               CASE i \in embedded -> [emb[i] EXCEPT !.status = "ready"]
                 [] i \in items /\ answer[i] \in {"error", "refused"} -> Failed(emb[i], answer[i])
                 [] OTHER -> emb[i]]
           again == {i[1] : i \in {x \in items : answer[x] = "error" /\ after[x].retry < MaxRetries}}
       IN  /\ emb' = after
           /\ newest' = [p \in Products |->
                IF \E i \in embedded : i[1] = p THEN (CHOOSE i \in embedded : i[1] = p)[2]
                ELSE newest[p]]
           /\ dirty' = [p \in Products |-> dirty[p] /\ \A i \in embedded : i[1] # p]
           /\ batch' = [batch EXCEPT ![b].status = "ended", ![b].by = Writer(w)]
           /\ IF again = {} THEN Return(w)
              ELSE /\ proc' = [proc EXCEPT ![w] = [@ EXCEPT !.pc = "retry", !.only = again]]
                   /\ UNCHANGED job
    /\ UNCHANGED <<content, made, cursor, faults>>

\* scheduleEmbeddingRetries: one job per product, all under the id of the
\* orchestrator, so that the first one added is the only one.
Retry(w) ==
    /\ At(w, "poll", "retry")
    /\ \E p \in proc[w].only : Complete(Added(job, Orch, {p}), w)
    /\ UNCHANGED <<catalogue, batch, made, cursor, faults>>

-----------------------------------------------------------------------------
Step(w) ==
    \/ Look(w) \/ Select(w) \/ Submit(w) \/ NotTaken(w) \/ Hand(w)
    \/ PickNothing(w) \/ PickSpent(w) \/ PickSome(w) \/ Advance(w)
    \/ Ask(w) \/ Note(w) \/ Store(w) \/ Retry(w)

Act ==
    \/ \E p \in Products : SyncStores(p) \/ \E h \in Contents : Edit(p, h)
    \/ ScheduleTick
    \/ BackfillTick
    \/ \E b \in Slots :
         \/ \E answer \in [batch[b].items -> Answers] : Completes(b, answer)
         \/ \E remote \in {"failed", "cancelled", "expired"} : Breaks(b, remote)
    \/ \E j \in Jobs : Expire(j)
    \/ \E w \in Places : Step(w) \/ Refused(w) \/ Throw(w) \/ Crash(w)
    \/ \E j \in Jobs : Take(j) \/ TimeOut(j)

Next ==
    \/ \E b \in Slots : Cleanup(b)
    \/ /\ \A b \in Slots : ~Unreferenced(b)
       /\ Act

Spec == Init /\ [][Next]_vars

\* The scheduler ticks, a job that waits is taken in the end and goes on, OpenAI
\* ends a batch in its completion window.  Nothing is assumed of the backfill, of
\* processors past their time-out, and of what other shops and OpenAI make of it.
Fairness ==
    /\ WF_vars(ScheduleTick)
    /\ WF_vars(\E b \in Slots : Cleanup(b))
    /\ \A j \in Jobs \ {Backfill} : WF_vars(Step(j)) /\ SF_vars(Take(j))
    /\ \A b \in Slots : WF_vars(\E answer \in [batch[b].items -> Answers] : Completes(b, answer))

FairSpec == Spec /\ Fairness

-----------------------------------------------------------------------------
(* Properties.                                                                *)

Embedded(p) == emb[<<p, content[p]>>].status = "ready"
\* A result of an earlier content, or the PIM sync, was stored after the last
\* update of the product: its content is not looked at before the next update.
Overtaken(p) ==
    /\ newest[p] \notin {None, content[p]}
    /\ emb[<<p, newest[p]>>].status = "ready"
    /\ ~dirty[p]
GivenUp(p) == Spent(p, newest[p])

\* Types of the state, as far as the code gives them any.
TypeOK ==
    /\ content \in [Products -> Contents]
    /\ batch \in [Slots -> Rows]
    /\ job \in [Jobs -> [state : {"none", "waiting", "active", "done"}, only : SUBSET Products]]
    /\ proc \in [Places -> Processors]

\* Two batches of the orchestrator are never open at once, whatever the backfill,
\* the retries and the crashes do: it submits none while any is open, and a poller
\* ends a batch once.  (What a processor past its time-out wrote is left aside: it
\* may open an ended batch again, or submit on what it read before.)
OneOrchestratedBatch ==
    \A b, c \in Slots :
        IsOpen(b) /\ IsOpen(c) /\ batch[b].by = "orch" /\ batch[c].by = "orch" => b = c

\* The queue goes on after a day: jobs complete that are none of this shop's.  The
\* shop itself cannot see to it: once each of its ids is kept, all it adds is
\* ignored, so that none of its jobs completes and none is forgotten.
OthersComplete == \A j \in Jobs \ {Backfill} : WF_vars(Expire(j))

\* OpenAI does not fail or refuse whatever it is sent: a product without a row is
\* tried for ever, as its failures are counted nowhere.
OpenAIEmbeds == SF_vars(\E b \in Slots : CompletesWell(b))

\* If other shops' jobs complete, an open batch is ended one day, although the job
\* that is to poll it again is not added: the orchestrator hands it on.
EveryBatchEnds == OthersComplete => \A b \in Slots : IsOpen(b) ~> ~IsOpen(b)

\* If other shops' jobs complete and OpenAI embeds, the content of a product has,
\* again and again, its embedding, was overtaken by a later result, or was given up.
ContentIsEmbedded ==
    OthersComplete /\ OpenAIEmbeds =>
        \A p \in Products : []<>(Embedded(p) \/ Overtaken(p) \/ GivenUp(p))

==============================================================================
