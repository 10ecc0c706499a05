------------------------------ MODULE BulkRun --------------------------------
(* The life of the bulk runs of one shop: the rows of bulk_runs, the jobs     *)
(* that drive them (orchestrator, poller, ingest, mutation reconcile), the    *)
(* Shopify operations they start, and the routes that start, upload and       *)
(* cancel.                                                                    *)
(*                                                                            *)
(* A run is named by its idempotency key: insertOrLoadBulkRun never inserts a *)
(* second row under a key that has one.  Uploaded runs have no key and a name *)
(* of their own.  A job id is a job type and a key or run, as in the job ids  *)
(* of queue-manager/src/bulk.ts.  A step of a worker is one database          *)
(* transaction, one call to Shopify or one call to Redis of its processor.    *)
EXTENDS Integers, FiniteSets

CONSTANTS
    Keys,           \* idempotency keys of orchestrator jobs
    MutationKeys,   \* those whose payload is a bulk mutation
    Uploads,        \* runs inserted by POST /bulk/upload
    Workers,        \* processors that may run at the same time
    Ops,            \* Shopify bulk operations that can be started
    DerivedKey,     \* the key derived from the query for a run without a key
    None,           \* no operation, no job, no run
    MaxRetries,     \* max_retries of a row (3)
    MaxAttempts,    \* attempts of a job (3)
    Trouble,        \* what the environment does, beyond the straight path
    MaxFaults       \* bound on crashes, throws, time-outs, lapses and cancels

Runs == Keys \cup Uploads

ASSUME NamesAssumption ==
    /\ MutationKeys \subseteq Keys
    /\ DerivedKey \in Keys
    /\ Keys \cap Uploads = {}
    /\ None \notin Runs \cup Ops \cup Workers
    /\ "dead" \notin Workers \cup {None}
ASSUME BoundsAssumption ==
    /\ MaxRetries \in Nat /\ MaxFaults \in Nat
    /\ MaxAttempts \in Nat \ {0}
ASSUME TroubleAssumption ==
    Trouble \subseteq {"ratelimit", "refuse", "throw", "crash", "timeout", "lapse",
                       "opfail", "opend", "pollage", "cancel", "expire", "lineerrors"}

VARIABLES
    row,        \* row[r]: the row of bulk_runs
    job,        \* job[j]: the BullMQ job under id j
    proc,       \* proc[w]: the processor of worker w and its local variables
    shopify,    \* shopify[o]: what Shopify would answer about operation o
    lock,       \* holder of the shop's bulk lock; "dead" when it crashed
    cancel,     \* the DELETE /bulk/:id request in progress
    faults      \* faults so far

vars == <<row, job, proc, shopify, lock, cancel, faults>>

ActiveStatuses == {"pending", "running", "polling", "downloading", "processing"}
EndedStatuses == {"completed", "failed", "cancelled"}
Statuses == {"absent"} \cup ActiveStatuses \cup EndedStatuses

JobIds == ({"orch"} \X Keys) \cup ({"poll", "ingest", "reconcile"} \X Runs)

\* BULK_RUN_STATUS_TRANSITIONS.
Allowed(from) ==
    CASE from = "pending"     -> {"pending", "running", "failed", "cancelled"}
      [] from = "running"     -> (ActiveStatuses \ {"pending"}) \cup EndedStatuses
      [] from = "polling"     -> {"polling", "downloading", "processing"} \cup EndedStatuses
      [] from = "downloading" -> {"downloading", "processing"} \cup EndedStatuses
      [] from = "processing"  -> {"processing"} \cup EndedStatuses
      [] OTHER                -> {from}

Idle == [pc |-> "idle", job |-> None, run |-> None, op |-> None, goal |-> "none",
         mut |-> FALSE, lost |-> FALSE]
NoCancel == [pc |-> "idle", run |-> None, op |-> None]

Init ==
    /\ row = [r \in Runs |-> [status |-> "absent", op |-> None, retry |-> 0,
                              mut |-> FALSE, partial |-> FALSE, merged |-> FALSE]]
    /\ job = [j \in JobIds |-> [state |-> "none", tries |-> 0, op |-> None]]
    /\ proc = [w \in Workers |-> Idle]
    /\ shopify = [o \in Ops |-> "unused"]
    /\ lock = None
    /\ cancel = NoCancel
    /\ faults = 0

-----------------------------------------------------------------------------
(* Helpers.                                                                   *)

ActiveRuns == {r \in Runs : row[r].status \in ActiveStatuses}

\* (Faulty variant, for mutation: the index as migration 0057 left it.)
OldIndexAllows(r, s) ==
    s \in {"pending", "running"} =>
        \A x \in Runs : row[x].status \in {"pending", "running"} => x = r

\* An UPDATE or INSERT of r to status s passes idx_bulk_runs_active_shop.
IndexAllows(r, s) == s \in ActiveStatuses => ActiveRuns \subseteq {r}

\* (Faulty variant, for mutation: completed jobs are not kept.)
AddedAgain(j, o) ==
    IF job[j].state \in {"none", "done"}
    THEN [job EXCEPT ![j] = [state |-> "waiting", tries |-> 0, op |-> o]]
    ELSE job

\* BullMQ add: nothing happens under the id of a job that still exists.
Added(j, o) ==
    IF job[j].state = "none"
    THEN [job EXCEPT ![j] = [state |-> "waiting", tries |-> 0, op |-> o]]
    ELSE job

Goto(w, pc) == proc' = [proc EXCEPT ![w].pc = pc]

\* assertValidBulkRunTransition and the UPDATE behind it, as two steps.
GotoMark(w, s) == proc' = [proc EXCEPT ![w] = [@ EXCEPT !.pc = "check", !.goal = s]]

At(w, type, pc) == proc[w].pc = pc /\ proc[w].job[1] = type

Fault(kind) ==
    /\ kind \in Trouble
    /\ faults < MaxFaults
    /\ faults' = faults + 1

-----------------------------------------------------------------------------
(* Requests.                                                                  *)

\* POST /bulk/start, /bulk/:id/retry, the scheduler: enqueueBulkOrchestratorJob.
Start(k) ==
    /\ job[<<"orch", k>>].state = "none"
    /\ job' = Added(<<"orch", k>>, None)
    /\ UNCHANGED <<row, proc, shopify, lock, cancel, faults>>

\* POST /bulk/upload inserts a running row and enqueues its ingest; a crash
\* between the two leaves the row alone.
Upload(u) ==
    /\ row[u].status = "absent"
    /\ IndexAllows(u, "running")
    /\ row' = [row EXCEPT ![u].status = "running"]
    /\ \/ job' = Added(<<"ingest", u>>, None) /\ UNCHANGED faults
       \/ Fault("crash") /\ UNCHANGED job
    /\ UNCHANGED <<proc, shopify, lock, cancel>>

\* DELETE /bulk/:id reads the operation id, ...
CancelRead(r) ==
    /\ Fault("cancel")
    /\ cancel.pc = "idle"
    /\ row[r].status # "absent"
    /\ cancel' = [pc |-> IF row[r].op = None THEN "write" ELSE "shopify",
                  run |-> r, op |-> row[r].op]
    /\ UNCHANGED <<row, job, proc, shopify, lock>>

\* ... asks Shopify to cancel it (an error answers 502 and ends the request),
CancelShopify ==
    /\ cancel.pc = "shopify"
    /\ \/ /\ shopify' = IF shopify[cancel.op] = "running"
                        THEN [shopify EXCEPT ![cancel.op] = "canceled"] ELSE shopify
          /\ cancel' = [cancel EXCEPT !.pc = "write"]
       \/ /\ cancel' = NoCancel
          /\ UNCHANGED shopify
    /\ UNCHANGED <<row, job, proc, lock, faults>>

\* and sets the status, whatever it is by then.
CancelWrite ==
    /\ cancel.pc = "write"
    /\ row' = [row EXCEPT ![cancel.run].status = "cancelled"]
    /\ cancel' = NoCancel
    /\ UNCHANGED <<job, proc, shopify, lock, faults>>

-----------------------------------------------------------------------------
(* Workers take jobs, and jobs settle.                                        *)

FirstStep(type) ==
    CASE type = "orch" -> "lock" [] type = "poll" -> "load"
      [] type = "ingest" -> "check" [] type = "reconcile" -> "lines"

Take(w, j) ==
    /\ proc[w].pc = "idle"
    /\ job[j].state = "waiting"
    /\ job' = [job EXCEPT ![j].state = "active"]
    /\ proc' = [proc EXCEPT ![w] =
                  [pc |-> FirstStep(j[1]), job |-> j, run |-> j[2], op |-> job[j].op,
                   goal |-> IF j[1] = "ingest" THEN "downloading" ELSE "none",
                   mut |-> FALSE, lost |-> FALSE]]
    /\ UNCHANGED <<row, shopify, lock, cancel, faults>>

\* A job whose attempts are used up goes to the dead-letter queue and its id is
\* free again (job.remove() in createWorker).
AttemptFailed(j) ==
    IF job[j].tries + 1 < MaxAttempts
    THEN [job EXCEPT ![j] = [@ EXCEPT !.state = "waiting", !.tries = job[j].tries + 1]]
    ELSE [job EXCEPT ![j] = [@ EXCEPT !.state = "none", !.tries = 0]]

\* The processor ends; the orchestrator's finally block releases the lock.
\* What became of the job no longer concerns a processor that lost it.
Settle(w, newjob) ==
    /\ job' = IF proc[w].lost THEN job ELSE newjob
    /\ proc' = [proc EXCEPT ![w] = Idle]
    /\ lock' = IF lock = w THEN None ELSE lock
    /\ UNCHANGED <<row, shopify, cancel, faults>>

Complete(w) ==      \* returned: kept for 24 hours (removeOnComplete)
    /\ proc[w].pc = "complete"
    /\ Settle(w, [job EXCEPT ![proc[w].job].state = "done"])

Rethrow(w) ==       \* threw: an attempt is used
    /\ proc[w].pc = "threw"
    /\ Settle(w, AttemptFailed(proc[w].job))

Postpone(w) ==      \* delay error: rescheduled without using an attempt
    /\ proc[w].pc = "later"
    /\ Settle(w, [job EXCEPT ![proc[w].job].state = "waiting"])

\* The retention of a completed job ends.  Twenty-four hours outlast what was
\* running or waiting then: pollers give up after four hours, a retry is
\* delayed by at most 30 minutes, no queue's time-out is longer.
Expire(j) ==
    /\ "expire" \in Trouble
    /\ \A w \in Workers : proc[w].pc = "idle"
    /\ \A i \in JobIds : job[i].state \notin {"waiting", "active"}
    /\ job[j].state = "done"
    /\ job' = [job EXCEPT ![j] = [@ EXCEPT !.state = "none", !.tries = 0]]
    /\ UNCHANGED <<row, proc, shopify, lock, cancel, faults>>

-----------------------------------------------------------------------------
(* A status change of a worker: the check, in one transaction, and the        *)
(* UPDATE, in another, that no longer looks at the status.                    *)

AfterMark(type, goal) ==
    CASE type = "orch"   -> (IF goal = "running" THEN "hand" ELSE "threw")
      [] type = "poll"   -> (CASE goal = "polling"   -> "ask"
                               [] goal = "completed" -> "salvaged"
                               [] goal = "failed"    -> "complete")
      [] type = "ingest" -> (CASE goal = "downloading" -> "stage"
                               [] goal = "processing"  -> "merge"
                               [] goal = "completed"   -> "complete")

\* Where an error takes the processor: the orchestrator's catch block, except
\* from within it; the poller swallows it when marking and when handing over.
AfterThrow(type, pc, goal) ==
    CASE type = "orch" /\ goal # "failed"                            -> "catch"
      [] type = "poll" /\ pc \in {"check", "mark"} /\ goal = "polling" -> "ask"
      [] type = "poll" /\ pc \in {"hand", "salvaged"}                 -> "complete"
      [] OTHER                                                        -> "threw"

\* bulk_run_invalid_transition contains 'invalid': the orchestrator takes it
\* for a permanent start error, writes to the dead-letter queue and returns.
AfterRefusal(type, goal) ==
    CASE type = "orch" /\ goal = "running" -> "complete"
      [] type = "poll" /\ goal = "polling" -> "ask"
      [] OTHER                             -> "threw"

CheckTransition(w) ==
    /\ proc[w].pc = "check"
    /\ LET p == proc[w]
       IN  Goto(w, IF p.goal \in Allowed(row[p.run].status) THEN "mark"
                   ELSE AfterRefusal(p.job[1], p.goal))
    /\ UNCHANGED <<row, job, shopify, lock, cancel, faults>>

MarkStatus(w) ==
    /\ proc[w].pc = "mark"
    /\ LET p == proc[w]
           recorded == IF p.goal = "running" THEN p.op ELSE row[p.run].op
       IN  IF IndexAllows(p.run, p.goal)
           THEN /\ row' = [row EXCEPT ![p.run] = [@ EXCEPT !.status = p.goal, !.op = recorded]]
                /\ Goto(w, AfterMark(p.job[1], p.goal))
           ELSE /\ Goto(w, AfterThrow(p.job[1], "mark", p.goal))
                /\ UNCHANGED row
    /\ UNCHANGED <<job, shopify, lock, cancel, faults>>

-----------------------------------------------------------------------------
(* The orchestrator.                                                          *)

AcquireLock(w) ==
    /\ At(w, "orch", "lock")
    /\ IF lock = None THEN lock' = w /\ Goto(w, "row")
                      ELSE Goto(w, "later") /\ UNCHANGED lock
    /\ UNCHANGED <<row, job, shopify, cancel, faults>>

\* insertOrLoadBulkRun: the run of the key, whatever its status; else a new
\* row; else, when the index refuses it, the active run of the shop.
LoadRun(w) ==
    /\ At(w, "orch", "row")
    /\ LET k == proc[w].job[2]
           r == IF row[k].status # "absent" \/ IndexAllows(k, "pending") THEN k
                ELSE CHOOSE x \in ActiveRuns : TRUE
       IN  /\ row' = IF row[r].status = "absent"
                     THEN [row EXCEPT ![r].status = "pending"] ELSE row
           /\ proc' = [proc EXCEPT ![w] = [@ EXCEPT !.pc = "patch", !.run = r, !.op = row[r].op]]
    /\ UNCHANGED <<job, shopify, lock, cancel, faults>>

\* (Faulty variants, for mutation: a run that was started is started again;
\* it is left alone.)
PatchContractRestarts(w) ==
    /\ At(w, "orch", "patch")
    /\ row' = [row EXCEPT ![proc[w].run].mut = @ \/ proc[w].job[2] \in MutationKeys]
    /\ Goto(w, "start")
    /\ UNCHANGED <<job, shopify, lock, cancel, faults>>

PatchContractLeaves(w) ==
    /\ At(w, "orch", "patch")
    /\ row' = [row EXCEPT ![proc[w].run].mut = @ \/ proc[w].job[2] \in MutationKeys]
    /\ Goto(w, IF proc[w].op # None THEN "complete" ELSE "start")
    /\ UNCHANGED <<job, shopify, lock, cancel, faults>>

\* The contract goes into cursor_state, beside one that may be there already;
\* a run that has an operation is resumed at its poller.
PatchContract(w) ==
    /\ At(w, "orch", "patch")
    /\ row' = [row EXCEPT ![proc[w].run].mut = @ \/ proc[w].job[2] \in MutationKeys]
    /\ Goto(w, IF proc[w].op # None THEN "hand" ELSE "start")
    /\ UNCHANGED <<job, shopify, lock, cancel, faults>>

StartAccepted(w) ==
    /\ At(w, "orch", "start")
    /\ \E o \in Ops :
        /\ shopify[o] = "unused"
        /\ shopify' = [shopify EXCEPT ![o] = "running"]
        /\ proc' = [proc EXCEPT ![w] = [@ EXCEPT !.pc = "check", !.goal = "running", !.op = o]]
    /\ UNCHANGED <<row, job, lock, cancel, faults>>

\* (Faulty variant, for mutation: the delayed job is dropped.)
StartRateLimitedDrops(w) ==
    /\ "ratelimit" \in Trouble
    /\ At(w, "orch", "start")
    /\ Goto(w, "complete")
    /\ UNCHANGED <<row, job, shopify, lock, cancel, faults>>

StartRateLimited(w) ==
    /\ "ratelimit" \in Trouble
    /\ At(w, "orch", "start")
    /\ Goto(w, "later")
    /\ UNCHANGED <<row, job, shopify, lock, cancel, faults>>

\* A permanent error: dead-letter queue, return.  The row is not touched.
StartRefused(w) ==
    /\ "refuse" \in Trouble
    /\ At(w, "orch", "start")
    /\ Goto(w, "complete")
    /\ UNCHANGED <<row, job, shopify, lock, cancel, faults>>

HandToPoller(w) ==
    /\ At(w, "orch", "hand")
    /\ job' = Added(<<"poll", proc[w].run>>, proc[w].op)
    /\ Goto(w, "complete")
    /\ UNCHANGED <<row, shopify, lock, cancel, faults>>

\* The catch block: the run under the key of the job, if there is one, fails.
Catch(w) ==
    /\ At(w, "orch", "catch")
    /\ LET k == proc[w].job[2]
       IN  proc' = IF row[k].status = "absent"
                   THEN [proc EXCEPT ![w].pc = "threw"]
                   ELSE [proc EXCEPT ![w] = [@ EXCEPT !.pc = "check", !.goal = "failed", !.run = k]]
    /\ UNCHANGED <<row, job, shopify, lock, cancel, faults>>

-----------------------------------------------------------------------------
(* The poller.                                                                *)

PollLoad(w) ==
    /\ At(w, "poll", "load")
    /\ proc' = [proc EXCEPT ![w] = [@ EXCEPT !.mut = row[proc[w].run].mut,
                                           !.pc = "check", !.goal = "polling"]]
    /\ UNCHANGED <<row, job, shopify, lock, cancel, faults>>

\* Older than TIMEOUT_MS (4 hours).
PollTimedOut(w) ==
    /\ "pollage" \in Trouble
    /\ At(w, "poll", "ask")
    /\ GotoMark(w, "failed")
    /\ UNCHANGED <<row, job, shopify, lock, cancel, faults>>

PollNotReady(w) ==
    /\ At(w, "poll", "ask")
    /\ shopify[proc[w].op] = "running"
    /\ Goto(w, "later")
    /\ UNCHANGED <<row, job, shopify, lock, cancel, faults>>

PollCompleted(w) ==
    /\ At(w, "poll", "ask")
    /\ shopify[proc[w].op] = "completed"
    /\ Goto(w, "hand")
    /\ UNCHANGED <<row, job, shopify, lock, cancel, faults>>

\* FAILED, CANCELED, EXPIRED, or COMPLETED without a URL.
PollTerminal(w) ==
    /\ At(w, "poll", "ask")
    /\ LET answer == shopify[proc[w].op]
       IN  /\ answer \in {"transient", "partial", "permanent", "nourl", "canceled"}
           /\ row' = [row EXCEPT ![proc[w].run].partial = @ \/ answer = "partial"]
           /\ IF answer \in {"transient", "partial"} THEN Goto(w, "decide")
                                                     ELSE GotoMark(w, "failed")
    /\ UNCHANGED <<job, shopify, lock, cancel, faults>>

\* (Faulty variant, for mutation: one retry too many.)
DecideLate(w) ==
    /\ At(w, "poll", "decide")
    /\ LET r == row[proc[w].run]
       IN  IF r.retry <= MaxRetries THEN Goto(w, "reset")
           ELSE GotoMark(w, IF r.partial THEN "completed" ELSE "failed")
    /\ UNCHANGED <<row, job, shopify, lock, cancel, faults>>

\* enqueueRetryOrDlq reads the retry count and, when it is spent, the partial URL.
Decide(w) ==
    /\ At(w, "poll", "decide")
    /\ LET r == row[proc[w].run]
       IN  IF r.retry < MaxRetries THEN Goto(w, "reset")
           ELSE GotoMark(w, IF r.partial THEN "completed" ELSE "failed")
    /\ UNCHANGED <<row, job, shopify, lock, cancel, faults>>

\* requestBulkRetry: unconditional but for the index.
RequestRetry(w) ==
    /\ At(w, "poll", "reset")
    /\ LET r == proc[w].run
       IN  IF IndexAllows(r, "pending")
           THEN /\ row' = [row EXCEPT ![r] = [@ EXCEPT !.status = "pending", !.op = None,
                                                !.retry = row[r].retry + 1]]
                /\ Goto(w, "requeue")
           ELSE Goto(w, "threw") /\ UNCHANGED row
    /\ UNCHANGED <<job, shopify, lock, cancel, faults>>

\* The contract lookup throws for a mutation; else the orchestrator job of the
\* run's key is added - and BullMQ ignores it while the last one is kept.
RequeueOrchestrator(w) ==
    /\ At(w, "poll", "requeue")
    /\ LET r == proc[w].run
           k == IF r \in Keys THEN r ELSE DerivedKey
       IN  IF r \in MutationKeys
           THEN Goto(w, "threw") /\ UNCHANGED job
           ELSE Goto(w, "complete") /\ job' = Added(<<"orch", k>>, None)
    /\ UNCHANGED <<row, shopify, lock, cancel, faults>>

\* (Faulty variant, for mutation: nothing is handed over.)
HandOverNothing(w) ==
    /\ At(w, "poll", "hand")
    /\ Goto(w, "complete")
    /\ UNCHANGED <<row, job, shopify, lock, cancel, faults>>

HandOver(w) ==
    /\ At(w, "poll", "hand")
    /\ job' = Added(<<IF proc[w].mut THEN "reconcile" ELSE "ingest", proc[w].run>>, proc[w].op)
    /\ Goto(w, "complete")
    /\ UNCHANGED <<row, shopify, lock, cancel, faults>>

Salvaged(w) ==
    /\ At(w, "poll", "salvaged")
    /\ job' = IF row[proc[w].run].mut THEN Added(<<"reconcile", proc[w].run>>, proc[w].op)
              ELSE job
    /\ Goto(w, "complete")
    /\ UNCHANGED <<row, shopify, lock, cancel, faults>>

-----------------------------------------------------------------------------
(* Ingest and reconcile, as far as they touch the run.                        *)

\* (Faulty variant, for mutation: completed without the merge.)
StageCompletes(w) ==
    /\ At(w, "ingest", "stage")
    /\ GotoMark(w, "completed")
    /\ UNCHANGED <<row, job, shopify, lock, cancel, faults>>

\* Download, COPY to staging, checkpoint.
Stage(w) ==
    /\ At(w, "ingest", "stage")
    /\ GotoMark(w, "processing")
    /\ UNCHANGED <<row, job, shopify, lock, cancel, faults>>

\* runMergeFromStaging and the PIM synchronisation.
MergeStaging(w) ==
    /\ At(w, "ingest", "merge")
    /\ row' = [row EXCEPT ![proc[w].run].merged = TRUE]
    /\ proc' = [proc EXCEPT ![w] = [@ EXCEPT !.pc = "check", !.goal = "completed"]]
    /\ UNCHANGED <<job, shopify, lock, cancel, faults>>

\* The reconcile worker reports on the result lines; it never ends the run.
ReconcileLines(w) ==
    /\ At(w, "reconcile", "lines")
    /\ Goto(w, "complete")
    /\ UNCHANGED <<row, job, shopify, lock, cancel, faults>>

\* insertBulkError with a line number: too many of them fail the run.
ErrorRateAbort(w) ==
    /\ "lineerrors" \in Trouble
    /\ At(w, "ingest", "stage") \/ At(w, "reconcile", "lines")
    /\ row[proc[w].run].status # "failed"
    /\ row' = [row EXCEPT ![proc[w].run].status = "failed"]
    /\ UNCHANGED <<job, proc, shopify, lock, cancel, faults>>

-----------------------------------------------------------------------------
(* The environment.                                                           *)

\* Shopify ends an operation: with a URL; for good reasons of its own without
\* one ("opend"); or in a way classifyBulkTerminalFailure retries ("opfail"),
\* perhaps with a partial URL.
ShopifyEnds(o) ==
    /\ shopify[o] = "running"
    /\ \E answer \in {"completed"}
                     \cup (IF "opend" \in Trouble THEN {"permanent", "nourl"} ELSE {})
                     \cup (IF "opfail" \in Trouble THEN {"transient", "partial"} ELSE {}) :
        shopify' = [shopify EXCEPT ![o] = answer]
    /\ UNCHANGED <<row, job, proc, lock, cancel, faults>>

\* A database, Redis or HTTP error at the step the processor is at.
Throw(w) ==
    /\ proc[w].pc \notin {"idle", "lock", "complete", "threw", "later"}
    /\ Fault("throw")
    /\ Goto(w, AfterThrow(proc[w].job[1], proc[w].pc, proc[w].goal))
    /\ UNCHANGED <<row, job, shopify, lock, cancel>>

\* The worker dies: its stalled job runs again, its lock stays until it expires.
Crash(w) ==
    /\ proc[w].pc # "idle"
    /\ Fault("crash")
    /\ job' = IF proc[w].lost THEN job ELSE [job EXCEPT ![proc[w].job].state = "waiting"]
    /\ proc' = [proc EXCEPT ![w] = Idle]
    /\ lock' = IF lock = w THEN "dead" ELSE lock
    /\ UNCHANGED <<row, shopify, cancel>>

DeadLockExpires ==
    /\ lock = "dead"
    /\ lock' = None
    /\ UNCHANGED <<row, job, proc, shopify, cancel, faults>>

\* The time-out of createWorker wins the race: the attempt has failed, but
\* nothing stops the processor.
TimeOut(w) ==
    /\ proc[w].pc # "idle"
    /\ ~proc[w].lost
    /\ Fault("timeout")
    /\ job' = AttemptFailed(proc[w].job)
    /\ proc' = [proc EXCEPT ![w].lost = TRUE]
    /\ UNCHANGED <<row, shopify, lock, cancel>>

\* The lease of a live holder runs out (module BulkLock).
LeaseLapses ==
    /\ lock \in Workers
    /\ Fault("lapse")
    /\ lock' = None
    /\ UNCHANGED <<row, job, proc, shopify, cancel>>

-----------------------------------------------------------------------------
Orchestrate(w) ==
    \/ AcquireLock(w) \/ LoadRun(w) \/ PatchContract(w)
    \/ StartAccepted(w) \/ StartRateLimited(w) \/ StartRefused(w)
    \/ HandToPoller(w) \/ Catch(w)

Poll(w) ==
    \/ PollLoad(w) \/ PollTimedOut(w) \/ PollNotReady(w) \/ PollCompleted(w)
    \/ PollTerminal(w) \/ Decide(w) \/ RequestRetry(w) \/ RequeueOrchestrator(w)
    \/ HandOver(w) \/ Salvaged(w)

Ingest(w) == Stage(w) \/ MergeStaging(w) \/ ReconcileLines(w) \/ ErrorRateAbort(w)

Finish(w) == Complete(w) \/ Rethrow(w) \/ Postpone(w)

WorkerStep(w) ==
    \/ CheckTransition(w) \/ MarkStatus(w)
    \/ Orchestrate(w) \/ Poll(w) \/ Ingest(w) \/ Finish(w)

Next ==
    \/ \E k \in Keys : Start(k)
    \/ \E u \in Uploads : Upload(u)
    \/ \E r \in Runs : CancelRead(r)
    \/ CancelShopify \/ CancelWrite
    \/ \E w \in Workers :
        \/ \E j \in JobIds : Take(w, j)
        \/ WorkerStep(w)
        \/ Throw(w) \/ Crash(w) \/ TimeOut(w)
    \/ \E j \in JobIds : Expire(j)
    \/ \E o \in Ops : ShopifyEnds(o)
    \/ DeadLockExpires \/ LeaseLapses

\* Workers take jobs and their processors go on; Shopify operations end; Redis
\* expires the key of a dead holder.  No request and no trouble is promised.
Fairness ==
    /\ \A w \in Workers : WF_vars(WorkerStep(w))
    /\ \A j \in JobIds : SF_vars(\E w \in Workers : Take(w, j))
    /\ \A o \in Ops : WF_vars(ShopifyEnds(o))
    /\ WF_vars(CancelShopify) /\ WF_vars(CancelWrite)
    /\ WF_vars(DeadLockExpires)

Spec == Init /\ [][Next]_vars
FairSpec == Spec /\ Fairness

-----------------------------------------------------------------------------
(* The type of every variable.                                                *)
RowType == [status : Statuses, op : Ops \cup {None}, retry : Nat,
            mut : BOOLEAN, partial : BOOLEAN, merged : BOOLEAN]
JobType == [state : {"none", "waiting", "active", "done"}, tries : 0 .. MaxAttempts - 1,
            op : Ops \cup {None}]
PCs == {"idle", "lock", "row", "patch", "start", "check", "mark", "hand", "catch",
        "load", "ask", "decide", "reset", "requeue", "salvaged", "stage", "merge",
        "lines", "complete", "threw", "later"}
ProcType == [pc : PCs, job : JobIds \cup {None}, run : Runs \cup {None},
             op : Ops \cup {None}, goal : {"none"} \cup Statuses,
             mut : BOOLEAN, lost : BOOLEAN]
TypeOK ==
    /\ row \in [Runs -> RowType]
    /\ job \in [JobIds -> JobType]
    /\ proc \in [Workers -> ProcType]
    /\ shopify \in [Ops -> {"unused", "running", "completed", "nourl", "transient",
                            "partial", "permanent", "canceled"}]
    /\ lock \in Workers \cup {None, "dead"}
    /\ cancel \in [pc : {"idle", "shopify", "write"}, run : Runs \cup {None},
                   op : Ops \cup {None}]
    /\ faults \in 0 .. MaxFaults

(* A shop never has two active runs, although seven places write a status     *)
(* without looking at the other rows (idx_bulk_runs_active_shop).             *)
OneActiveRun == \A r, s \in ActiveRuns : r = s

(* The Shopify operation a run records is never replaced by another one: a    *)
(* retry clears it first.  markBulkRunStarted writes it unconditionally; what *)
(* protects it is that the orchestrator read "no operation" under the lock    *)
(* it still holds (orchestrator.worker.ts:401, state-machine.ts:451).         *)
OpNotReplaced ==
    [][\A r \in Runs : row[r].op # None => row'[r].op \in {row[r].op, None}]_vars

(* No run is retried more than max_retries times, although the count is read  *)
(* in one transaction and raised in another (failure-handler.ts:299, 339):    *)
(* two pollers of one run are kept apart by their job id, unless one of them   *)
(* timed out and keeps running: no run with "timeout" claims this.             *)
RetryBudget == \A r \in Runs : row[r].retry <= MaxRetries

(* A run that is completed has been merged into the catalogue, or salvaged    *)
(* with the partial URL of its last retry.                                    *)
CompletedIsMerged ==
    \A r \in Runs : row[r].status = "completed" =>
        row[r].merged \/ (row[r].partial /\ row[r].retry >= MaxRetries)

(* A run that its ingest works on does not fall back to an earlier status,    *)
(* although pollers and orchestrators write theirs without looking again.     *)
IngestNotUndone ==
    [][\A r \in Runs : row[r].status \in {"downloading", "processing"} =>
          row'[r].status \notin {"pending", "running", "polling"}]_vars

(* A Shopify operation that is running is recorded by a run, or by the        *)
(* orchestrator that has just started it: none is left that nobody knows.     *)
OpsAreKnown ==
    \A o \in Ops : shopify[o] = "running" =>
        \/ \E r \in Runs : row[r].op = o
        \/ \E w \in Workers : proc[w].op = o /\ At(w, "orch", "check")
        \/ \E w \in Workers : proc[w].op = o /\ At(w, "orch", "mark")

(* A recorded operation that is running is watched: a poller job will ask     *)
(* about it, or an orchestrator job will still enqueue one - also after a     *)
(* worker died between the two.                                               *)
RunningOpIsWatched ==
    \A r \in Runs :
        row[r].op # None /\ row[r].status \in {"running", "polling"}
          /\ shopify[row[r].op] = "running" =>
            \/ job[<<"poll", r>>].state \in {"waiting", "active"}
            \/ \E k \in Keys : job[<<"orch", k>>].state \in {"waiting", "active"}

(* A pending run waits for an orchestrator job, or for the poller that has    *)
(* just reset it and is about to enqueue one.                                 *)
PendingRunHasJob ==
    \A r \in Runs : row[r].status = "pending" =>
        \/ \E k \in Keys : job[<<"orch", k>>].state \in {"waiting", "active"}
        \/ \E w \in Workers : At(w, "poll", "requeue") /\ proc[w].run = r

(* Every active run ends.                                                     *)
EveryRunEnds ==
    \A r \in Runs : (row[r].status \in ActiveStatuses) ~> (row[r].status \in EndedStatuses)
=============================================================================
