---------------------------- MODULE BulkRunProofs ----------------------------
(* Theorems about BulkRun, for any number of keys, uploads, workers and       *)
(* operations, any bounds, and any troubles but those a theorem names.        *)
EXTENDS BulkRun, TLAPS

(* What a processor knows of its job: the run it works on and, when it is     *)
(* about to set a status, which statuses that may be.                         *)
Knows(p) ==
    p.pc # "idle" =>
        /\ p.job \in JobIds
        /\ p.run \in Runs
        /\ p.job[1] # "orch" => p.run = p.job[2]
        /\ p.pc \in {"check", "mark"} =>
            /\ p.job[1] = "orch"   => p.goal \in {"running", "failed"}
            /\ p.job[1] = "poll"   => p.goal \in {"polling", "completed", "failed"}
            /\ p.job[1] = "ingest" => p.goal \in {"downloading", "processing", "completed"}
            /\ p.job[1] # "reconcile"

Typed == TypeOK /\ \A w \in Workers : Knows(proc[w])

-----------------------------------------------------------------------------
(* What the helpers of BulkRun return.                                        *)

(* A job id is a pair of a type and a run; an orchestrator's is a key.        *)
LEMMA JobIdParts ==
    ASSUME NEW j \in JobIds
    PROVE  /\ j[1] \in {"orch", "poll", "ingest", "reconcile"}
           /\ j[2] \in Runs
           /\ j[1] = "orch" => j[2] \in Keys
BY DEF JobIds, Runs

LEMMA AddedTyped ==
    ASSUME NEW j \in JobIds, NEW o \in Ops \cup {None},
           job \in [JobIds -> JobType]
    PROVE  Added(j, o) \in [JobIds -> JobType]
BY BoundsAssumption DEF Added, JobType

LEMMA AttemptFailedTyped ==
    ASSUME NEW j \in JobIds, job \in [JobIds -> JobType]
    PROVE  AttemptFailed(j) \in [JobIds -> JobType]
<1>1. job[j] \in JobType /\ job[j].tries \in Nat /\ 0 \in 0 .. MaxAttempts - 1
  BY BoundsAssumption DEF JobType
<1>2. CASE job[j].tries + 1 < MaxAttempts
  <2>1. job[j].tries + 1 \in 0 .. MaxAttempts - 1
    BY <1>1, <1>2, BoundsAssumption
  <2>2. [job[j] EXCEPT !.state = "waiting", !.tries = job[j].tries + 1] \in JobType
    BY <1>1, <2>1 DEF JobType
  <2> QED
    BY <1>2, <2>2 DEF AttemptFailed
<1>3. CASE ~(job[j].tries + 1 < MaxAttempts)
  <2>1. [job[j] EXCEPT !.state = "none", !.tries = 0] \in JobType
    BY <1>1 DEF JobType
  <2> QED
    BY <1>3, <2>1 DEF AttemptFailed
<1> QED
  BY <1>2, <1>3

LEMMA FirstStepTyped ==
    ASSUME NEW j \in JobIds
    PROVE  /\ FirstStep(j[1]) \in PCs \ {"idle", "mark"}
           /\ FirstStep(j[1]) = "check" => j[1] = "ingest"
BY JobIdParts DEF FirstStep, PCs

(* Where a processor may be after a step, but for the steps that the theorems *)
(* look at one by one.                                                        *)
Onward == PCs \ {"idle", "lock", "row", "patch", "start", "reset"}

LEMMA NextPcTyped ==
    ASSUME NEW p, Knows(p), p.pc \in PCs \ {"idle"}
    PROVE  /\ AfterThrow(p.job[1], p.pc, p.goal) \in Onward \ {"check", "mark"}
           /\ AfterRefusal(p.job[1], p.goal) \in Onward \ {"check", "mark"}
           /\ p.pc = "mark" => AfterMark(p.job[1], p.goal) \in Onward \ {"check", "mark"}
<1>1. p.job[1] \in {"orch", "poll", "ingest", "reconcile"}
  BY JobIdParts DEF Knows, PCs
<1> QED
  BY <1>1 DEF Knows, PCs, Onward, AfterThrow, AfterRefusal, AfterMark

(* A processor that goes on to a step where no status is pending keeps what   *)
(* it knows.                                                                  *)
LEMMA GotoTyped ==
    ASSUME NEW w \in Workers, NEW c \in PCs \ {"check", "mark"}, Typed,
           proc[w].pc # "idle", Goto(w, c)
    PROVE  proc' \in [Workers -> ProcType] /\ \A x \in Workers : Knows(proc'[x])
BY DEF Typed, TypeOK, Knows, Goto, ProcType

(* One that is about to set a status it may set, too.                         *)
LEMMA GotoMarkTyped ==
    ASSUME NEW w \in Workers, NEW s \in Statuses, Typed,
           proc[w].pc # "idle", GotoMark(w, s),
           \/ proc[w].job[1] = "orch" /\ s \in {"running", "failed"}
           \/ proc[w].job[1] = "poll" /\ s \in {"polling", "completed", "failed"}
           \/ proc[w].job[1] = "ingest" /\ s \in {"downloading", "processing", "completed"}
    PROVE  proc' \in [Workers -> ProcType] /\ \A x \in Workers : Knows(proc'[x])
<1> DEFINE new == [proc[w] EXCEPT !.pc = "check", !.goal = s]
<1>1. proc[w] \in ProcType /\ Knows(proc[w])
  BY DEF Typed, TypeOK
<1>2. new \in ProcType
  BY <1>1 DEF ProcType, PCs
<1>3. /\ new.pc = "check" /\ new.goal = s
      /\ new.job = proc[w].job /\ new.run = proc[w].run
  BY <1>1 DEF ProcType
<1>4. Knows(new)
  BY <1>1, <1>3 DEF Knows
<1>5. proc' = [proc EXCEPT ![w] = new]
  BY DEF GotoMark
<1> HIDE DEF new
<1> QED
  BY <1>2, <1>4, <1>5 DEF Typed, TypeOK

-----------------------------------------------------------------------------
(* Every step keeps the types and what the processors know.                   *)
LEMMA TypedStep == Typed /\ [Next]_vars => Typed'
<1> SUFFICES ASSUME Typed, [Next]_vars PROVE Typed'
  OBVIOUS
<1> USE NamesAssumption, BoundsAssumption
<1>a. /\ row \in [Runs -> RowType]
      /\ job \in [JobIds -> JobType]
      /\ proc \in [Workers -> ProcType]
      /\ \A w \in Workers : Knows(proc[w]) /\ proc[w].pc \in PCs
      /\ \A w \in Workers : proc[w].op \in Ops \cup {None}
      /\ \A r \in Runs : row[r].op \in Ops \cup {None}
  BY DEF Typed, TypeOK, ProcType, RowType
<1>1. CASE UNCHANGED vars
  BY <1>1 DEF vars, Typed, TypeOK, Knows
<1>2. ASSUME NEW k \in Keys, Start(k) PROVE Typed'
  <2>1. <<"orch", k>> \in JobIds
    BY DEF JobIds
  <2>2. job' \in [JobIds -> JobType]
    BY <1>2, <1>a, <2>1, AddedTyped DEF Start
  <2> QED
    BY <1>2, <2>2 DEF Start, Typed, TypeOK, Knows
<1>3. ASSUME NEW u \in Uploads, Upload(u) PROVE Typed'
  <2>1. <<"ingest", u>> \in JobIds /\ u \in Runs
    BY DEF JobIds, Runs
  <2>2. row' \in [Runs -> RowType]
    BY <1>3, <1>a, <2>1 DEF Upload, RowType, Statuses, ActiveStatuses
  <2>3. job' \in [JobIds -> JobType] /\ faults' \in 0 .. MaxFaults
    BY <1>3, <1>a, <2>1, AddedTyped DEF Upload, Fault, Typed, TypeOK
  <2> QED
    BY <1>3, <2>2, <2>3 DEF Upload, Typed, TypeOK, Knows
<1>4. ASSUME NEW r \in Runs, CancelRead(r) PROVE Typed'
  BY <1>4, <1>a DEF CancelRead, Fault, Typed, TypeOK, Knows
<1>5. CASE CancelShopify
  BY <1>5 DEF CancelShopify, NoCancel, Typed, TypeOK, Knows
<1>6. CASE CancelWrite
  <2>1. row' \in [Runs -> RowType]
    <3>1. \A r \in Runs : [row[r] EXCEPT !.status = "cancelled"] \in RowType
      BY <1>a DEF RowType, Statuses, EndedStatuses
    <3> QED
      BY <1>6, <1>a, <3>1 DEF CancelWrite
  <2>2. NoCancel \in [pc : {"idle", "shopify", "write"}, run : Runs \cup {None},
                      op : Ops \cup {None}]
    BY DEF NoCancel
  <2>3. cancel' = NoCancel /\ UNCHANGED <<job, proc, shopify, lock, faults>>
    BY <1>6 DEF CancelWrite
  <2> QED
    BY <2>1, <2>2, <2>3 DEF Typed, TypeOK
<1>7. ASSUME NEW w \in Workers, NEW j \in JobIds, Take(w, j) PROVE Typed'
  <2> DEFINE new == [pc |-> FirstStep(j[1]), job |-> j, run |-> j[2], op |-> job[j].op,
                     goal |-> IF j[1] = "ingest" THEN "downloading" ELSE "none",
                     mut |-> FALSE, lost |-> FALSE]
  <2>1. job' \in [JobIds -> JobType]
    BY <1>7, <1>a DEF Take, JobType
  <2>2. job[j].op \in Ops \cup {None}
    BY <1>a DEF JobType
  <2>3. new \in ProcType /\ Knows(new)
    BY <2>2, JobIdParts, FirstStepTyped
    DEF ProcType, Statuses, ActiveStatuses, Knows
  <2>4. proc' = [proc EXCEPT ![w] = new]
    BY <1>7 DEF Take
  <2> HIDE DEF new
  <2>5. proc' \in [Workers -> ProcType] /\ \A x \in Workers : Knows(proc'[x])
    BY <1>a, <2>3, <2>4
  <2> QED
    BY <1>7, <2>1, <2>5 DEF Take, Typed, TypeOK
<1>8. ASSUME NEW w \in Workers, CheckTransition(w) PROVE Typed'
  <2> DEFINE p == proc[w]
  <2>1. p.pc = "check" /\ UNCHANGED <<row, job, shopify, lock, cancel, faults>>
    BY <1>8 DEF CheckTransition
  <2>2. CASE Goto(w, "mark")
    BY <1>a, <2>1, <2>2 DEF Goto, Typed, TypeOK, Knows, ProcType, PCs
  <2>3. CASE Goto(w, AfterRefusal(p.job[1], p.goal))
    <3>1. AfterRefusal(p.job[1], p.goal) \in PCs \ {"check", "mark"}
      BY <1>a, <2>1, NextPcTyped DEF Onward
    <3>2. proc' \in [Workers -> ProcType] /\ \A x \in Workers : Knows(proc'[x])
      BY <2>1, <2>3, <3>1, GotoTyped
    <3> QED
      BY <2>1, <3>2 DEF Typed, TypeOK
  <2> QED
    BY <1>8, <2>2, <2>3 DEF CheckTransition
<1>9. ASSUME NEW w \in Workers, MarkStatus(w) PROVE Typed'
  <2> DEFINE p == proc[w]
             recorded == IF p.goal = "running" THEN p.op ELSE row[p.run].op
             new == [row[p.run] EXCEPT !.status = p.goal, !.op = recorded]
  <2>1. p.pc = "mark" /\ UNCHANGED <<job, shopify, lock, cancel, faults>>
    BY <1>9 DEF MarkStatus
  <2>2. p.goal \in Statuses /\ p.run \in Runs /\ recorded \in Ops \cup {None}
    BY <1>a, <2>1, JobIdParts DEF Knows, Statuses, ActiveStatuses, EndedStatuses
  <2>3. row' \in [Runs -> RowType]
    <3>1. row[p.run] \in RowType
      BY <1>a, <2>2
    <3>2. new \in RowType
      BY <2>2, <3>1 DEF RowType
    <3>3. row' = [row EXCEPT ![p.run] = new] \/ row' = row
      BY <1>9 DEF MarkStatus
    <3> HIDE DEF new
    <3> QED
      BY <1>a, <3>2, <3>3
  <2>4. PICK c \in PCs \ {"check", "mark"} : Goto(w, c)
    BY <1>9, <1>a, <2>1, NextPcTyped DEF MarkStatus, Onward
  <2>5. proc' \in [Workers -> ProcType] /\ \A x \in Workers : Knows(proc'[x])
    BY <2>1, <2>4, GotoTyped
  <2> QED
    BY <2>1, <2>3, <2>5 DEF Typed, TypeOK
<1>10. ASSUME NEW w \in Workers, Orchestrate(w) PROVE Typed'
  <2>0. proc[w].pc # "idle" /\ proc[w].job[1] = "orch" /\ proc[w].run \in Runs
        /\ proc[w].job[2] \in Keys
    BY <1>10, <1>a, JobIdParts
    DEF Orchestrate, AcquireLock, LoadRun, PatchContract, StartAccepted,
        StartRateLimited, StartRefused, HandToPoller, Catch, At, Knows
  <2>1. CASE AcquireLock(w)
    <3>1. PICK c \in {"row", "later"} : Goto(w, c)
      BY <2>1 DEF AcquireLock
    <3>2. proc' \in [Workers -> ProcType] /\ \A x \in Workers : Knows(proc'[x])
      BY <2>0, <3>1, GotoTyped DEF PCs
    <3> QED
      BY <2>1, <3>2 DEF AcquireLock, Typed, TypeOK
  <2>2. CASE LoadRun(w)
    <3> DEFINE k == proc[w].job[2]
               r == IF row[k].status # "absent" \/ IndexAllows(k, "pending") THEN k
                    ELSE CHOOSE x \in ActiveRuns : TRUE
               new == [proc[w] EXCEPT !.pc = "patch", !.run = r, !.op = row[r].op]
    <3>1. r \in Runs
      <4>1. CASE row[k].status # "absent" \/ IndexAllows(k, "pending")
        BY <2>0, <4>1 DEF Runs
      <4>2. CASE ~(row[k].status # "absent" \/ IndexAllows(k, "pending"))
        BY <4>2 DEF IndexAllows, ActiveRuns
      <4> QED
        BY <4>1, <4>2
    <3>2. row' = [row EXCEPT ![r].status = "pending"] \/ row' = row
      BY <2>2 DEF LoadRun
    <3>3. proc' = [proc EXCEPT ![w] = new] /\ UNCHANGED <<job, shopify, lock, cancel, faults>>
      BY <2>2 DEF LoadRun
    <3> HIDE DEF r
    <3>4. row' \in [Runs -> RowType]
      BY <1>a, <3>1, <3>2 DEF RowType, Statuses, ActiveStatuses
    <3>5. new \in ProcType
      <4>1. proc[w] \in ProcType /\ row[r].op \in Ops \cup {None}
        BY <1>a, <3>1
      <4> QED
        BY <3>1, <4>1 DEF ProcType, PCs
    <3>6. new.pc = "patch" /\ new.run = r /\ new.job = proc[w].job
      BY <1>a DEF ProcType
    <3>7. Knows(new)
      BY <1>a, <2>0, <3>1, <3>6 DEF Knows
    <3> HIDE DEF new
    <3> QED
      BY <1>a, <3>3, <3>4, <3>5, <3>7 DEF Typed, TypeOK
  <2>3. CASE PatchContract(w)
    <3>1. row' \in [Runs -> RowType]
      <4> DEFINE r == proc[w].run
                 m == row[r].mut \/ proc[w].job[2] \in MutationKeys
                 new == [row[r] EXCEPT !.mut = m]
      <4>1. row[r] \in RowType /\ m \in BOOLEAN
        BY <1>a, <2>0
      <4>2. row' = [row EXCEPT ![r] = new]
        BY <2>3 DEF PatchContract
      <4> HIDE DEF m
      <4>3. new \in RowType
        BY <4>1 DEF RowType
      <4> HIDE DEF new
      <4> QED
        BY <1>a, <2>0, <4>2, <4>3
    <3>2. PICK c \in {"hand", "start"} : Goto(w, c)
      BY <2>3 DEF PatchContract
    <3>3. proc' \in [Workers -> ProcType] /\ \A x \in Workers : Knows(proc'[x])
      BY <2>0, <3>2, GotoTyped DEF PCs
    <3> QED
      BY <2>3, <3>1, <3>3 DEF PatchContract, Typed, TypeOK
  <2>4. CASE StartAccepted(w)
    <3>1. PICK o \in Ops : /\ shopify' = [shopify EXCEPT ![o] = "running"]
                            /\ proc' = [proc EXCEPT ![w] =
                                 [@ EXCEPT !.pc = "check", !.goal = "running", !.op = o]]
      BY <2>4 DEF StartAccepted
    <3> DEFINE new == [proc[w] EXCEPT !.pc = "check", !.goal = "running", !.op = o]
    <3>2. new \in ProcType
      <4>1. proc[w] \in ProcType
        BY <1>a
      <4> QED
        BY <4>1 DEF ProcType, PCs, Statuses, ActiveStatuses
    <3>3. new.pc = "check" /\ new.goal = "running" /\ new.run = proc[w].run
          /\ new.job = proc[w].job
      BY <1>a DEF ProcType
    <3>4. Knows(new)
      BY <1>a, <2>0, <3>3 DEF Knows
    <3>5. proc' = [proc EXCEPT ![w] = new] /\ UNCHANGED <<row, job, lock, cancel, faults>>
      BY <2>4, <3>1 DEF StartAccepted
    <3> HIDE DEF new
    <3> QED
      BY <1>a, <3>1, <3>2, <3>4, <3>5 DEF Typed, TypeOK
  <2>5. CASE StartRateLimited(w) \/ StartRefused(w)
    <3>1. PICK c \in {"later", "complete"} : Goto(w, c)
      BY <2>5 DEF StartRateLimited, StartRefused
    <3>2. proc' \in [Workers -> ProcType] /\ \A x \in Workers : Knows(proc'[x])
      BY <2>0, <3>1, GotoTyped DEF PCs
    <3> QED
      BY <2>5, <3>2 DEF StartRateLimited, StartRefused, Typed, TypeOK
  <2>6. CASE HandToPoller(w)
    <3>1. <<"poll", proc[w].run>> \in JobIds
      BY <2>0 DEF JobIds
    <3>2. job' \in [JobIds -> JobType]
      BY <1>a, <2>6, <3>1, AddedTyped DEF HandToPoller
    <3>3. proc' \in [Workers -> ProcType] /\ \A x \in Workers : Knows(proc'[x])
      BY <2>0, <2>6, GotoTyped DEF HandToPoller, PCs
    <3> QED
      BY <2>6, <3>2, <3>3 DEF HandToPoller, Typed, TypeOK
  <2>7. CASE Catch(w)
    <3> DEFINE k == proc[w].job[2]
               new == [proc[w] EXCEPT !.pc = "check", !.goal = "failed", !.run = k]
    <3>1. CASE row[k].status = "absent"
      <4>1. Goto(w, "threw")
        BY <2>7, <3>1 DEF Catch, Goto
      <4>2. proc' \in [Workers -> ProcType] /\ \A x \in Workers : Knows(proc'[x])
        BY <2>0, <4>1, GotoTyped DEF PCs
      <4> QED
        BY <2>7, <4>2 DEF Catch, Typed, TypeOK
    <3>2. CASE row[k].status # "absent"
      <4>1. proc' = [proc EXCEPT ![w] = new]
            /\ UNCHANGED <<row, job, shopify, lock, cancel, faults>>
        BY <2>7, <3>2 DEF Catch
      <4>2. new \in ProcType
        <5>1. proc[w] \in ProcType /\ k \in Runs
          BY <1>a, <2>0 DEF Runs
        <5> HIDE DEF k
        <5> QED
          BY <5>1 DEF ProcType, PCs, Statuses, EndedStatuses
      <4>3. new.pc = "check" /\ new.goal = "failed" /\ new.run = k
            /\ new.job = proc[w].job
        BY <1>a DEF ProcType
      <4>4. Knows(new)
        BY <1>a, <2>0, <4>3 DEF Knows, Runs
      <4> HIDE DEF new
      <4> QED
        BY <1>a, <4>1, <4>2, <4>4 DEF Typed, TypeOK
    <3> QED
      BY <3>1, <3>2
  <2> QED
    BY <1>10, <2>1, <2>2, <2>3, <2>4, <2>5, <2>6, <2>7 DEF Orchestrate
<1>11. ASSUME NEW w \in Workers, Poll(w) PROVE Typed'
  <2>0. proc[w].pc # "idle" /\ proc[w].job[1] = "poll" /\ proc[w].run \in Runs
    BY <1>11, <1>a
    DEF Poll, PollLoad, PollTimedOut, PollNotReady, PollCompleted, PollTerminal,
        Decide, RequestRetry, RequeueOrchestrator, HandOver, Salvaged, At, Knows
  <2>1. CASE PollLoad(w)
    <3> DEFINE m == row[proc[w].run].mut
               new == [proc[w] EXCEPT !.mut = m, !.pc = "check", !.goal = "polling"]
    <3>1. proc[w] \in ProcType /\ m \in BOOLEAN
      BY <1>a, <2>0 DEF RowType
    <3>2. proc' = [proc EXCEPT ![w] = new] /\ UNCHANGED <<row, job, shopify, lock, cancel, faults>>
      BY <2>1 DEF PollLoad
    <3> HIDE DEF m
    <3>3. new \in ProcType
      BY <3>1 DEF ProcType, PCs, Statuses, ActiveStatuses
    <3>4. new.pc = "check" /\ new.goal = "polling" /\ new.run = proc[w].run
          /\ new.job = proc[w].job
      BY <3>1 DEF ProcType
    <3>5. Knows(new)
      BY <1>a, <2>0, <3>4 DEF Knows
    <3> HIDE DEF new
    <3> QED
      BY <1>a, <3>2, <3>3, <3>5 DEF Typed, TypeOK
  <2>2. CASE PollTimedOut(w)
    <3>1. proc' \in [Workers -> ProcType] /\ \A x \in Workers : Knows(proc'[x])
      BY <2>0, <2>2, GotoMarkTyped DEF PollTimedOut, Statuses, EndedStatuses
    <3> QED
      BY <2>2, <3>1 DEF PollTimedOut, Typed, TypeOK
  <2>3. CASE PollNotReady(w) \/ PollCompleted(w)
    <3>1. PICK c \in {"later", "hand"} : Goto(w, c)
      BY <2>3 DEF PollNotReady, PollCompleted
    <3>2. proc' \in [Workers -> ProcType] /\ \A x \in Workers : Knows(proc'[x])
      BY <2>0, <3>1, GotoTyped DEF PCs
    <3> QED
      BY <2>3, <3>2 DEF PollNotReady, PollCompleted, Typed, TypeOK
  <2>4. CASE PollTerminal(w)
    <3> DEFINE r == proc[w].run
               m == row[r].partial \/ shopify[proc[w].op] = "partial"
               new == [row[r] EXCEPT !.partial = m]
    <3>1. row' = [row EXCEPT ![r] = new]
      BY <2>4 DEF PollTerminal
    <3>2. row[r] \in RowType /\ m \in BOOLEAN
      BY <1>a, <2>0
    <3> HIDE DEF m
    <3>3. new \in RowType
      BY <3>2 DEF RowType
    <3> HIDE DEF new
    <3>4. row' \in [Runs -> RowType]
      BY <1>a, <3>1, <3>3
    <3>5. Goto(w, "decide") \/ GotoMark(w, "failed")
      BY <2>4 DEF PollTerminal
    <3>6. proc' \in [Workers -> ProcType] /\ \A x \in Workers : Knows(proc'[x])
      BY <2>0, <3>5, GotoTyped, GotoMarkTyped DEF PCs, Statuses, EndedStatuses
    <3> QED
      BY <2>4, <3>4, <3>6 DEF PollTerminal, Typed, TypeOK
  <2>5. CASE Decide(w)
    <3>1. Goto(w, "reset") \/ GotoMark(w, "failed") \/ GotoMark(w, "completed")
      BY <2>5 DEF Decide
    <3>2. proc' \in [Workers -> ProcType] /\ \A x \in Workers : Knows(proc'[x])
      BY <2>0, <3>1, GotoTyped, GotoMarkTyped DEF PCs, Statuses, EndedStatuses
    <3> QED
      BY <2>5, <3>2 DEF Decide, Typed, TypeOK
  <2>6. CASE RequestRetry(w)
    <3> DEFINE r == proc[w].run
               new == [row[r] EXCEPT !.status = "pending", !.op = None,
                                     !.retry = row[r].retry + 1]
    <3>1. row' = [row EXCEPT ![r] = new] \/ row' = row
      BY <2>6 DEF RequestRetry
    <3>2. new \in RowType
      <4>1. row[r] \in RowType /\ row[r].retry + 1 \in Nat
        BY <1>a, <2>0 DEF RowType
      <4> QED
        BY <4>1 DEF RowType, Statuses, ActiveStatuses
    <3> HIDE DEF new
    <3>3. row' \in [Runs -> RowType]
      BY <1>a, <3>1, <3>2
    <3>4. PICK c \in {"requeue", "threw"} : Goto(w, c)
      BY <2>6 DEF RequestRetry
    <3>5. proc' \in [Workers -> ProcType] /\ \A x \in Workers : Knows(proc'[x])
      BY <2>0, <3>4, GotoTyped DEF PCs
    <3> QED
      BY <2>6, <3>3, <3>5 DEF RequestRetry, Typed, TypeOK
  <2>7. CASE RequeueOrchestrator(w) \/ HandOver(w) \/ Salvaged(w)
    <3>1. \A r \in Runs : /\ <<"orch", IF r \in Keys THEN r ELSE DerivedKey>> \in JobIds
                          /\ <<"reconcile", r>> \in JobIds
                          /\ <<"ingest", r>> \in JobIds
      BY DEF JobIds
    <3>2. job' \in [JobIds -> JobType]
      <4>1. \/ job' = job
            \/ \E j \in JobIds, o \in Ops \cup {None} : job' = Added(j, o)
        <5>1. CASE RequeueOrchestrator(w)
          BY <2>0, <3>1, <5>1 DEF RequeueOrchestrator
        <5>2. CASE HandOver(w)
          BY <1>a, <2>0, <3>1, <5>2 DEF HandOver
        <5>3. CASE Salvaged(w)
          BY <1>a, <2>0, <3>1, <5>3 DEF Salvaged
        <5> QED
          BY <2>7, <5>1, <5>2, <5>3
      <4> QED
        BY <1>a, <4>1, AddedTyped
    <3>3. PICK c \in {"threw", "complete"} : Goto(w, c)
      BY <2>7 DEF RequeueOrchestrator, HandOver, Salvaged
    <3>4. proc' \in [Workers -> ProcType] /\ \A x \in Workers : Knows(proc'[x])
      BY <2>0, <3>3, GotoTyped DEF PCs
    <3> QED
      BY <2>7, <3>2, <3>4 DEF RequeueOrchestrator, HandOver, Salvaged, Typed, TypeOK
  <2> QED
    BY <1>11, <2>1, <2>2, <2>3, <2>4, <2>5, <2>6, <2>7 DEF Poll
<1>12. ASSUME NEW w \in Workers, Ingest(w) PROVE Typed'
  <2>0. proc[w].pc # "idle" /\ proc[w].run \in Runs
        /\ proc[w].job[1] \in {"ingest", "reconcile"}
    BY <1>12, <1>a DEF Ingest, Stage, MergeStaging, ReconcileLines, ErrorRateAbort, At, Knows
  <2>1. CASE Stage(w)
    <3>1. proc' \in [Workers -> ProcType] /\ \A x \in Workers : Knows(proc'[x])
      BY <2>0, <2>1, GotoMarkTyped DEF Stage, At, Statuses, ActiveStatuses
    <3> QED
      BY <2>1, <3>1 DEF Stage, Typed, TypeOK
  <2>2. CASE MergeStaging(w)
    <3>1. row' \in [Runs -> RowType]
      <4>1. [row[proc[w].run] EXCEPT !.merged = TRUE] \in RowType
        <5>1. row[proc[w].run] \in RowType
          BY <1>a, <2>0
        <5> QED
          BY <5>1 DEF RowType
      <4> QED
        BY <1>a, <2>2, <4>1 DEF MergeStaging
    <3>2. GotoMark(w, "completed") /\ proc[w].job[1] = "ingest"
      BY <2>2 DEF MergeStaging, GotoMark, At
    <3>3. proc' \in [Workers -> ProcType] /\ \A x \in Workers : Knows(proc'[x])
      BY <2>0, <3>2, GotoMarkTyped DEF Statuses, EndedStatuses
    <3> QED
      BY <2>2, <3>1, <3>3 DEF MergeStaging, Typed, TypeOK
  <2>3. CASE ReconcileLines(w)
    <3>1. proc' \in [Workers -> ProcType] /\ \A x \in Workers : Knows(proc'[x])
      BY <2>0, <2>3, GotoTyped DEF ReconcileLines, PCs
    <3> QED
      BY <2>3, <3>1 DEF ReconcileLines, Typed, TypeOK
  <2>4. CASE ErrorRateAbort(w)
    <3>1. row' \in [Runs -> RowType]
      <4>1. [row[proc[w].run] EXCEPT !.status = "failed"] \in RowType
        BY <1>a, <2>0 DEF RowType, Statuses, EndedStatuses
      <4> QED
        BY <1>a, <2>4, <4>1 DEF ErrorRateAbort
    <3> QED
      BY <2>4, <3>1 DEF ErrorRateAbort, Typed, TypeOK
  <2> QED
    BY <1>12, <2>1, <2>2, <2>3, <2>4 DEF Ingest
<1>13. ASSUME NEW w \in Workers, Finish(w) PROVE Typed'
  <2> DEFINE j == proc[w].job
  <2>1. j \in JobIds
    BY <1>13, <1>a DEF Finish, Complete, Rethrow, Postpone, Knows
  <2>2. PICK newjob \in [JobIds -> JobType] : Settle(w, newjob)
    <3>1. CASE Complete(w)
      <4>1. [job EXCEPT ![j].state = "done"] \in [JobIds -> JobType]
        BY <1>a, <2>1 DEF JobType
      <4> QED
        BY <3>1, <4>1 DEF Complete
    <3>2. CASE Rethrow(w)
      BY <1>a, <2>1, <3>2, AttemptFailedTyped DEF Rethrow
    <3>3. CASE Postpone(w)
      <4>1. [job EXCEPT ![j].state = "waiting"] \in [JobIds -> JobType]
        BY <1>a, <2>1 DEF JobType
      <4> QED
        BY <3>3, <4>1 DEF Postpone
    <3> QED
      BY <1>13, <3>1, <3>2, <3>3 DEF Finish
  <2>3. Idle \in ProcType /\ Knows(Idle)
    BY DEF Idle, ProcType, PCs, Knows
  <2> QED
    BY <1>a, <2>2, <2>3 DEF Settle, Typed, TypeOK
<1>14. ASSUME NEW w \in Workers, Throw(w) \/ Crash(w) \/ TimeOut(w) PROVE Typed'
  <2> DEFINE j == proc[w].job
  <2>1. CASE Throw(w)
    <3>1. proc[w].pc # "idle" /\ faults' \in 0 .. MaxFaults
      BY <2>1 DEF Throw, Fault, Typed, TypeOK
    <3>2. PICK c \in PCs \ {"check", "mark"} : Goto(w, c)
      BY <1>a, <2>1, <3>1, NextPcTyped DEF Throw, Onward
    <3>3. proc' \in [Workers -> ProcType] /\ \A x \in Workers : Knows(proc'[x])
      BY <3>1, <3>2, GotoTyped
    <3> QED
      BY <2>1, <3>1, <3>3 DEF Throw, Typed, TypeOK
  <2>2. CASE Crash(w)
    <3>1. j \in JobIds /\ faults' \in 0 .. MaxFaults
      BY <2>2, <1>a DEF Crash, Fault, Knows, Typed, TypeOK
    <3>2. job' \in [JobIds -> JobType]
      BY <1>a, <2>2, <3>1 DEF Crash, JobType
    <3>3. Idle \in ProcType /\ Knows(Idle)
      BY DEF Idle, ProcType, PCs, Knows
    <3> QED
      BY <1>a, <2>2, <3>1, <3>2, <3>3 DEF Crash, Typed, TypeOK
  <2>3. CASE TimeOut(w)
    <3>1. j \in JobIds /\ faults' \in 0 .. MaxFaults
      BY <2>3, <1>a DEF TimeOut, Fault, Knows, Typed, TypeOK
    <3>2. job' \in [JobIds -> JobType]
      BY <1>a, <2>3, <3>1, AttemptFailedTyped DEF TimeOut
    <3> DEFINE new == [proc[w] EXCEPT !.lost = TRUE]
    <3>3. new \in ProcType /\ Knows(new)
      <4>1. proc[w] \in ProcType /\ Knows(proc[w])
        BY <1>a
      <4> QED
        BY <4>1 DEF ProcType, Knows
    <3>4. proc' = [proc EXCEPT ![w] = new] /\ UNCHANGED <<row, shopify, lock, cancel>>
      BY <2>3 DEF TimeOut
    <3> HIDE DEF new
    <3> QED
      BY <1>a, <3>1, <3>2, <3>3, <3>4 DEF Typed, TypeOK
  <2> QED
    BY <1>14, <2>1, <2>2, <2>3
<1>15. ASSUME NEW j \in JobIds, Expire(j) PROVE Typed'
  <2>1. [job[j] EXCEPT !.state = "none", !.tries = 0] \in JobType
    <3>1. job[j] \in JobType /\ 0 \in 0 .. MaxAttempts - 1
      BY <1>a
    <3> QED
      BY <3>1 DEF JobType
  <2>2. job' \in [JobIds -> JobType]
    BY <1>15, <1>a, <2>1 DEF Expire
  <2> QED
    BY <1>15, <2>2 DEF Expire, Typed, TypeOK
<1>16. ASSUME NEW o \in Ops, ShopifyEnds(o) PROVE Typed'
  BY <1>16 DEF ShopifyEnds, Typed, TypeOK, Knows
<1>17. CASE DeadLockExpires \/ LeaseLapses
  BY <1>17 DEF DeadLockExpires, LeaseLapses, Fault, Typed, TypeOK, Knows
<1> QED
  BY <1>1, <1>2, <1>3, <1>4, <1>5, <1>6, <1>7, <1>8, <1>9, <1>10, <1>11, <1>12,
     <1>13, <1>14, <1>15, <1>16, <1>17 DEF Next, WorkerStep

LEMMA TypedInit == Init => Typed
<1> SUFFICES ASSUME Init PROVE Typed
  OBVIOUS
<1>1. row \in [Runs -> RowType]
  BY DEF Init, RowType, Statuses
<1>2. job \in [JobIds -> JobType]
  <2>1. 0 \in 0 .. MaxAttempts - 1
    BY BoundsAssumption
  <2> QED
    BY <2>1 DEF Init, JobType
<1>3. proc \in [Workers -> ProcType] /\ \A w \in Workers : proc[w].pc = "idle"
  BY DEF Init, Idle, ProcType, PCs
<1>4. cancel \in [pc : {"idle", "shopify", "write"}, run : Runs \cup {None},
                 op : Ops \cup {None}]
  BY DEF Init, NoCancel
<1>5. TypeOK
  <2>1. shopify \in [Ops -> {"unused", "running", "completed", "nourl", "transient",
                            "partial", "permanent", "canceled"}]
        /\ lock \in Workers \cup {None, "dead"} /\ faults \in 0 .. MaxFaults
    BY BoundsAssumption DEF Init
  <2> QED
    BY <1>1, <1>2, <1>3, <1>4, <2>1 DEF TypeOK
<1> QED
  BY <1>3, <1>5 DEF Typed, Knows

LEMMA TypedInvariant == Spec => []Typed
BY TypedInit, TypedStep, PTL DEF Spec

(* Every reachable state is well typed: in particular no job is attempted     *)
(* more than MaxAttempts times, and no step meets a status, a job type or a   *)
(* place in a processor for which the code it models has no branch.           *)
THEOREM TypeCorrect == Spec => []TypeOK
BY TypedInvariant, PTL DEF Typed

-----------------------------------------------------------------------------
(* Which actions write a row, and what they leave alone.                      *)
LEMMA RowWriters ==
    ASSUME Next
    PROVE  \/ UNCHANGED row
           \/ \E u \in Uploads : Upload(u)
           \/ CancelWrite
           \/ \E w \in Workers :
                \/ MarkStatus(w) \/ LoadRun(w) \/ PatchContract(w) \/ PollTerminal(w)
                \/ RequestRetry(w) \/ MergeStaging(w) \/ ErrorRateAbort(w)
<1>1. CASE \E k \in Keys : Start(k)
  BY <1>1 DEF Start
<1>2. CASE (\E r \in Runs : CancelRead(r)) \/ CancelShopify
  BY <1>2 DEF CancelRead, CancelShopify
<1>3. ASSUME NEW w \in Workers, NEW j \in JobIds, Take(w, j) PROVE UNCHANGED row
  BY <1>3 DEF Take
<1>4. ASSUME NEW w \in Workers, WorkerStep(w)
      PROVE  \/ UNCHANGED row
             \/ MarkStatus(w) \/ LoadRun(w) \/ PatchContract(w) \/ PollTerminal(w)
             \/ RequestRetry(w) \/ MergeStaging(w) \/ ErrorRateAbort(w)
  BY <1>4 DEF WorkerStep, CheckTransition, Orchestrate, AcquireLock, StartAccepted,
     StartRateLimited, StartRefused, HandToPoller, Catch, Poll, PollLoad, PollTimedOut,
     PollNotReady, PollCompleted, Decide, RequeueOrchestrator, HandOver, Salvaged,
     Ingest, Stage, ReconcileLines, Finish, Complete, Rethrow, Postpone, Settle
<1>5. ASSUME NEW w \in Workers, Throw(w) \/ Crash(w) \/ TimeOut(w) PROVE UNCHANGED row
  BY <1>5 DEF Throw, Crash, TimeOut
<1>6. CASE \E j \in JobIds : Expire(j)
  BY <1>6 DEF Expire
<1>7. CASE (\E o \in Ops : ShopifyEnds(o)) \/ DeadLockExpires \/ LeaseLapses
  BY <1>7 DEF ShopifyEnds, DeadLockExpires, LeaseLapses
<1> QED
  BY <1>1, <1>2, <1>3, <1>4, <1>5, <1>6, <1>7 DEF Next

(* What a step may do to the row of run r, field by field.                    *)
RowStep(r) ==
    /\ row[r].merged => row'[r].merged
    /\ row[r].partial => row'[r].partial
    /\ row'[r].retry # row[r].retry =>
          /\ row'[r].retry = row[r].retry + 1
          /\ \E w \in Workers : RequestRetry(w) /\ proc[w].run = r
    /\ row'[r].op # row[r].op =>
          \/ row'[r].op = None
          \/ \E w \in Workers : MarkStatus(w) /\ proc[w].run = r /\ proc[w].goal = "running"
    /\ row'[r].status # row[r].status =>
          /\ row'[r].status \in ActiveStatuses =>
                /\ IndexAllows(r, row'[r].status)
                /\ \A s \in Runs \ {r} : row'[s] = row[s]
          /\ row'[r].status = "completed" =>
                \E w \in Workers : MarkStatus(w) /\ proc[w].run = r /\ proc[w].goal = "completed"

LEMMA RowSteps == ASSUME Typed, Next, NEW r \in Runs PROVE RowStep(r)
<1>a. /\ row \in [Runs -> RowType]
      /\ \A w \in Workers : proc[w].pc # "idle" =>
            proc[w].run \in Runs /\ proc[w].job \in JobIds
  BY DEF Typed, TypeOK, Knows
<1>1. CASE UNCHANGED row
  BY <1>1 DEF RowStep
<1>2. ASSUME NEW u \in Uploads, Upload(u) PROVE RowStep(r)
  <2>1. row' = [row EXCEPT ![u] = [row[u] EXCEPT !.status = "running"]]
    BY <1>2 DEF Upload
  <2>2. row[r] \in RowType /\ row[u] \in RowType /\ IndexAllows(u, "running")
    BY <1>2, <1>a DEF Upload, Runs
  <2> QED
    BY <1>a, <2>1, <2>2 DEF RowStep, RowType, Runs
<1>3. CASE CancelWrite
  <2>1. row[r] \in RowType
    BY <1>a
  <2> QED
    BY <1>3, <1>a, <2>1 DEF CancelWrite, RowStep, RowType, ActiveStatuses
<1>4. ASSUME NEW w \in Workers, MarkStatus(w) PROVE RowStep(r)
  <2> DEFINE q == proc[w].run
             goal == proc[w].goal
             recorded == IF goal = "running" THEN proc[w].op ELSE row[q].op
             new == [row[q] EXCEPT !.status = goal, !.op = recorded]
  <2>1. q \in Runs /\ row[q] \in RowType /\ row[r] \in RowType
    BY <1>4, <1>a DEF MarkStatus
  <2>2. row' = row \/ (row' = [row EXCEPT ![q] = new] /\ IndexAllows(q, goal))
    BY <1>4 DEF MarkStatus
  <2>3. /\ new.merged = row[q].merged /\ new.partial = row[q].partial
        /\ new.retry = row[q].retry /\ new.status = goal
        /\ new.op = recorded
    BY <2>1 DEF RowType
  <2> HIDE DEF new
  <2>4. CASE row' = row \/ r # q
    BY <1>a, <2>1, <2>2, <2>4 DEF RowStep
  <2>5. CASE r = q /\ row' = [row EXCEPT ![q] = new] /\ IndexAllows(q, goal)
    BY <1>4, <1>a, <2>1, <2>3, <2>5 DEF RowStep
  <2> QED
    BY <2>2, <2>4, <2>5
<1>5. ASSUME NEW w \in Workers, LoadRun(w) PROVE RowStep(r)
  <2>1. PICK q \in Runs : \/ row' = row
                          \/ /\ row' = [row EXCEPT ![q] = [row[q] EXCEPT !.status = "pending"]]
                             /\ IndexAllows(q, "pending")
    <3> DEFINE k == proc[w].job[2]
    <3>1. k \in Runs
      BY <1>5, <1>a, JobIdParts DEF LoadRun, At, Runs
    <3>2. CASE row[k].status # "absent" \/ IndexAllows(k, "pending")
      BY <1>5, <3>1, <3>2 DEF LoadRun
    <3>3. CASE ~(row[k].status # "absent" \/ IndexAllows(k, "pending"))
      <4>1. ActiveRuns # {}
        BY <3>3 DEF IndexAllows
      <4>2. (CHOOSE x \in ActiveRuns : TRUE) \in ActiveRuns
        BY <4>1
      <4>3. row[CHOOSE x \in ActiveRuns : TRUE].status # "absent"
        BY <4>2 DEF ActiveRuns, ActiveStatuses
      <4> QED
        BY <1>5, <3>1, <3>3, <4>3 DEF LoadRun
    <3> QED
      BY <3>2, <3>3
  <2>2. row[q] \in RowType /\ row[r] \in RowType
    BY <1>a
  <2> QED
    BY <1>a, <2>1, <2>2 DEF RowStep, RowType
<1>6. ASSUME NEW w \in Workers, PatchContract(w) \/ PollTerminal(w) \/ MergeStaging(w)
      PROVE  RowStep(r)
  <2> DEFINE q == proc[w].run
  <2>1. row[q] \in RowType /\ row[r] \in RowType /\ q \in Runs
    BY <1>6, <1>a DEF PatchContract, PollTerminal, MergeStaging, At
  <2>2. CASE PatchContract(w)
    <3>1. PICK m : row' = [row EXCEPT ![q] = [row[q] EXCEPT !.mut = m]]
      BY <2>2 DEF PatchContract
    <3> QED
      BY <1>a, <2>1, <3>1 DEF RowStep, RowType
  <2>3. CASE PollTerminal(w)
    <3>1. PICK m : /\ row' = [row EXCEPT ![q] = [row[q] EXCEPT !.partial = m]]
                   /\ row[q].partial => m
      BY <2>3 DEF PollTerminal
    <3> QED
      BY <1>a, <2>1, <3>1 DEF RowStep, RowType
  <2>4. CASE MergeStaging(w)
    <3>1. row' = [row EXCEPT ![q] = [row[q] EXCEPT !.merged = TRUE]]
      BY <2>4 DEF MergeStaging
    <3> QED
      BY <1>a, <2>1, <3>1 DEF RowStep, RowType
  <2> QED
    BY <1>6, <2>2, <2>3, <2>4
<1>7. ASSUME NEW w \in Workers, RequestRetry(w) PROVE RowStep(r)
  <2> DEFINE q == proc[w].run
             again == row[q].retry + 1
             new == [row[q] EXCEPT !.status = "pending", !.op = None, !.retry = again]
  <2>1. row[q] \in RowType /\ row[r] \in RowType /\ q \in Runs
    BY <1>7, <1>a DEF RequestRetry, At
  <2>2. row' = row \/ (row' = [row EXCEPT ![q] = new] /\ IndexAllows(q, "pending"))
    BY <1>7 DEF RequestRetry
  <2>3. /\ new.merged = row[q].merged /\ new.partial = row[q].partial
        /\ new.retry = row[q].retry + 1 /\ new.status = "pending" /\ new.op = None
    BY <2>1 DEF RowType
  <2> HIDE DEF new
  <2>4. CASE row' = row \/ r # q
    BY <1>a, <2>1, <2>2, <2>4 DEF RowStep
  <2>5. CASE r = q /\ row' = [row EXCEPT ![q] = new] /\ IndexAllows(q, "pending")
    BY <1>7, <1>a, <2>1, <2>3, <2>5 DEF RowStep
  <2> QED
    BY <2>2, <2>4, <2>5
<1>8. ASSUME NEW w \in Workers, ErrorRateAbort(w) PROVE RowStep(r)
  <2>1. row[r] \in RowType
    BY <1>a
  <2> QED
    BY <1>8, <1>a, <2>1 DEF ErrorRateAbort, RowStep, RowType, ActiveStatuses
<1> QED
  BY <1>1, <1>2, <1>3, <1>4, <1>5, <1>6, <1>7, <1>8, RowWriters

-----------------------------------------------------------------------------
(* A shop never has two active runs: insertOrLoadBulkRun, the upload route,   *)
(* requestBulkRetry and the marks all meet the unique index, and what does    *)
(* not meet it - cancel and the error-rate abort - makes no run active.       *)
THEOREM OneActive == Spec => []OneActiveRun
<1>1. Init => OneActiveRun
  BY DEF Init, OneActiveRun, ActiveRuns, ActiveStatuses
<1>2. Typed /\ OneActiveRun /\ [Next]_vars => OneActiveRun'
  <2> SUFFICES ASSUME Typed, OneActiveRun, Next PROVE OneActiveRun'
    BY DEF vars, OneActiveRun, ActiveRuns
  <2> SUFFICES ASSUME NEW r \in ActiveRuns', NEW s \in ActiveRuns', r # s PROVE FALSE
    BY DEF OneActiveRun
  <2>1. r \in Runs /\ s \in Runs /\ RowStep(r) /\ RowStep(s)
    BY RowSteps DEF ActiveRuns
  <2>2. CASE row'[r].status # row[r].status
    BY <2>1, <2>2 DEF RowStep, ActiveRuns, IndexAllows
  <2>3. CASE row'[s].status # row[s].status
    BY <2>1, <2>3 DEF RowStep, ActiveRuns, IndexAllows
  <2>4. CASE row'[r].status = row[r].status /\ row'[s].status = row[s].status
    BY <2>1, <2>4 DEF OneActiveRun, ActiveRuns
  <2> QED
    BY <2>2, <2>3, <2>4
<1> QED
  BY <1>1, <1>2, TypedInvariant, PTL DEF Spec

-----------------------------------------------------------------------------
(* Where an orchestrator is that has not entered its section or has left it.  *)
Outside == {"idle", "lock", "later", "complete", "threw"}

(* The steps of processor x that no theorem looks at one by one: it keeps its *)
(* job and its run, and does not come to set a status that matters.           *)
Moves(x) ==
    /\ proc[x].pc # "idle"
    /\ proc'[x].pc \in Onward
    /\ proc'[x].job = proc[x].job /\ proc'[x].run = proc[x].run
    /\ proc'[x].lost = proc[x].lost
    /\ proc'[x].pc \in {"check", "mark"} =>
          \/ proc[x].pc \in {"check", "mark"} /\ proc'[x].goal = proc[x].goal
          \/ proc'[x].goal \notin {"completed", "running"}
    /\ proc[x].job[1] = "orch" /\ proc'[x].pc \notin Outside => proc[x].pc \notin Outside

(* Every step leaves processor x alone, is one of the named actions of x, or  *)
(* moves it.                                                                  *)
StepOf(x) ==
    \/ proc'[x] = proc[x]
    \/ \E j \in JobIds : Take(x, j)
    \/ AcquireLock(x) \/ LoadRun(x) \/ PatchContract(x) \/ StartAccepted(x) \/ Catch(x)
    \/ Decide(x) \/ MergeStaging(x) \/ Finish(x) \/ Crash(x) \/ TimeOut(x)
    \/ Moves(x)

LEMMA StepsOf == ASSUME Typed, Next, NEW x \in Workers PROVE StepOf(x)
<1>a. /\ proc \in [Workers -> ProcType]
      /\ \A w \in Workers : Knows(proc[w]) /\ proc[w] \in ProcType /\ proc[w].pc \in PCs
  BY DEF Typed, TypeOK, ProcType
<1>b. ASSUME proc'[x] = proc[x] PROVE StepOf(x)
  BY <1>b DEF StepOf
<1>c. ASSUME NEW w \in Workers, NEW c \in Onward \ {"check", "mark"}, Goto(w, c),
             proc[w].pc # "idle",
             proc[w].job[1] = "orch" /\ c \notin Outside => proc[w].pc \notin Outside
      PROVE  StepOf(x)
  BY <1>a, <1>b, <1>c DEF Goto, ProcType, StepOf, Moves
<1>d. ASSUME NEW w \in Workers, NEW s, s \notin {"completed", "running"}, GotoMark(w, s),
             proc[w].pc # "idle", proc[w].job[1] # "orch"
      PROVE  StepOf(x)
  BY <1>a, <1>b, <1>d DEF GotoMark, ProcType, StepOf, Moves, Onward, PCs
<1>1. ASSUME NEW w \in Workers, NEW j \in JobIds, Take(w, j) PROVE StepOf(x)
  BY <1>1, <1>a, <1>b DEF Take, StepOf
<1>2. ASSUME NEW w \in Workers, CheckTransition(w) PROVE StepOf(x)
  <2>1. proc[w].pc = "check"
    BY <1>2 DEF CheckTransition
  <2>2. CASE Goto(w, "mark")
    BY <1>a, <1>b, <2>1, <2>2 DEF Goto, ProcType, StepOf, Moves, Onward, PCs, Outside
  <2>3. CASE Goto(w, AfterRefusal(proc[w].job[1], proc[w].goal))
    <3>1. AfterRefusal(proc[w].job[1], proc[w].goal) \in Onward \ {"check", "mark"}
      BY <1>a, <2>1, NextPcTyped
    <3> QED
      BY <1>c, <2>1, <2>3, <3>1 DEF Outside
  <2> QED
    BY <1>2, <2>2, <2>3 DEF CheckTransition
<1>3. ASSUME NEW w \in Workers, MarkStatus(w) PROVE StepOf(x)
  <2>1. PICK c \in Onward \ {"check", "mark"} : Goto(w, c)
    BY <1>3, <1>a, NextPcTyped DEF MarkStatus
  <2> QED
    BY <1>3, <1>c, <2>1 DEF MarkStatus, Outside
<1>4. ASSUME NEW w \in Workers, Throw(w) PROVE StepOf(x)
  <2>1. PICK c \in Onward \ {"check", "mark"} : Goto(w, c)
    BY <1>4, <1>a, NextPcTyped DEF Throw
  <2> QED
    BY <1>4, <1>c, <2>1 DEF Throw, Outside
<1>5. ASSUME NEW w \in Workers, Orchestrate(w) PROVE StepOf(x)
  <2>1. CASE StartRateLimited(w) \/ StartRefused(w) \/ HandToPoller(w)
    <3>1. PICK c \in {"later", "complete"} : Goto(w, c)
      BY <2>1 DEF StartRateLimited, StartRefused, HandToPoller
    <3>2. proc[w].pc # "idle"
      BY <2>1 DEF StartRateLimited, StartRefused, HandToPoller, At
    <3> QED
      BY <1>c, <3>1, <3>2 DEF Onward, PCs, Outside
  <2>2. CASE AcquireLock(w) \/ LoadRun(w) \/ PatchContract(w) \/ StartAccepted(w) \/ Catch(w)
    <3>1. x # w => proc'[x] = proc[x]
      BY <1>a, <2>2 DEF AcquireLock, LoadRun, PatchContract, StartAccepted, Catch, Goto
    <3> QED
      BY <1>b, <2>2, <3>1 DEF StepOf
  <2> QED
    BY <1>5, <2>1, <2>2 DEF Orchestrate
<1>6. ASSUME NEW w \in Workers, Poll(w) PROVE StepOf(x)
  <2>0. proc[w].pc # "idle" /\ proc[w].job[1] = "poll"
    BY <1>6 DEF Poll, PollLoad, PollTimedOut, PollNotReady, PollCompleted, PollTerminal,
       Decide, RequestRetry, RequeueOrchestrator, HandOver, Salvaged, At
  <2>1. CASE PollLoad(w)
    <3>1. PICK m : proc' = [proc EXCEPT ![w] =
                      [proc[w] EXCEPT !.mut = m, !.pc = "check", !.goal = "polling"]]
      BY <2>1 DEF PollLoad
    <3> QED
      BY <1>a, <1>b, <2>0, <3>1 DEF ProcType, StepOf, Moves, Onward, PCs
  <2>2. CASE PollTimedOut(w) \/ PollTerminal(w)
    <3>1. Goto(w, "decide") \/ GotoMark(w, "failed")
      BY <2>2 DEF PollTimedOut, PollTerminal
    <3> QED
      BY <1>c, <1>d, <2>0, <3>1 DEF Onward, PCs
  <2>3. CASE Decide(w)
    <3>1. x # w => proc'[x] = proc[x]
      BY <1>a, <2>3 DEF Decide, Goto, GotoMark
    <3> QED
      BY <1>b, <2>3, <3>1 DEF StepOf
  <2>4. CASE PollNotReady(w) \/ PollCompleted(w) \/ RequestRetry(w)
             \/ RequeueOrchestrator(w) \/ HandOver(w) \/ Salvaged(w)
    <3>1. PICK c \in {"later", "hand", "requeue", "threw", "complete"} : Goto(w, c)
      BY <2>4 DEF PollNotReady, PollCompleted, RequestRetry, RequeueOrchestrator,
         HandOver, Salvaged
    <3> QED
      BY <1>c, <2>0, <3>1 DEF Onward, PCs
  <2> QED
    BY <1>6, <2>1, <2>2, <2>3, <2>4 DEF Poll
<1>7. ASSUME NEW w \in Workers, Ingest(w) PROVE StepOf(x)
  <2>1. CASE Stage(w)
    BY <1>d, <2>1 DEF Stage, At
  <2>2. CASE MergeStaging(w)
    <3>1. x # w => proc'[x] = proc[x]
      BY <1>a, <2>2 DEF MergeStaging
    <3> QED
      BY <1>b, <2>2, <3>1 DEF StepOf
  <2>3. CASE ReconcileLines(w)
    BY <1>c, <2>3 DEF ReconcileLines, At, Onward, PCs
  <2>4. CASE ErrorRateAbort(w)
    BY <1>b, <2>4 DEF ErrorRateAbort
  <2> QED
    BY <1>7, <2>1, <2>2, <2>3, <2>4 DEF Ingest
<1>8. ASSUME NEW w \in Workers, Finish(w) \/ Crash(w) \/ TimeOut(w) PROVE StepOf(x)
  <2>1. x # w => proc'[x] = proc[x]
    BY <1>a, <1>8 DEF Finish, Complete, Rethrow, Postpone, Settle, Crash, TimeOut
  <2> QED
    BY <1>b, <1>8, <2>1 DEF StepOf
<1>9. CASE proc' = proc
  BY <1>b, <1>9
<1>10. \/ proc' = proc
       \/ \E w \in Workers : (\E j \in JobIds : Take(w, j)) \/ WorkerStep(w)
                             \/ Throw(w) \/ Crash(w) \/ TimeOut(w)
  BY DEF Next, Start, Upload, CancelRead, CancelShopify, CancelWrite, Expire,
     ShopifyEnds, DeadLockExpires, LeaseLapses
<1> QED
  BY <1>1, <1>2, <1>3, <1>4, <1>5, <1>6, <1>7, <1>8, <1>9, <1>10 DEF WorkerStep

-----------------------------------------------------------------------------
(* What a row must show for its run to be completed; once shown, no step      *)
(* takes it back.                                                             *)
Earned(r) == row[r].merged \/ (row[r].partial /\ row[r].retry >= MaxRetries)

(* A processor that is about to write "completed" has earned it, although     *)
(* the check and the UPDATE are steps of their own.                           *)
CompletionsEarned ==
    /\ CompletedIsMerged
    /\ \A w \in Workers :
        proc[w].pc \in {"check", "mark"} /\ proc[w].goal = "completed" => Earned(proc[w].run)

LEMMA EarnedStays == ASSUME Typed, Next, NEW r \in Runs, Earned(r) PROVE Earned(r)'
<1>1. RowStep(r)
  BY RowSteps
<1>2. row[r].retry \in Nat
  BY DEF Typed, TypeOK, RowType
<1>3. row'[r].retry \in {row[r].retry, row[r].retry + 1}
  BY <1>1 DEF RowStep
<1>4. row[r].retry >= MaxRetries => row'[r].retry >= MaxRetries
  BY <1>2, <1>3, BoundsAssumption
<1> QED
  BY <1>1, <1>4 DEF Earned, RowStep

(* A run is completed only when it was merged, or when its retries are spent  *)
(* and Shopify offered partial data: under any crashes, time-outs, lapses and *)
(* cancels, and whatever other processors of the run do.                      *)
THEOREM CompletedMerged == Spec => []CompletedIsMerged
<1>1. Init => CompletionsEarned
  BY DEF Init, Idle, CompletionsEarned, CompletedIsMerged
<1>2. Typed /\ CompletionsEarned /\ [Next]_vars => CompletionsEarned'
  <2>1. CASE UNCHANGED vars
    BY <2>1 DEF vars, CompletionsEarned, CompletedIsMerged, Earned
  <2> SUFFICES ASSUME Typed, CompletionsEarned, Next PROVE CompletionsEarned'
    BY <2>1
  <2>2. ASSUME NEW r \in Runs, row'[r].status = "completed" PROVE Earned(r)'
    <3>1. CASE row[r].status = "completed"
      BY <3>1, EarnedStays DEF CompletionsEarned, CompletedIsMerged, Earned
    <3>2. CASE row[r].status # "completed"
      <4>1. PICK w \in Workers : MarkStatus(w) /\ proc[w].run = r /\ proc[w].goal = "completed"
        BY <2>2, <3>2, RowSteps DEF RowStep
      <4>2. Earned(r)
        BY <4>1 DEF MarkStatus, CompletionsEarned
      <4> QED
        BY <4>2, EarnedStays
    <3> QED
      BY <3>1, <3>2
  <2>3. ASSUME NEW x \in Workers, proc'[x].pc \in {"check", "mark"}, proc'[x].goal = "completed"
        PROVE  Earned(proc[x].run)' 
    <3>0. proc \in [Workers -> ProcType] /\ proc[x] \in ProcType /\ Knows(proc[x])
      BY DEF Typed, TypeOK
    <3>1. CASE proc[x].pc \in {"check", "mark"} /\ proc'[x].goal = proc[x].goal
               /\ proc'[x].run = proc[x].run
      <4>1. proc[x].run \in Runs /\ Earned(proc[x].run)
        BY <2>3, <3>0, <3>1 DEF Knows, CompletionsEarned
      <4>2. \A r \in Runs : Earned(r) => Earned(r)'
        BY EarnedStays
      <4> QED
        BY <3>1, <4>1, <4>2 DEF Earned
    <3>2. CASE Decide(x)
      <4> DEFINE r == proc[x].run
      <4>1. r \in Runs /\ proc'[x].run = r
        <5>1. proc[x].pc # "idle" /\ \/ Goto(x, "reset")
                                     \/ GotoMark(x, "failed") \/ GotoMark(x, "completed")
          BY <3>2 DEF Decide, At
        <5> QED
          BY <3>0, <5>1 DEF Knows, Goto, GotoMark, ProcType
      <4>2. CASE row[r].retry < MaxRetries
        BY <2>3, <3>0, <3>2, <4>2 DEF Decide, Goto, ProcType
      <4>3. CASE ~(row[r].retry < MaxRetries) /\ row[r].partial
        <5>1. row[r].retry \in Nat
          BY <4>1 DEF Typed, TypeOK, RowType
        <5>2. row[r].retry >= MaxRetries
          BY <4>3, <5>1, BoundsAssumption
        <5>3. UNCHANGED row
          BY <3>2 DEF Decide
        <5> QED
          BY <4>1, <4>3, <5>2, <5>3 DEF Earned
      <4>4. CASE ~(row[r].retry < MaxRetries) /\ ~row[r].partial
        BY <2>3, <3>0, <3>2, <4>4 DEF Decide, GotoMark, ProcType
      <4> QED
        BY <4>2, <4>3, <4>4
    <3>3. CASE MergeStaging(x)
      <4>1. proc[x].run \in Runs /\ proc'[x].run = proc[x].run
        BY <3>0, <3>3 DEF MergeStaging, At, Knows, ProcType
      <4>2. row'[proc[x].run].merged
        <5>1. row[proc[x].run] \in RowType /\ row \in [Runs -> RowType]
          BY <4>1 DEF Typed, TypeOK
        <5> QED
          BY <3>3, <4>1, <5>1 DEF MergeStaging, RowType
      <4> QED
        BY <4>1, <4>2 DEF Earned
    <3>4. CASE \/ \E j \in JobIds : Take(x, j)
               \/ AcquireLock(x) \/ LoadRun(x) \/ PatchContract(x) \/ StartAccepted(x)
               \/ Catch(x) \/ Finish(x) \/ Crash(x)
      <4>1. CASE \E j \in JobIds : Take(x, j)
        BY <2>3, <3>0, <4>1 DEF Take
      <4>2. CASE AcquireLock(x) \/ PatchContract(x)
        BY <2>3, <3>0, <4>2 DEF AcquireLock, PatchContract, Goto, ProcType
      <4>3. CASE LoadRun(x)
        <5>1. PICK r, o : proc' = [proc EXCEPT ![x] =
                          [proc[x] EXCEPT !.pc = "patch", !.run = r, !.op = o]]
          BY <4>3 DEF LoadRun
        <5> QED
          BY <2>3, <3>0, <5>1 DEF ProcType
      <4>4. CASE StartAccepted(x)
        BY <2>3, <3>0, <4>4 DEF StartAccepted, ProcType
      <4>5. CASE Catch(x)
        BY <2>3, <3>0, <4>5 DEF Catch, ProcType
      <4>6. CASE Finish(x) \/ Crash(x)
        BY <2>3, <3>0, <4>6 DEF Finish, Complete, Rethrow, Postpone, Settle, Crash, Idle
      <4> QED
        BY <3>4, <4>1, <4>2, <4>3, <4>4, <4>5, <4>6
    <3>5. CASE TimeOut(x)
      BY <2>3, <3>0, <3>1, <3>5 DEF TimeOut, ProcType
    <3> QED
      BY <2>3, <3>0, <3>1, <3>2, <3>3, <3>4, <3>5, StepsOf DEF StepOf, Moves
  <2> QED
    BY <2>2, <2>3 DEF CompletionsEarned, CompletedIsMerged, Earned
<1> QED
  BY <1>1, <1>2, TypedInvariant, PTL DEF Spec, CompletionsEarned

-----------------------------------------------------------------------------
(* Without time-outs a job is processed by one worker at a time, so the       *)
(* retry count that a poller has read is still there when it raises it.       *)
OneProcessorPerJob ==
    \A w \in Workers : proc[w].pc # "idle" =>
        /\ ~proc[w].lost
        /\ job[proc[w].job].state = "active"
        /\ \A x \in Workers : proc[x].pc # "idle" /\ proc[x].job = proc[w].job => x = w

RetriesLeft ==
    /\ RetryBudget
    /\ \A w \in Workers : At(w, "poll", "reset") => row[proc[w].run].retry < MaxRetries

LEMMA OneProcessorPerJobStep ==
    ASSUME Typed, OneProcessorPerJob, Next, "timeout" \notin Trouble
    PROVE  OneProcessorPerJob'
<1>a. /\ job \in [JobIds -> JobType]
      /\ proc \in [Workers -> ProcType]
      /\ \A w \in Workers : proc[w] \in ProcType /\ Knows(proc[w])
      /\ \A w \in Workers : proc[w].pc # "idle" =>
            proc[w].job \in JobIds /\ proc[w].run \in Runs
  BY DEF Typed, TypeOK, Knows
<1> DEFINE Keeps(x) == /\ proc'[x].job = proc[x].job
                       /\ (proc'[x].pc = "idle") <=> (proc[x].pc = "idle")
                       /\ ~proc[x].lost => ~proc'[x].lost
<1>b. ASSUME \A x \in Workers : Keeps(x),
             \A j \in JobIds : job[j].state = "active" => job'[j].state = "active"
      PROVE  OneProcessorPerJob'
  <2> SUFFICES ASSUME NEW w \in Workers, proc'[w].pc # "idle"
               PROVE  /\ ~proc'[w].lost
                      /\ job'[proc'[w].job].state = "active"
                      /\ \A x \in Workers :
                           proc'[x].pc # "idle" /\ proc'[x].job = proc'[w].job => x = w
    BY DEF OneProcessorPerJob
  <2>1. proc[w].pc # "idle" /\ proc'[w].job = proc[w].job /\ (~proc[w].lost => ~proc'[w].lost)
    BY <1>b
  <2>2. proc[w].job \in JobIds /\ job[proc[w].job].state = "active" /\ ~proc[w].lost
    BY <1>a, <2>1 DEF OneProcessorPerJob
  <2>3. \A x \in Workers : proc'[x].pc # "idle" /\ proc'[x].job = proc'[w].job => x = w
    BY <1>b, <2>1 DEF OneProcessorPerJob
  <2> QED
    BY <1>b, <2>1, <2>2, <2>3
<1>c. ASSUME NEW j \in JobIds, NEW o, job' = Added(j, o)
      PROVE  \A i \in JobIds : job[i].state = "active" => job'[i].state = "active"
  BY <1>a, <1>c DEF Added
<1>d. ASSUME NEW x \in Workers, ~\E j \in JobIds : Take(x, j), ~(Finish(x) \/ Crash(x))
      PROVE  Keeps(x)
  <2>0. proc[x] \in ProcType
    BY <1>a
  <2>1. CASE AcquireLock(x) \/ PatchContract(x)
    BY <1>a, <2>0, <2>1 DEF AcquireLock, PatchContract, Goto, At, ProcType
  <2>2. CASE LoadRun(x)
    <3>1. PICK r, o : proc' = [proc EXCEPT ![x] =
                      [proc[x] EXCEPT !.pc = "patch", !.run = r, !.op = o]]
      BY <2>2 DEF LoadRun
    <3>2. proc[x].pc = "row"
      BY <2>2 DEF LoadRun, At
    <3> QED
      BY <1>a, <2>0, <3>1, <3>2 DEF ProcType
  <2>3. CASE StartAccepted(x)
    BY <1>a, <2>0, <2>3 DEF StartAccepted, At, ProcType
  <2>4. CASE Catch(x)
    BY <1>a, <2>0, <2>4 DEF Catch, At, ProcType
  <2>5. CASE Decide(x)
    <3>1. proc[x].pc = "decide" /\ proc \in [Workers -> ProcType]
      BY <1>a, <2>5 DEF Decide, At
    <3>2. CASE Goto(x, "reset")
      BY <2>0, <3>1, <3>2 DEF Goto, ProcType
    <3>3. ASSUME NEW s, GotoMark(x, s) PROVE Keeps(x)
      BY <2>0, <3>1, <3>3 DEF GotoMark, ProcType
    <3> QED
      BY <2>5, <3>2, <3>3 DEF Decide
  <2>6. CASE MergeStaging(x)
    BY <1>a, <2>0, <2>6 DEF MergeStaging, At, ProcType
  <2>7. CASE TimeOut(x)
    BY <2>7 DEF TimeOut, Fault
  <2>8. CASE Moves(x)
    BY <2>8 DEF Moves, Onward
  <2> QED
    BY <1>d, <2>1, <2>2, <2>3, <2>4, <2>5, <2>6, <2>7, <2>8, StepsOf DEF StepOf
<1>1. ASSUME NEW w \in Workers, NEW j \in JobIds, Take(w, j) PROVE OneProcessorPerJob'
  <2>1. /\ proc[w].pc = "idle" /\ job[j].state = "waiting"
        /\ proc'[w].job = j /\ ~proc'[w].lost
        /\ \A x \in Workers : x # w => proc'[x] = proc[x]
        /\ job' = [job EXCEPT ![j] = [job[j] EXCEPT !.state = "active"]]
    BY <1>1, <1>a DEF Take
  <2>2. job'[j].state = "active" /\ \A i \in JobIds : i # j => job'[i] = job[i]
    <3>1. job[j] \in JobType
      BY <1>a
    <3> QED
      BY <1>a, <2>1, <3>1 DEF JobType
  <2>3. \A x \in Workers : x # w /\ proc[x].pc # "idle" => proc[x].job # j
    BY <2>1 DEF OneProcessorPerJob
  <2> QED
    BY <1>a, <2>1, <2>2, <2>3 DEF OneProcessorPerJob
<1>2. ASSUME NEW w \in Workers, Finish(w) \/ Crash(w) PROVE OneProcessorPerJob'
  <2>1. proc[w].pc # "idle" /\ proc' = [proc EXCEPT ![w] = Idle]
    BY <1>2 DEF Finish, Complete, Rethrow, Postpone, Settle, Crash
  <2>2. proc'[w].pc = "idle" /\ \A x \in Workers : x # w => proc'[x] = proc[x]
    BY <1>a, <2>1 DEF Idle
  <2>3. \A i \in JobIds : i # proc[w].job => job'[i] = job[i]
    BY <1>2, <1>a DEF Finish, Complete, Rethrow, Postpone, Settle, Crash, AttemptFailed
  <2>4. \A x \in Workers : x # w /\ proc[x].pc # "idle" =>
           proc[x].job \in JobIds /\ proc[x].job # proc[w].job
    BY <1>a, <2>1 DEF OneProcessorPerJob
  <2> QED
    BY <2>2, <2>3, <2>4 DEF OneProcessorPerJob
<1>3. ASSUME \A x \in Workers : ~\E j \in JobIds : Take(x, j),
             \A x \in Workers : ~(Finish(x) \/ Crash(x))
      PROVE  \A i \in JobIds : job[i].state = "active" => job'[i].state = "active"
  <2>1. CASE job' = job
    BY <2>1
  <2>2. CASE \E j \in JobIds, o \in Ops \cup {None} : job' = Added(j, o)
    BY <1>c, <2>2
  <2>3. CASE \E j \in JobIds : Expire(j)
    BY <1>a, <2>3 DEF Expire
  <2>4. ASSUME NEW w \in Workers, TimeOut(w) PROVE FALSE
    BY <2>4 DEF TimeOut, Fault
  <2>5. \/ job' = job
        \/ \E j \in JobIds, o \in Ops \cup {None} : job' = Added(j, o)
        \/ \E j \in JobIds : Expire(j)
    <3>1. ASSUME NEW k \in Keys, Start(k) PROVE \E j \in JobIds, o \in Ops \cup {None} : job' = Added(j, o)
      BY <3>1 DEF Start, JobIds
    <3>2. ASSUME NEW u \in Uploads, Upload(u)
          PROVE  job' = job \/ \E j \in JobIds, o \in Ops \cup {None} : job' = Added(j, o)
      BY <3>2 DEF Upload, JobIds, Runs
    <3>3. ASSUME NEW w \in Workers,
                 HandToPoller(w) \/ RequeueOrchestrator(w) \/ HandOver(w) \/ Salvaged(w)
          PROVE  job' = job \/ \E j \in JobIds, o \in Ops \cup {None} : job' = Added(j, o)
      <4>1. proc[w].run \in Runs /\ proc[w].op \in Ops \cup {None}
        BY <1>a, <3>3 DEF HandToPoller, RequeueOrchestrator, HandOver, Salvaged, At, ProcType
      <4>2. \A r \in Runs : /\ <<"poll", r>> \in JobIds
                            /\ <<"orch", IF r \in Keys THEN r ELSE DerivedKey>> \in JobIds
                            /\ <<"reconcile", r>> \in JobIds
                            /\ <<"ingest", r>> \in JobIds
        BY NamesAssumption DEF JobIds
      <4>3. CASE HandToPoller(w)
        BY <4>1, <4>2, <4>3 DEF HandToPoller
      <4>4. CASE RequeueOrchestrator(w)
        BY <4>1, <4>2, <4>4 DEF RequeueOrchestrator
      <4>5. CASE HandOver(w)
        BY <4>1, <4>2, <4>5 DEF HandOver
      <4>6. CASE Salvaged(w)
        BY <4>1, <4>2, <4>6 DEF Salvaged
      <4> QED
        BY <3>3, <4>3, <4>4, <4>5, <4>6
    <3>4. ASSUME NEW w \in Workers, WorkerStep(w)
          PROVE  \/ job' = job \/ Finish(w)
                 \/ HandToPoller(w) \/ RequeueOrchestrator(w) \/ HandOver(w) \/ Salvaged(w)
      BY <3>4 DEF WorkerStep, CheckTransition, MarkStatus, Orchestrate, AcquireLock, LoadRun,
         PatchContract, StartAccepted, StartRateLimited, StartRefused, Catch, Poll, PollLoad,
         PollTimedOut, PollNotReady, PollCompleted, PollTerminal, Decide, RequestRetry,
         Ingest, Stage, MergeStaging, ReconcileLines, ErrorRateAbort
    <3>5. ASSUME NEW w \in Workers, Throw(w) PROVE job' = job
      BY <3>5 DEF Throw
    <3>6. ASSUME \/ \E r \in Runs : CancelRead(r)
                 \/ CancelShopify \/ CancelWrite \/ DeadLockExpires \/ LeaseLapses
                 \/ \E o \in Ops : ShopifyEnds(o)
          PROVE  job' = job
      BY <3>6 DEF CancelRead, CancelShopify, CancelWrite, DeadLockExpires, LeaseLapses, ShopifyEnds
    <3> QED
      BY <1>3, <2>4, <3>1, <3>2, <3>3, <3>4, <3>5, <3>6 DEF Next
  <2> QED
    BY <2>1, <2>2, <2>3, <2>5
<1> QED
  <2>1. CASE \E w \in Workers : (\E j \in JobIds : Take(w, j)) \/ Finish(w) \/ Crash(w)
    BY <1>1, <1>2, <2>1
  <2>2. CASE ~\E w \in Workers : (\E j \in JobIds : Take(w, j)) \/ Finish(w) \/ Crash(w)
    BY <1>b, <1>d, <1>3, <2>2
  <2> QED
    BY <2>1, <2>2

(* No run is retried more than max_retries times, if no job times out: the    *)
(* count is read in one transaction of the poller and raised in another, and  *)
(* what makes this safe is that BullMQ runs one poller of a run at a time.    *)
THEOREM RetriesBounded == "timeout" \notin Trouble /\ Spec => []RetryBudget
<1> SUFFICES ASSUME "timeout" \notin Trouble PROVE Spec => []RetryBudget
  OBVIOUS
<1>1. Init => OneProcessorPerJob /\ RetriesLeft
  BY BoundsAssumption DEF Init, Idle, OneProcessorPerJob, RetriesLeft, RetryBudget, At
<1>2. Typed /\ OneProcessorPerJob /\ [Next]_vars => OneProcessorPerJob'
  BY OneProcessorPerJobStep DEF vars, OneProcessorPerJob
<1>3. Typed /\ OneProcessorPerJob /\ RetriesLeft /\ [Next]_vars => RetriesLeft'
  <2>1. CASE UNCHANGED vars
    BY <2>1 DEF vars, RetriesLeft, RetryBudget, At
  <2> SUFFICES ASSUME Typed, OneProcessorPerJob, RetriesLeft, Next PROVE RetriesLeft'
    BY <2>1
  <2>a. /\ proc \in [Workers -> ProcType]
        /\ \A w \in Workers : proc[w] \in ProcType /\ Knows(proc[w])
        /\ \A r \in Runs : row[r].retry \in Nat
    BY DEF Typed, TypeOK, RowType
  <2>2. ASSUME NEW r \in Runs PROVE row'[r].retry <= MaxRetries
    <3>1. CASE row'[r].retry = row[r].retry
      BY <3>1 DEF RetriesLeft, RetryBudget
    <3>2. CASE row'[r].retry # row[r].retry
      <4>1. PICK w \in Workers : RequestRetry(w) /\ proc[w].run = r
        BY <3>2, RowSteps DEF RowStep
      <4>2. row[r].retry < MaxRetries
        BY <4>1 DEF RequestRetry, RetriesLeft
      <4>3. row'[r].retry = row[r].retry + 1
        BY <3>2, RowSteps DEF RowStep
      <4> QED
        BY <2>a, <4>2, <4>3, BoundsAssumption
    <3> QED
      BY <3>1, <3>2
  <2>3. ASSUME NEW x \in Workers, At(x, "poll", "reset")'
        PROVE  row'[proc'[x].run].retry < MaxRetries
    <3>1. CASE Decide(x)
      <4>1. UNCHANGED row /\ proc[x].run = proc'[x].run
        BY <2>a, <3>1 DEF Decide, Goto, GotoMark, ProcType
      <4>2. row[proc[x].run].retry < MaxRetries
        BY <2>3, <2>a, <3>1 DEF Decide, At, GotoMark, ProcType
      <4> QED
        BY <4>1, <4>2
    <3>2. CASE proc'[x] = proc[x]
      <4> DEFINE r == proc[x].run
      <4>1. At(x, "poll", "reset") /\ r \in Runs /\ row[r].retry < MaxRetries
        BY <2>3, <2>a, <3>2 DEF At, Knows, RetriesLeft
      <4>2. row'[r].retry = row[r].retry
        <5>1. SUFFICES ASSUME row'[r].retry # row[r].retry PROVE FALSE
          OBVIOUS
        <5>2. PICK w \in Workers : RequestRetry(w) /\ proc[w].run = r
          BY <4>1, <5>1, RowSteps DEF RowStep
        <5>3. proc[w].job = proc[x].job /\ proc[w].pc # "idle" /\ proc[x].pc # "idle"
          <6>1. /\ proc[w].job \in JobIds /\ proc[w].job[1] = "poll" /\ proc[w].job[2] = r
                /\ proc[x].job \in JobIds /\ proc[x].job[1] = "poll" /\ proc[x].job[2] = r
            BY <2>a, <4>1, <5>2 DEF RequestRetry, At, Knows
          <6> QED
            BY <4>1, <5>2, <6>1 DEF JobIds, RequestRetry, At
        <5>4. w = x
          BY <5>3 DEF OneProcessorPerJob
        <5>5. proc'[w].pc # "reset"
          BY <2>a, <5>2 DEF RequestRetry, Goto, ProcType
        <5> QED
          BY <2>3, <5>4, <5>5 DEF At
      <4> QED
        BY <3>2, <4>1, <4>2
    <3>3. ASSUME NEW j \in JobIds, Take(x, j) PROVE FALSE
      BY <2>3, <2>a, <3>3, JobIdParts DEF Take, At, FirstStep
    <3>4. CASE AcquireLock(x) \/ PatchContract(x) \/ StartAccepted(x)
      <4>1. ASSUME NEW c \in {"row", "later", "hand", "start"}, Goto(x, c) PROVE FALSE
        BY <2>3, <2>a, <4>1 DEF At, Goto, ProcType
      <4>2. CASE StartAccepted(x)
        BY <2>3, <2>a, <4>2 DEF StartAccepted, At, ProcType
      <4> QED
        BY <3>4, <4>1, <4>2 DEF AcquireLock, PatchContract
    <3>5. CASE LoadRun(x)
      <4>1. PICK r, o : proc' = [proc EXCEPT ![x] =
                        [proc[x] EXCEPT !.pc = "patch", !.run = r, !.op = o]]
        BY <3>5 DEF LoadRun
      <4> QED
        BY <2>3, <2>a, <4>1 DEF At, ProcType
    <3>6. CASE Catch(x) \/ MergeStaging(x)
      BY <2>3, <2>a, <3>6 DEF Catch, MergeStaging, At, ProcType
    <3>7. CASE Finish(x) \/ Crash(x)
      BY <2>3, <2>a, <3>7 DEF Finish, Complete, Rethrow, Postpone, Settle, Crash, At, Idle
    <3>8. ASSUME TimeOut(x) PROVE FALSE
      BY <3>8 DEF TimeOut, Fault
    <3>9. ASSUME Moves(x) PROVE FALSE
      BY <2>3, <3>9 DEF Moves, Onward, At
    <3> QED
      BY <3>1, <3>2, <3>3, <3>4, <3>5, <3>6, <3>7, <3>8, <3>9, StepsOf DEF StepOf
  <2> QED
    BY <2>2, <2>3 DEF RetriesLeft, RetryBudget
<1>4. RetriesLeft => RetryBudget
  BY DEF RetriesLeft
<1> QED
  BY <1>1, <1>2, <1>3, <1>4, TypedInvariant, PTL DEF Spec

-----------------------------------------------------------------------------
(* While no lease lapses, an orchestrator in its section holds the lock of    *)
(* the shop,                                                                  *)
SectionLocked ==
    \A w \in Workers : proc[w].pc \notin Outside /\ proc[w].job[1] = "orch" => lock = w

(* and one that is about to start an operation, or to record the one it has   *)
(* started, works on a run that records none.                                 *)
Starting(w) ==
    \/ proc[w].pc = "patch" /\ proc[w].op = None
    \/ proc[w].pc = "start"
    \/ proc[w].pc \in {"check", "mark"} /\ proc[w].goal = "running"

StartsFresh ==
    \A w \in Workers :
        Starting(w) /\ proc[w].job[1] = "orch" => row[proc[w].run].op = None

LEMMA LockStays ==
    ASSUME Typed, Next, "lapse" \notin Trouble, NEW x \in Workers, lock = x
    PROVE  lock' = x \/ Finish(x) \/ Crash(x)
<1>1. x # None /\ x # "dead"
  BY NamesAssumption
<1>2. ASSUME NEW w \in Workers, Finish(w) \/ Crash(w) PROVE lock' = x \/ Finish(x) \/ Crash(x)
  BY <1>2 DEF Finish, Complete, Rethrow, Postpone, Settle, Crash
<1>3. ASSUME NEW w \in Workers, WorkerStep(w) PROVE lock' = x \/ Finish(w)
  BY <1>1, <1>3 DEF WorkerStep, CheckTransition, MarkStatus, Orchestrate, AcquireLock, LoadRun,
     PatchContract, StartAccepted, StartRateLimited, StartRefused, HandToPoller, Catch, Poll,
     PollLoad, PollTimedOut, PollNotReady, PollCompleted, PollTerminal, Decide, RequestRetry,
     RequeueOrchestrator, HandOver, Salvaged, Ingest, Stage, MergeStaging, ReconcileLines,
     ErrorRateAbort
<1>4. ASSUME NEW w \in Workers, (\E j \in JobIds : Take(w, j)) \/ Throw(w) \/ TimeOut(w)
      PROVE  lock' = x
  BY <1>4 DEF Take, Throw, TimeOut
<1>5. CASE DeadLockExpires \/ LeaseLapses
  BY <1>1, <1>5 DEF DeadLockExpires, LeaseLapses, Fault
<1>6. ASSUME \/ (\E k \in Keys : Start(k)) \/ (\E u \in Uploads : Upload(u))
             \/ (\E r \in Runs : CancelRead(r)) \/ CancelShopify \/ CancelWrite
             \/ (\E j \in JobIds : Expire(j)) \/ (\E o \in Ops : ShopifyEnds(o))
      PROVE  lock' = x
  BY <1>6 DEF Start, Upload, CancelRead, CancelShopify, CancelWrite, Expire, ShopifyEnds
<1> QED
  BY <1>2, <1>3, <1>4, <1>5, <1>6 DEF Next

LEMMA SectionLockedStep ==
    ASSUME Typed, SectionLocked, Next, "lapse" \notin Trouble
    PROVE  SectionLocked'
<1>a. /\ proc \in [Workers -> ProcType]
      /\ \A w \in Workers : proc[w] \in ProcType /\ Knows(proc[w])
  BY DEF Typed, TypeOK
<1> SUFFICES ASSUME NEW x \in Workers, proc'[x].pc \notin Outside, proc'[x].job[1] = "orch"
             PROVE  lock' = x
  BY DEF SectionLocked
<1>b. ASSUME lock = x, proc[x].pc \notin Outside PROVE lock' = x
  <2>1. ~Finish(x)
    BY <1>b DEF Finish, Complete, Rethrow, Postpone, Outside
  <2>2. ~Crash(x)
    BY <1>a DEF Crash, Idle, Outside
  <2> QED
    BY <1>b, <2>1, <2>2, LockStays
<1>1. CASE proc'[x] = proc[x]
  BY <1>b, <1>1 DEF SectionLocked
<1>2. ASSUME NEW j \in JobIds, Take(x, j) PROVE FALSE
  BY <1>a, <1>2 DEF Take, FirstStep, Outside
<1>3. CASE AcquireLock(x)
  BY <1>a, <1>3 DEF AcquireLock, Goto, Outside, ProcType
<1>4. CASE LoadRun(x) \/ PatchContract(x) \/ StartAccepted(x) \/ Catch(x)
  <2>1. proc[x].pc \notin Outside /\ proc[x].job[1] = "orch"
    BY <1>4 DEF LoadRun, PatchContract, StartAccepted, Catch, At, Outside
  <2> QED
    BY <1>b, <2>1 DEF SectionLocked
<1>5. ASSUME Decide(x) \/ MergeStaging(x) PROVE FALSE
  <2>1. proc[x].job[1] # "orch"
    BY <1>5 DEF Decide, MergeStaging, At
  <2>2. proc'[x].job = proc[x].job
    BY <1>a, <1>5 DEF Decide, MergeStaging, Goto, GotoMark, ProcType
  <2> QED
    BY <2>1, <2>2
<1>6. ASSUME Finish(x) \/ Crash(x) PROVE FALSE
  BY <1>a, <1>6 DEF Finish, Complete, Rethrow, Postpone, Settle, Crash, Idle, Outside
<1>7. CASE TimeOut(x)
  <2>1. proc'[x].pc = proc[x].pc /\ proc'[x].job = proc[x].job
    BY <1>a, <1>7 DEF TimeOut, ProcType
  <2> QED
    BY <1>b, <2>1 DEF SectionLocked
<1>8. CASE Moves(x)
  BY <1>b, <1>8 DEF Moves, SectionLocked
<1> QED
  BY <1>1, <1>2, <1>3, <1>4, <1>5, <1>6, <1>7, <1>8, StepsOf DEF StepOf

(* The only one that records an operation is the holder of the lock.          *)
LEMMA Recorder ==
    ASSUME Typed, SectionLocked, NEW w \in Workers, MarkStatus(w), proc[w].goal = "running"
    PROVE  lock = w /\ proc[w].job[1] = "orch" /\ Starting(w)
<1>1. Knows(proc[w]) /\ proc[w].pc = "mark"
  BY DEF Typed, MarkStatus
<1>2. proc[w].job[1] = "orch"
  BY <1>1, JobIdParts DEF Knows
<1> QED
  BY <1>1, <1>2 DEF SectionLocked, Outside, Starting

LEMMA StartsFreshStep ==
    ASSUME Typed, SectionLocked, StartsFresh, Next, "lapse" \notin Trouble
    PROVE  StartsFresh'
<1>a. /\ proc \in [Workers -> ProcType]
      /\ row \in [Runs -> RowType]
      /\ \A w \in Workers : proc[w] \in ProcType /\ Knows(proc[w]) /\ proc[w].pc \in PCs
  BY DEF Typed, TypeOK, ProcType
<1> SUFFICES ASSUME NEW x \in Workers, Starting(x)', proc'[x].job[1] = "orch"
             PROVE  row'[proc'[x].run].op = None
  BY DEF StartsFresh
\* It was starting already: it holds the lock, so nobody else records.
<1>b. ASSUME Starting(x), proc[x].job[1] = "orch", proc'[x].run = proc[x].run PROVE row'[proc'[x].run].op = None
  <2> DEFINE r == proc[x].run
  <2>1. row[r].op = None /\ lock = x /\ r \in Runs
    BY <1>a, <1>b DEF StartsFresh, SectionLocked, Starting, Outside, Knows
  <2>2. ASSUME row'[r].op # row[r].op, row'[r].op # None PROVE FALSE
    <3>1. PICK w \in Workers : MarkStatus(w) /\ proc[w].goal = "running"
      BY <2>1, <2>2, RowSteps DEF RowStep
    <3>2. w = x
      BY <2>1, <3>1, Recorder
    <3>3. PICK c \in Onward \ {"check", "mark"} : Goto(x, c)
      BY <1>a, <3>1, <3>2, NextPcTyped DEF MarkStatus
    <3> QED
      BY <1>a, <3>3 DEF Goto, ProcType, Onward, Starting
  <2> QED
    BY <1>b, <2>1, <2>2
<1>1. CASE proc'[x] = proc[x]
  BY <1>b, <1>1 DEF Starting
<1>2. ASSUME NEW j \in JobIds, Take(x, j) PROVE FALSE
  BY <1>a, <1>2 DEF Take, FirstStep, Starting
<1>3. ASSUME AcquireLock(x) PROVE FALSE
  BY <1>a, <1>3 DEF AcquireLock, Goto, Starting, ProcType
<1>4. CASE LoadRun(x)
  <2>1. PICK r : /\ proc' = [proc EXCEPT ![x] = [proc[x] EXCEPT !.pc = "patch", !.run = r, !.op = row[r].op]]
                 /\ row' = [row EXCEPT ![r] = [row[r] EXCEPT !.status = "pending"]] \/ row' = row
    BY <1>4 DEF LoadRun
  <2>2. /\ proc'[x].run = r /\ proc'[x].op = row[r].op /\ proc'[x].pc = "patch"
    BY <1>a, <2>1 DEF ProcType
  <2>3. row[r].op = None
    BY <2>2 DEF Starting
  <2>4. r \in Runs
    BY <1>4, <2>2, TypedStep DEF Typed, Knows
  <2>5. row'[r].op = row[r].op
    <3>1. row[r] \in RowType
      BY <1>a, <2>4
    <3> QED
      BY <1>a, <2>1, <2>4, <3>1 DEF RowType
  <2> QED
    BY <2>2, <2>3, <2>5
<1>5. CASE PatchContract(x)
  <2>1. PICK c \in {"hand", "start"} : Goto(x, c) /\ (c = "start" => proc[x].op = None)
    BY <1>5 DEF PatchContract
  <2>2. c = "start" /\ proc'[x].run = proc[x].run
    BY <1>a, <2>1 DEF Goto, ProcType, Starting
  <2> QED
    BY <1>b, <1>5, <2>1, <2>2 DEF PatchContract, At, Starting
<1>6. CASE StartAccepted(x)
  <2>1. proc'[x].run = proc[x].run
    BY <1>a, <1>6 DEF StartAccepted, ProcType
  <2> QED
    BY <1>b, <1>6, <2>1 DEF StartAccepted, At, Starting
<1>7. ASSUME Catch(x) PROVE FALSE
  BY <1>a, <1>7 DEF Catch, Starting, ProcType
<1>8. ASSUME Decide(x) \/ MergeStaging(x) PROVE FALSE
  <2>1. proc[x].job[1] # "orch"
    BY <1>8 DEF Decide, MergeStaging, At
  <2>2. proc'[x].job = proc[x].job
    BY <1>a, <1>8 DEF Decide, MergeStaging, Goto, GotoMark, ProcType
  <2> QED
    BY <2>1, <2>2
<1>9. ASSUME Finish(x) \/ Crash(x) PROVE FALSE
  BY <1>a, <1>9 DEF Finish, Complete, Rethrow, Postpone, Settle, Crash, Idle, Starting
<1>10. CASE TimeOut(x)
  <2>1. /\ proc'[x].pc = proc[x].pc /\ proc'[x].job = proc[x].job /\ proc'[x].op = proc[x].op
        /\ proc'[x].goal = proc[x].goal /\ proc'[x].run = proc[x].run
    BY <1>a, <1>10 DEF TimeOut, ProcType
  <2> QED
    BY <1>b, <2>1 DEF Starting
<1>11. CASE Moves(x)
  BY <1>b, <1>11 DEF Moves, Onward, Starting
<1> QED
  BY <1>1, <1>2, <1>3, <1>4, <1>5, <1>6, <1>7, <1>8, <1>9, <1>10, <1>11, StepsOf DEF StepOf

(* The operation a run records is never replaced by another, if no lease of   *)
(* the bulk lock lapses: under crashes, time-outs, retries, cancels and       *)
(* absorbed jobs, the orchestrator that read "no operation" is still the only *)
(* one that could have recorded one when it comes to record its own.          *)
THEOREM OpKept == "lapse" \notin Trouble /\ Spec => OpNotReplaced
<1> SUFFICES ASSUME "lapse" \notin Trouble PROVE Spec => OpNotReplaced
  OBVIOUS
<1> DEFINE Kept == \A r \in Runs : row[r].op # None => row'[r].op \in {row[r].op, None}
<1>1. Init => SectionLocked /\ StartsFresh
  BY DEF Init, Idle, SectionLocked, StartsFresh, Starting, Outside
<1>2. Typed /\ SectionLocked /\ [Next]_vars => SectionLocked'
  BY SectionLockedStep DEF vars, SectionLocked
<1>3. Typed /\ SectionLocked /\ StartsFresh /\ [Next]_vars => StartsFresh'
  BY StartsFreshStep DEF vars, StartsFresh, Starting
<1>4. Typed /\ SectionLocked /\ StartsFresh /\ [Next]_vars => [Kept]_vars
  <2> SUFFICES ASSUME Typed, SectionLocked, StartsFresh, Next,
                      NEW r \in Runs, row[r].op # None, row'[r].op # row[r].op, row'[r].op # None
               PROVE  FALSE
    OBVIOUS
  <2>1. PICK w \in Workers : MarkStatus(w) /\ proc[w].run = r /\ proc[w].goal = "running"
    BY RowSteps DEF RowStep
  <2>2. Starting(w) /\ proc[w].job[1] = "orch"
    BY <2>1, Recorder
  <2> QED
    BY <2>1, <2>2 DEF StartsFresh
<1> QED
  BY <1>1, <1>2, <1>3, <1>4, TypedInvariant, PTL DEF Spec, OpNotReplaced

-----------------------------------------------------------------------------
(* Who changes what: the status and the operation of a row, a job, a          *)
(* processor and an operation at Shopify.                                     *)

(* The run that insertOrLoadBulkRun returns under a key: the one of the key,  *)
(* which it inserts if need be, or the active one of another key.             *)
Loads(w, r) ==
    LET k == proc[w].job[2]
    IN  /\ k \in Keys /\ proc[w].job = <<"orch", k>>
        /\ \/ r = k /\ row[k].status # "absent" /\ row' = row
           \/ /\ r = k /\ row[k].status = "absent" /\ IndexAllows(k, "pending")
              /\ row' = [row EXCEPT ![k] = [row[k] EXCEPT !.status = "pending"]]
           \/ /\ r # k /\ row[k].status = "absent" /\ ~IndexAllows(k, "pending")
              /\ row' = row
        /\ row'[r].status \in ActiveStatuses \/ r = k
        /\ row'[r].status # "absent"

LEMMA LoadsOne ==
    ASSUME Typed, NEW w \in Workers, LoadRun(w)
    PROVE  \E r \in Runs :
              /\ Loads(w, r)
              /\ proc' = [proc EXCEPT ![w] = [proc[w] EXCEPT !.pc = "patch", !.run = r,
                                                             !.op = row[r].op]]
<1> DEFINE k == proc[w].job[2]
<1>1. k \in Keys /\ k \in Runs /\ proc[w].job = <<"orch", k>>
  <2>1. proc[w].job \in JobIds /\ proc[w].job[1] = "orch"
    BY DEF LoadRun, At, Typed, Knows
  <2> QED
    BY <2>1, JobIdParts DEF JobIds, Runs
<1>2. row \in [Runs -> RowType] /\ row[k] \in RowType
  BY <1>1 DEF Typed, TypeOK
<1>3. CASE row[k].status # "absent"
  <2>1. /\ row' = row
        /\ proc' = [proc EXCEPT ![w] = [proc[w] EXCEPT !.pc = "patch", !.run = k, !.op = row[k].op]]
    BY <1>3 DEF LoadRun
  <2> QED
    BY <1>1, <1>3, <2>1 DEF Loads
<1>4. CASE row[k].status = "absent" /\ IndexAllows(k, "pending")
  <2>1. /\ row' = [row EXCEPT ![k] = [row[k] EXCEPT !.status = "pending"]]
        /\ proc' = [proc EXCEPT ![w] = [proc[w] EXCEPT !.pc = "patch", !.run = k, !.op = row[k].op]]
    BY <1>4 DEF LoadRun
  <2>2. row'[k].status = "pending"
    BY <1>1, <1>2, <2>1 DEF RowType
  <2> QED
    BY <1>1, <1>4, <2>1, <2>2 DEF Loads
<1>5. CASE row[k].status = "absent" /\ ~IndexAllows(k, "pending")
  <2> DEFINE r == CHOOSE x \in ActiveRuns : TRUE
  <2>1. r \in ActiveRuns
    BY <1>5 DEF IndexAllows
  <2>2. r \in Runs /\ row[r].status \in ActiveStatuses /\ row[r].status # "absent"
    BY <2>1 DEF ActiveRuns, ActiveStatuses
  <2>3. /\ row' = row
        /\ proc' = [proc EXCEPT ![w] = [proc[w] EXCEPT !.pc = "patch", !.run = r, !.op = row[r].op]]
    BY <1>5, <2>2 DEF LoadRun
  <2> HIDE DEF r
  <2> QED
    BY <1>1, <1>5, <2>2, <2>3 DEF Loads
<1> QED
  BY <1>3, <1>4, <1>5

RowChange(r) ==
    /\ row'[r].status # row[r].status =>
          \/ r \in Uploads /\ Upload(r) /\ row'[r].status = "running"
          \/ CancelWrite /\ cancel.run = r /\ row'[r].status = "cancelled"
          \/ \E w \in Workers :
               \/ /\ MarkStatus(w) /\ proc[w].run = r
                  /\ row'[r].status = proc[w].goal /\ IndexAllows(r, proc[w].goal)
               \/ /\ LoadRun(w) /\ r \in Keys /\ proc[w].job = <<"orch", r>>
                  /\ row[r].status = "absent" /\ IndexAllows(r, "pending")
                  /\ row'[r].status = "pending"
               \/ RequestRetry(w) /\ proc[w].run = r /\ row'[r].status = "pending"
               \/ ErrorRateAbort(w) /\ proc[w].run = r /\ row'[r].status = "failed"
    /\ row'[r].op # row[r].op =>
          \E w \in Workers :
            \/ RequestRetry(w) /\ proc[w].run = r /\ row'[r].op = None
            \/ /\ MarkStatus(w) /\ proc[w].run = r /\ proc[w].goal = "running"
               /\ row'[r].status = "running" /\ row'[r].op = proc[w].op

LEMMA RowChanges == ASSUME Typed, Next, NEW r \in Runs PROVE RowChange(r)
<1>a. /\ row \in [Runs -> RowType] /\ row[r] \in RowType
      /\ \A w \in Workers : proc[w].pc # "idle" =>
            proc[w].run \in Runs /\ row[proc[w].run] \in RowType
  BY DEF Typed, TypeOK, Knows
<1>1. CASE UNCHANGED row
  BY <1>1 DEF RowChange
<1>2. ASSUME NEW u \in Uploads, Upload(u) PROVE RowChange(r)
  <2>1. row' = [row EXCEPT ![u] = [row[u] EXCEPT !.status = "running"]]
    BY <1>2 DEF Upload
  <2>2. u \in Runs /\ row[u] \in RowType
    BY <1>2, <1>a DEF Runs
  <2> QED
    BY <1>2, <1>a, <2>1, <2>2 DEF RowChange, RowType
<1>3. CASE CancelWrite
  <2>1. row' = [row EXCEPT ![cancel.run] = [row[cancel.run] EXCEPT !.status = "cancelled"]]
    BY <1>3 DEF CancelWrite
  <2> QED
    BY <1>3, <1>a, <2>1 DEF RowChange, RowType
<1>4. ASSUME NEW w \in Workers, MarkStatus(w) PROVE RowChange(r)
  <2> DEFINE q == proc[w].run
             goal == proc[w].goal
             recorded == IF goal = "running" THEN proc[w].op ELSE row[q].op
             new == [row[q] EXCEPT !.status = goal, !.op = recorded]
  <2>1. q \in Runs /\ row[q] \in RowType
    BY <1>4, <1>a DEF MarkStatus
  <2>2. row' = row \/ (row' = [row EXCEPT ![q] = new] /\ IndexAllows(q, goal))
    BY <1>4 DEF MarkStatus
  <2>3. new.status = goal /\ new.op = recorded
    BY <2>1 DEF RowType
  <2> HIDE DEF new
  <2>4. CASE row' = row \/ r # q
    BY <1>a, <2>1, <2>2, <2>4 DEF RowChange
  <2>5. CASE r = q /\ row' = [row EXCEPT ![q] = new] /\ IndexAllows(q, goal)
    BY <1>4, <1>a, <2>1, <2>3, <2>5 DEF RowChange
  <2> QED
    BY <2>2, <2>4, <2>5
<1>5. ASSUME NEW w \in Workers, LoadRun(w) PROVE RowChange(r)
  <2>1. PICK q \in Runs : Loads(w, q)
    BY <1>5, LoadsOne
  <2> DEFINE k == proc[w].job[2]
  <2>2. CASE row' = row
    BY <2>2 DEF RowChange
  <2>3. CASE /\ row[k].status = "absent" /\ IndexAllows(k, "pending")
             /\ row' = [row EXCEPT ![k] = [row[k] EXCEPT !.status = "pending"]]
    <3>1. k \in Keys /\ k \in Runs /\ row[k] \in RowType /\ proc[w].job = <<"orch", k>>
      BY <1>a, <2>1 DEF Loads, Runs
    <3>2. CASE r # k
      BY <1>a, <2>3, <3>1, <3>2 DEF RowChange
    <3>3. CASE r = k
      <4>1. row'[r].status = "pending" /\ row'[r].op = row[r].op
        BY <1>a, <2>3, <3>1, <3>3 DEF RowType
      <4> QED
        BY <1>5, <2>3, <3>1, <3>3, <4>1 DEF RowChange
    <3> QED
      BY <3>2, <3>3
  <2> QED
    BY <2>1, <2>2, <2>3 DEF Loads
<1>6. ASSUME NEW w \in Workers, PatchContract(w) \/ PollTerminal(w) \/ MergeStaging(w)
      PROVE  RowChange(r)
  <2> DEFINE q == proc[w].run
  <2>1. row[q] \in RowType /\ q \in Runs
    BY <1>6, <1>a DEF PatchContract, PollTerminal, MergeStaging, At
  <2>2. CASE PatchContract(w)
    <3>1. PICK m : row' = [row EXCEPT ![q] = [row[q] EXCEPT !.mut = m]]
      BY <2>2 DEF PatchContract
    <3> QED
      BY <1>a, <2>1, <3>1 DEF RowChange, RowType
  <2>3. CASE PollTerminal(w)
    <3>1. PICK m : row' = [row EXCEPT ![q] = [row[q] EXCEPT !.partial = m]]
      BY <2>3 DEF PollTerminal
    <3> QED
      BY <1>a, <2>1, <3>1 DEF RowChange, RowType
  <2>4. CASE MergeStaging(w)
    <3>1. row' = [row EXCEPT ![q] = [row[q] EXCEPT !.merged = TRUE]]
      BY <2>4 DEF MergeStaging
    <3> QED
      BY <1>a, <2>1, <3>1 DEF RowChange, RowType
  <2> QED
    BY <1>6, <2>2, <2>3, <2>4
<1>7. ASSUME NEW w \in Workers, RequestRetry(w) PROVE RowChange(r)
  <2> DEFINE q == proc[w].run
             again == row[q].retry + 1
             new == [row[q] EXCEPT !.status = "pending", !.op = None, !.retry = again]
  <2>1. row[q] \in RowType /\ q \in Runs
    BY <1>7, <1>a DEF RequestRetry, At
  <2>2. row' = row \/ row' = [row EXCEPT ![q] = new]
    BY <1>7 DEF RequestRetry
  <2>3. new.status = "pending" /\ new.op = None
    BY <2>1 DEF RowType
  <2> HIDE DEF new
  <2>4. CASE row' = row \/ r # q
    BY <1>a, <2>1, <2>2, <2>4 DEF RowChange
  <2>5. CASE r = q /\ row' = [row EXCEPT ![q] = new]
    BY <1>7, <1>a, <2>1, <2>3, <2>5 DEF RowChange
  <2> QED
    BY <2>2, <2>4, <2>5
<1>8. ASSUME NEW w \in Workers, ErrorRateAbort(w) PROVE RowChange(r)
  <2>1. row' = [row EXCEPT ![proc[w].run] = [row[proc[w].run] EXCEPT !.status = "failed"]]
    BY <1>8 DEF ErrorRateAbort
  <2> QED
    BY <1>8, <1>a, <2>1 DEF RowChange, RowType
<1> QED
  BY <1>1, <1>2, <1>3, <1>4, <1>5, <1>6, <1>7, <1>8, RowWriters

(* A processor changes by a step of its own only.                             *)
LEMMA OwnSteps ==
    ASSUME Typed, Next, NEW x \in Workers
    PROVE  \/ proc'[x] = proc[x]
           \/ \E j \in JobIds : Take(x, j)
           \/ WorkerStep(x) \/ Throw(x) \/ Crash(x) \/ TimeOut(x)
<1>a. proc \in [Workers -> ProcType]
  BY DEF Typed, TypeOK
<1>1. ASSUME NEW w \in Workers, w # x,
             \/ \E j \in JobIds : Take(w, j)
             \/ Throw(w) \/ Crash(w) \/ TimeOut(w)
      PROVE  proc'[x] = proc[x]
  BY <1>1, <1>a DEF Take, Throw, Crash, TimeOut, Goto
<1>2. ASSUME NEW w \in Workers, w # x, CheckTransition(w) \/ MarkStatus(w) \/ Finish(w)
      PROVE  proc'[x] = proc[x]
  BY <1>2, <1>a DEF CheckTransition, MarkStatus, Finish, Complete, Rethrow, Postpone, Settle, Goto
<1>3. ASSUME NEW w \in Workers, w # x, Orchestrate(w)
      PROVE  proc'[x] = proc[x]
  BY <1>3, <1>a DEF Orchestrate, AcquireLock, LoadRun, PatchContract, StartAccepted,
     StartRateLimited, StartRefused, HandToPoller, Catch, Goto
<1>4. ASSUME NEW w \in Workers, w # x, Poll(w)
      PROVE  proc'[x] = proc[x]
  BY <1>4, <1>a DEF Poll, PollLoad, PollTimedOut, PollNotReady, PollCompleted, PollTerminal,
     Decide, RequestRetry, RequeueOrchestrator, HandOver, Salvaged, Goto, GotoMark
<1>5. ASSUME NEW w \in Workers, w # x, Ingest(w)
      PROVE  proc'[x] = proc[x]
  BY <1>5, <1>a DEF Ingest, Stage, MergeStaging, ReconcileLines, ErrorRateAbort, Goto, GotoMark
<1>6. CASE \/ \E k \in Keys : Start(k)
           \/ \E u \in Uploads : Upload(u)
           \/ \E r \in Runs : CancelRead(r)
           \/ CancelShopify \/ CancelWrite
           \/ \E j \in JobIds : Expire(j)
           \/ \E o \in Ops : ShopifyEnds(o)
           \/ DeadLockExpires \/ LeaseLapses
  BY <1>6 DEF Start, Upload, CancelRead, CancelShopify, CancelWrite, Expire,
     ShopifyEnds, DeadLockExpires, LeaseLapses
<1> QED
  BY <1>1, <1>2, <1>3, <1>4, <1>5, <1>6 DEF Next, WorkerStep

(* What a step may do to the job under an id: somebody adds it, its           *)
(* processor takes it or gives it up, or its retention ends.                  *)
Adds(j) ==
    \/ j[1] = "orch" /\ job'[j].op = None
    \/ j[1] = "ingest" /\ j[2] \in Uploads /\ Upload(j[2]) /\ job'[j].op = None
    \/ \E w \in Workers :
         /\ \/ HandToPoller(w) /\ j = <<"poll", proc[w].run>>
            \/ (HandOver(w) \/ Salvaged(w)) /\ j[1] \in {"ingest", "reconcile"} /\ j[2] = proc[w].run
         /\ job'[j].op = proc[w].op

JobStep(j) ==
    \/ job'[j] = job[j]
    \/ job[j].state = "none" /\ job'[j].state = "waiting" /\ Adds(j)
    \/ /\ job'[j].op = job[j].op
       /\ \/ job[j].state = "waiting" /\ job'[j].state = "active" /\ \E w \in Workers : Take(w, j)
          \/ \E w \in Workers :
               /\ proc[w].pc # "idle" /\ proc[w].job = j
               /\ \/ Complete(w) /\ job'[j].state = "done"
                  \/ Rethrow(w) /\ job'[j].state \in {"none", "waiting"}
                  \/ (Postpone(w) \/ Crash(w)) /\ job'[j].state = "waiting"
                  \/ TimeOut(w) /\ job'[j].state \in {"none", "waiting"}
          \/ Expire(j) /\ job[j].state = "done" /\ job'[j].state = "none"

LEMMA AttemptFailedGives ==
    ASSUME Typed, NEW j \in JobIds, NEW i \in JobIds
    PROVE  IF i = j THEN /\ AttemptFailed(j)[i].state \in {"none", "waiting"}
                         /\ AttemptFailed(j)[i].op = job[i].op
           ELSE AttemptFailed(j)[i] = job[i]
<1>1. job \in [JobIds -> JobType] /\ job[j] \in JobType
  BY DEF Typed, TypeOK
<1> QED
  BY <1>1 DEF AttemptFailed, JobType

LEMMA AddedGives ==
    ASSUME Typed, NEW i \in JobIds, NEW o, NEW j \in JobIds
    PROVE  IF i = j /\ job[j].state = "none"
           THEN Added(i, o)[j].state = "waiting" /\ Added(i, o)[j].op = o
           ELSE Added(i, o)[j] = job[j]
<1>1. job \in [JobIds -> JobType]
  BY DEF Typed, TypeOK
<1> QED
  BY <1>1 DEF Added

LEMMA JobSteps == ASSUME Typed, Next, NEW j \in JobIds PROVE JobStep(j)
<1>a. /\ job \in [JobIds -> JobType] /\ job[j] \in JobType
      /\ \A w \in Workers : proc[w].pc # "idle" => proc[w].run \in Runs /\ proc[w].job \in JobIds
  BY DEF Typed, TypeOK, Knows
<1>b. /\ \A r \in Runs : /\ <<"poll", r>> \in JobIds
                         /\ <<"orch", IF r \in Keys THEN r ELSE DerivedKey>> \in JobIds
                         /\ <<"reconcile", r>> \in JobIds
                         /\ <<"ingest", r>> \in JobIds
      /\ \A k \in Keys : <<"orch", k>> \in JobIds
      /\ \A u \in Uploads : u \in Runs
  BY NamesAssumption DEF JobIds, Runs
<1>c. ASSUME NEW i \in JobIds, NEW o, job' = Added(i, o),
             i = j /\ job'[j].op = o => Adds(j)
      PROVE  JobStep(j)
  BY <1>c, AddedGives DEF JobStep
<1>d. CASE job' = job
  BY <1>d DEF JobStep
<1>1. ASSUME NEW k \in Keys, Start(k) PROVE JobStep(j)
  BY <1>1, <1>b, <1>c DEF Start, Adds
<1>2. ASSUME NEW u \in Uploads, Upload(u) PROVE JobStep(j)
  <2>1. job' = job \/ job' = Added(<<"ingest", u>>, None)
    BY <1>2 DEF Upload
  <2>2. CASE job' = Added(<<"ingest", u>>, None)
    <3>1. <<"ingest", u>>[1] = "ingest" /\ <<"ingest", u>>[2] = u /\ <<"ingest", u>> \in JobIds
      BY <1>b
    <3>2. CASE j = <<"ingest", u>> /\ job[j].state = "none"
      BY <1>2, <2>2, <3>1, <3>2, AddedGives DEF JobStep, Adds
    <3>3. CASE ~(j = <<"ingest", u>> /\ job[j].state = "none")
      BY <2>2, <3>1, <3>3, AddedGives DEF JobStep
    <3> QED
      BY <3>2, <3>3
  <2> QED
    BY <2>1, <2>2 DEF JobStep
<1>3. ASSUME NEW w \in Workers, NEW i \in JobIds, Take(w, i) PROVE JobStep(j)
  BY <1>3, <1>a DEF Take, JobStep, JobType
<1>4. ASSUME NEW w \in Workers,
             HandToPoller(w) \/ RequeueOrchestrator(w) \/ HandOver(w) \/ Salvaged(w)
      PROVE  JobStep(j)
  <2> DEFINE r == proc[w].run
             k == IF r \in Keys THEN r ELSE DerivedKey
             t == IF proc[w].mut THEN "reconcile" ELSE "ingest"
  <2>1. r \in Runs
    BY <1>4, <1>a DEF HandToPoller, RequeueOrchestrator, HandOver, Salvaged, At
  <2>2. CASE HandToPoller(w)
    <3>1. job' = Added(<<"poll", r>>, proc[w].op) /\ <<"poll", r>> \in JobIds
      BY <1>b, <2>1, <2>2 DEF HandToPoller
    <3>2. <<"poll", r>> = j /\ job'[j].op = proc[w].op => Adds(j)
      BY <2>2 DEF Adds
    <3> QED
      BY <1>c, <3>1, <3>2
  <2>3. CASE RequeueOrchestrator(w)
    <3>1. job' = job \/ job' = Added(<<"orch", k>>, None)
      BY <2>3 DEF RequeueOrchestrator
    <3>2. <<"orch", k>> \in JobIds /\ <<"orch", k>>[1] = "orch"
      BY <1>b, <2>1
    <3> HIDE DEF k
    <3>3. <<"orch", k>> = j /\ job'[j].op = None => Adds(j)
      BY <3>2 DEF Adds
    <3> QED
      BY <1>c, <1>d, <3>1, <3>2, <3>3
  <2>4. CASE HandOver(w)
    <3>1. job' = Added(<<t, r>>, proc[w].op)
      BY <2>4 DEF HandOver
    <3>2. <<t, r>> \in JobIds /\ <<t, r>>[1] \in {"ingest", "reconcile"} /\ <<t, r>>[2] = r
      BY <1>b, <2>1
    <3> HIDE DEF t
    <3>3. <<t, r>> = j /\ job'[j].op = proc[w].op => Adds(j)
      BY <2>4, <3>2 DEF Adds
    <3> QED
      BY <1>c, <3>1, <3>2, <3>3
  <2>5. CASE Salvaged(w)
    <3>1. job' = job \/ job' = Added(<<"reconcile", r>>, proc[w].op)
      BY <2>5 DEF Salvaged
    <3>2. /\ <<"reconcile", r>> \in JobIds /\ <<"reconcile", r>>[1] = "reconcile"
          /\ <<"reconcile", r>>[2] = r
      BY <1>b, <2>1
    <3>3. <<"reconcile", r>> = j /\ job'[j].op = proc[w].op => Adds(j)
      BY <2>5, <3>2 DEF Adds
    <3> QED
      BY <1>c, <1>d, <3>1, <3>2, <3>3
  <2> QED
    BY <1>4, <2>2, <2>3, <2>4, <2>5
<1>5. ASSUME NEW w \in Workers, Finish(w) \/ Crash(w) \/ TimeOut(w) PROVE JobStep(j)
  <2> DEFINE i == proc[w].job
  <2>1. i \in JobIds /\ proc[w].pc # "idle"
    BY <1>5, <1>a DEF Finish, Complete, Rethrow, Postpone, Crash, TimeOut
  <2>2. CASE job' = job
    BY <2>2 DEF JobStep
  <2>3. CASE Complete(w) /\ job' = [job EXCEPT ![i].state = "done"]
    BY <1>a, <2>1, <2>3 DEF JobStep, JobType
  <2>4. CASE (Postpone(w) \/ Crash(w)) /\ job' = [job EXCEPT ![i].state = "waiting"]
    BY <1>a, <2>1, <2>4 DEF JobStep, JobType
  <2>5. CASE (Rethrow(w) \/ TimeOut(w)) /\ job' = AttemptFailed(i)
    BY <2>1, <2>5, AttemptFailedGives DEF JobStep
  <2> QED
    BY <1>5, <2>2, <2>3, <2>4, <2>5
    DEF Finish, Complete, Rethrow, Postpone, Settle, Crash, TimeOut
<1>6. ASSUME NEW i \in JobIds, Expire(i) PROVE JobStep(j)
  <2>1. /\ job' = [job EXCEPT ![i] = [job[i] EXCEPT !.state = "none", !.tries = 0]]
        /\ job[i].state = "done" /\ job[i] \in JobType
    BY <1>6, <1>a DEF Expire
  <2>2. CASE i # j
    BY <1>a, <2>1, <2>2 DEF JobStep
  <2>3. CASE i = j
    <3>1. job'[j].state = "none" /\ job'[j].op = job[j].op
      BY <1>a, <2>1, <2>3 DEF JobType
    <3> QED
      BY <1>6, <2>1, <2>3, <3>1 DEF JobStep
  <2> QED
    BY <2>2, <2>3
<1>7. ASSUME NEW w \in Workers, WorkerStep(w)
      PROVE  \/ job' = job \/ Finish(w)
             \/ HandToPoller(w) \/ RequeueOrchestrator(w) \/ HandOver(w) \/ Salvaged(w)
  BY <1>7 DEF WorkerStep, CheckTransition, MarkStatus, Orchestrate, AcquireLock, LoadRun,
     PatchContract, StartAccepted, StartRateLimited, StartRefused, Catch, Poll, PollLoad,
     PollTimedOut, PollNotReady, PollCompleted, PollTerminal, Decide, RequestRetry,
     Ingest, Stage, MergeStaging, ReconcileLines, ErrorRateAbort
<1>8. ASSUME \/ \E w \in Workers : Throw(w)
             \/ \E r \in Runs : CancelRead(r)
             \/ CancelShopify \/ CancelWrite \/ DeadLockExpires \/ LeaseLapses
             \/ \E o \in Ops : ShopifyEnds(o)
      PROVE  job' = job
  BY <1>8 DEF Throw, CancelRead, CancelShopify, CancelWrite, DeadLockExpires, LeaseLapses,
     ShopifyEnds
<1> QED
  BY <1>1, <1>2, <1>3, <1>4, <1>5, <1>6, <1>d, <1>7, <1>8 DEF Next

(* An operation is started by an orchestrator; it ends once.                  *)
ShopifyStep(o) ==
    \/ shopify'[o] = shopify[o]
    \/ shopify[o] = "unused" /\ shopify'[o] = "running" /\ \E w \in Workers : StartAccepted(w)
    \/ /\ shopify[o] = "running" /\ shopify'[o] \notin {"unused", "running"}
       /\ shopify'[o] \in {"transient", "partial"} => "opfail" \in Trouble

LEMMA ShopifySteps == ASSUME Typed, Next, NEW o \in Ops PROVE ShopifyStep(o)
<1>a. shopify \in [Ops -> {"unused", "running", "completed", "nourl", "transient",
                           "partial", "permanent", "canceled"}]
  BY DEF Typed, TypeOK
<1>1. CASE UNCHANGED shopify
  BY <1>1 DEF ShopifyStep
<1>2. CASE CancelShopify
  BY <1>2, <1>a DEF CancelShopify, ShopifyStep
<1>3. ASSUME NEW w \in Workers, StartAccepted(w) PROVE ShopifyStep(o)
  BY <1>3, <1>a DEF StartAccepted, ShopifyStep
<1>4. ASSUME NEW p \in Ops, ShopifyEnds(p) PROVE ShopifyStep(o)
  <2>1. PICK answer \in {"completed", "permanent", "nourl", "transient", "partial"} :
          /\ shopify' = [shopify EXCEPT ![p] = answer]
          /\ answer \in {"transient", "partial"} => "opfail" \in Trouble
    BY <1>4 DEF ShopifyEnds
  <2> QED
    BY <1>4, <1>a, <2>1 DEF ShopifyEnds, ShopifyStep
<1>5. ASSUME NEW w \in Workers, WorkerStep(w) PROVE UNCHANGED shopify \/ StartAccepted(w)
  BY <1>5 DEF WorkerStep, CheckTransition, MarkStatus, Orchestrate, AcquireLock, LoadRun,
     PatchContract, StartRateLimited, StartRefused, HandToPoller, Catch, Poll,
     PollLoad, PollTimedOut, PollNotReady, PollCompleted, PollTerminal, Decide, RequestRetry,
     RequeueOrchestrator, HandOver, Salvaged, Ingest, Stage, MergeStaging, ReconcileLines,
     ErrorRateAbort, Finish, Complete, Rethrow, Postpone, Settle
<1>6. ASSUME \/ \E w \in Workers : (\E j \in JobIds : Take(w, j)) \/ Throw(w) \/ Crash(w) \/ TimeOut(w)
             \/ (\E k \in Keys : Start(k)) \/ (\E u \in Uploads : Upload(u))
             \/ (\E r \in Runs : CancelRead(r)) \/ CancelWrite
             \/ (\E j \in JobIds : Expire(j)) \/ DeadLockExpires \/ LeaseLapses
      PROVE  UNCHANGED shopify
  BY <1>6 DEF Take, Throw, Crash, TimeOut, Start, Upload, CancelRead, CancelWrite, Expire,
     DeadLockExpires, LeaseLapses
<1> QED
  BY <1>1, <1>2, <1>3, <1>4, <1>5, <1>6 DEF Next

(* Processor x goes from one step to the next with what it has.               *)
Goes(x, from, to) ==
    /\ proc[x].pc = from /\ proc'[x].pc = to
    /\ proc'[x].job = proc[x].job /\ proc'[x].run = proc[x].run
    /\ proc'[x].op = proc[x].op /\ proc'[x].goal = proc[x].goal

LEMMA GotoGoes ==
    ASSUME Typed, NEW x \in Workers, NEW c, Goto(x, c)
    PROVE  Goes(x, proc[x].pc, c)
BY DEF Typed, TypeOK, ProcType, Goto, Goes

(* Processor x sets about a status.                                           *)
Aims(x, from, goal) ==
    /\ proc[x].pc = from /\ proc'[x].pc = "check" /\ proc'[x].goal = goal
    /\ proc'[x].job = proc[x].job /\ proc'[x].run = proc[x].run
    /\ proc'[x].op = proc[x].op

LEMMA GotoMarkAims ==
    ASSUME Typed, NEW x \in Workers, NEW s, GotoMark(x, s)
    PROVE  Aims(x, proc[x].pc, s)
BY DEF Typed, TypeOK, ProcType, GotoMark, Aims

(* The check and the UPDATE of a status change, as the processor sees them.   *)
Checks(x) ==
    LET p == proc[x]
    IN  \/ Goes(x, "check", "mark") /\ p.goal \in Allowed(row[p.run].status)
        \/ /\ Goes(x, "check", AfterRefusal(p.job[1], p.goal))
           /\ p.goal \notin Allowed(row[p.run].status)

Marks(x) ==
    LET p == proc[x]
    IN  \/ /\ Goes(x, "mark", AfterMark(p.job[1], p.goal))
           /\ IndexAllows(p.run, p.goal) /\ row'[p.run].status = p.goal
           /\ row'[p.run].op = IF p.goal = "running" THEN p.op ELSE row[p.run].op
        \/ /\ Goes(x, "mark", AfterThrow(p.job[1], "mark", p.goal))
           /\ ~IndexAllows(p.run, p.goal) /\ row' = row

LEMMA StatusSteps ==
    ASSUME Typed, NEW x \in Workers
    PROVE  /\ CheckTransition(x) => Checks(x)
           /\ MarkStatus(x) => Marks(x)
<1> DEFINE p == proc[x]
           recorded == IF p.goal = "running" THEN p.op ELSE row[p.run].op
           new == [row[p.run] EXCEPT !.status = p.goal, !.op = recorded]
<1>1. ASSUME CheckTransition(x) PROVE Checks(x)
  BY <1>1, GotoGoes DEF CheckTransition, Checks
<1>2. ASSUME MarkStatus(x) PROVE Marks(x)
  <2>1. p.pc = "mark" /\ p.run \in Runs
    BY <1>2 DEF MarkStatus, Typed, Knows
  <2>2. row \in [Runs -> RowType] /\ row[p.run] \in RowType
    BY <2>1 DEF Typed, TypeOK
  <2>3. new.status = p.goal /\ new.op = recorded
    BY <2>2 DEF RowType
  <2>4. CASE IndexAllows(p.run, p.goal)
    <3>1. row' = [row EXCEPT ![p.run] = new] /\ Goto(x, AfterMark(p.job[1], p.goal))
      BY <1>2, <2>4 DEF MarkStatus
    <3> HIDE DEF new
    <3>2. row'[p.run] = new
      BY <2>1, <2>2, <3>1
    <3> QED
      BY <2>1, <2>3, <2>4, <3>1, <3>2, GotoGoes DEF Marks
  <2>5. CASE ~IndexAllows(p.run, p.goal)
    BY <1>2, <2>1, <2>5, GotoGoes DEF MarkStatus, Marks
  <2> QED
    BY <2>4, <2>5
<1> QED
  BY <1>1, <1>2

(* A poller, an ingest and a reconcile keep their job, their run and their    *)
(* operation.                                                                 *)
LEMMA PollAndIngestKeep ==
    ASSUME Typed, NEW x \in Workers, Poll(x) \/ Ingest(x)
    PROVE  /\ proc[x].pc # "idle" /\ proc[x].job[1] # "orch"
           /\ proc'[x].job = proc[x].job /\ proc'[x].run = proc[x].run
           /\ proc'[x].op = proc[x].op
<1>a. proc \in [Workers -> ProcType] /\ proc[x] \in ProcType
  BY DEF Typed, TypeOK
<1>1. proc[x].pc # "idle" /\ proc[x].job[1] # "orch"
  BY DEF Poll, PollLoad, PollTimedOut, PollNotReady, PollCompleted, PollTerminal,
     Decide, RequestRetry, RequeueOrchestrator, HandOver, Salvaged,
     Ingest, Stage, MergeStaging, ReconcileLines, ErrorRateAbort, At
<1>2. \/ \E c : Goto(x, c)
      \/ \E s : GotoMark(x, s)
      \/ \E m : proc' = [proc EXCEPT ![x] = [proc[x] EXCEPT !.mut = m, !.pc = "check",
                                                          !.goal = "polling"]]
      \/ proc' = [proc EXCEPT ![x] = [proc[x] EXCEPT !.pc = "check", !.goal = "completed"]]
      \/ proc' = proc
  <2>1. CASE PollLoad(x)
    BY <2>1 DEF PollLoad
  <2>2. CASE PollTimedOut(x) \/ PollNotReady(x) \/ PollCompleted(x) \/ PollTerminal(x)
             \/ Decide(x)
    BY <2>2 DEF PollTimedOut, PollNotReady, PollCompleted, PollTerminal, Decide
  <2>3. CASE RequestRetry(x) \/ RequeueOrchestrator(x) \/ HandOver(x) \/ Salvaged(x)
    BY <2>3 DEF RequestRetry, RequeueOrchestrator, HandOver, Salvaged
  <2>4. CASE Ingest(x)
    BY <2>4 DEF Ingest, Stage, MergeStaging, ReconcileLines, ErrorRateAbort
  <2> QED
    BY <2>1, <2>2, <2>3, <2>4 DEF Poll
<1> DEFINE Kept == /\ proc'[x].job = proc[x].job /\ proc'[x].run = proc[x].run
                   /\ proc'[x].op = proc[x].op
<1>3. ASSUME NEW c, Goto(x, c) PROVE Kept
  BY <1>3, GotoGoes DEF Goes
<1>4. ASSUME NEW s, GotoMark(x, s) PROVE Kept
  BY <1>4, GotoMarkAims DEF Aims
<1>5. ASSUME NEW m, proc' = [proc EXCEPT ![x] = [proc[x] EXCEPT !.mut = m, !.pc = "check",
                                                                !.goal = "polling"]]
      PROVE  Kept
  BY <1>a, <1>5 DEF ProcType
<1>6. ASSUME proc' = [proc EXCEPT ![x] = [proc[x] EXCEPT !.pc = "check", !.goal = "completed"]]
      PROVE  Kept
  BY <1>a, <1>6 DEF ProcType
<1>7. ASSUME proc' = proc PROVE Kept
  BY <1>7
<1> HIDE DEF Kept
<1>8. Kept
  BY ONLY <1>2, <1>3, <1>4, <1>5, <1>6, <1>7
<1> QED
  BY <1>1, <1>8 DEF Kept

(* An orchestrator keeps its job.                                             *)
LEMMA OrchestratorKeeps ==
    ASSUME Typed, NEW x \in Workers, Orchestrate(x)
    PROVE  proc[x].job[1] = "orch" /\ proc'[x].job = proc[x].job
<1>a. proc \in [Workers -> ProcType] /\ proc[x] \in ProcType
  BY DEF Typed, TypeOK
<1>1. proc[x].job[1] = "orch"
  BY DEF Orchestrate, AcquireLock, LoadRun, PatchContract, StartAccepted,
     StartRateLimited, StartRefused, HandToPoller, Catch, At
<1>2. CASE LoadRun(x)
  <2>1. PICK r, o : proc' = [proc EXCEPT ![x] =
                    [proc[x] EXCEPT !.pc = "patch", !.run = r, !.op = o]]
    BY <1>2 DEF LoadRun
  <2>2. proc'[x].job = proc[x].job
    BY <1>a, <2>1 DEF ProcType
  <2> QED
    BY <1>1, <2>2
<1>3. CASE StartAccepted(x) \/ Catch(x)
  BY <1>a, <1>1, <1>3 DEF StartAccepted, Catch, ProcType
<1>4. CASE AcquireLock(x) \/ PatchContract(x) \/ StartRateLimited(x)
           \/ StartRefused(x) \/ HandToPoller(x)
  BY <1>1, <1>4, GotoGoes DEF AcquireLock, PatchContract, StartRateLimited, StartRefused,
     HandToPoller, Goes
<1> QED
  BY <1>2, <1>3, <1>4 DEF Orchestrate

(* The steps of a processor of an orchestrator job.                           *)
OrchStep(x) ==
    \/ proc'[x] = proc[x]
    \/ \E j \in JobIds : /\ Take(x, j) /\ proc'[x].pc = "lock" /\ proc'[x].job = j
                         /\ proc'[x].run = j[2]
    \/ Goes(x, "lock", "row") \/ Goes(x, "lock", "later")
    \/ LoadRun(x)
    \/ Goes(x, "patch", IF proc[x].op # None THEN "hand" ELSE "start")
    \/ StartAccepted(x) /\ proc[x].pc = "start" /\ \E o \in Ops :
         /\ shopify[o] = "unused" /\ shopify'[o] = "running"
         /\ proc'[x].pc = "check" /\ proc'[x].goal = "running" /\ proc'[x].op = o
         /\ proc'[x].job = proc[x].job /\ proc'[x].run = proc[x].run
    \/ Goes(x, "start", "later")
    \/ Goes(x, "start", "complete") /\ "refuse" \in Trouble
    \/ Goes(x, "hand", "complete") /\ HandToPoller(x)
    \/ Goes(x, "catch", "threw")
    \/ /\ proc[x].pc = "catch" /\ proc'[x].pc = "check" /\ proc'[x].goal = "failed"
       /\ proc'[x].job = proc[x].job /\ proc'[x].run = proc[x].job[2]
       /\ row[proc[x].job[2]].status # "absent" /\ row' = row
    \/ Checks(x)
    \/ MarkStatus(x) /\ Marks(x)
    \/ /\ "throw" \in Trouble /\ proc[x].pc # "idle"
       /\ \E c \in {"catch", "threw"} : Goes(x, proc[x].pc, c)
    \/ "timeout" \in Trouble /\ proc[x].pc # "idle" /\ Goes(x, proc[x].pc, proc[x].pc)

LEMMA OrchSteps ==
    ASSUME Typed, Next, NEW x \in Workers, proc'[x].pc # "idle", proc'[x].job[1] = "orch"
    PROVE  OrchStep(x) /\ (proc[x].pc # "idle" => proc[x].job[1] = "orch")
<1>a. /\ proc \in [Workers -> ProcType] /\ proc[x] \in ProcType /\ Knows(proc[x])
      /\ shopify \in [Ops -> {"unused", "running", "completed", "nourl", "transient",
                              "partial", "permanent", "canceled"}]
  BY DEF Typed, TypeOK
<1>1. CASE proc'[x] = proc[x]
  BY <1>1 DEF OrchStep
<1>2. ASSUME NEW j \in JobIds, Take(x, j)
      PROVE  OrchStep(x) /\ (proc[x].pc # "idle" => proc[x].job[1] = "orch")
  <2>1. proc'[x].job = j /\ proc'[x].pc = FirstStep(j[1]) /\ proc'[x].run = j[2]
    BY <1>2, <1>a DEF Take
  <2>2. FirstStep(j[1]) = "lock"
    BY <2>1 DEF FirstStep
  <2> QED
    BY <1>2, <2>1, <2>2 DEF OrchStep, Take
<1>3. CASE CheckTransition(x) \/ MarkStatus(x)
  BY <1>3, StatusSteps DEF OrchStep, Checks, Marks, Goes
<1>4. CASE Orchestrate(x)
  <2>0. proc[x].job[1] = "orch"
    BY <1>4, OrchestratorKeeps
  <2>1. CASE AcquireLock(x) \/ PatchContract(x)
    BY <2>0, <2>1, GotoGoes DEF AcquireLock, PatchContract, At, OrchStep
  <2>2. CASE LoadRun(x)
    BY <2>0, <2>2 DEF OrchStep
  <2>3. CASE StartAccepted(x)
    <3>1. PICK o \in Ops :
            /\ shopify[o] = "unused" /\ shopify' = [shopify EXCEPT ![o] = "running"]
            /\ proc' = [proc EXCEPT ![x] =
                          [proc[x] EXCEPT !.pc = "check", !.goal = "running", !.op = o]]
      BY <2>3 DEF StartAccepted
    <3>2. /\ shopify'[o] = "running" /\ proc[x].pc = "start"
          /\ proc'[x].pc = "check" /\ proc'[x].goal = "running" /\ proc'[x].op = o
          /\ proc'[x].job = proc[x].job /\ proc'[x].run = proc[x].run
      BY <1>a, <2>3, <3>1 DEF StartAccepted, At, ProcType
    <3> QED
      BY <2>0, <2>3, <3>1, <3>2 DEF OrchStep
  <2>4. CASE StartRateLimited(x) \/ StartRefused(x) \/ HandToPoller(x)
    BY <2>0, <2>4, GotoGoes DEF StartRateLimited, StartRefused, HandToPoller, At, OrchStep
  <2>5. CASE Catch(x)
    <3> DEFINE k == proc[x].job[2]
    <3>1. CASE row[k].status = "absent"
      <4>1. Goto(x, "threw") /\ proc[x].pc = "catch"
        BY <2>5, <3>1 DEF Catch, Goto, At
      <4> QED
        BY <2>0, <4>1, GotoGoes DEF OrchStep
    <3>2. CASE row[k].status # "absent"
      <4>1. /\ proc' = [proc EXCEPT ![x] = [proc[x] EXCEPT !.pc = "check", !.goal = "failed", !.run = k]]
            /\ proc[x].pc = "catch" /\ row' = row
        BY <2>5, <3>2 DEF Catch, At
      <4>2. /\ proc'[x].pc = "check" /\ proc'[x].goal = "failed"
            /\ proc'[x].job = proc[x].job /\ proc'[x].run = k
        BY <1>a, <4>1 DEF ProcType
      <4> QED
        BY <2>0, <3>2, <4>1, <4>2 DEF OrchStep
    <3> QED
      BY <3>1, <3>2
  <2> QED
    BY <1>4, <2>1, <2>2, <2>3, <2>4, <2>5 DEF Orchestrate
<1>5. ASSUME Poll(x) \/ Ingest(x) PROVE FALSE
  BY <1>5, PollAndIngestKeep
<1>6. ASSUME Finish(x) \/ Crash(x) PROVE FALSE
  BY <1>6, <1>a DEF Finish, Complete, Rethrow, Postpone, Settle, Crash, Idle
<1>7. CASE Throw(x)
  <2>1. /\ Goto(x, AfterThrow(proc[x].job[1], proc[x].pc, proc[x].goal))
        /\ "throw" \in Trouble /\ proc[x].pc # "idle"
    BY <1>7 DEF Throw, Fault
  <2>2. proc[x].job[1] = "orch"
    BY <2>1, GotoGoes DEF Goes
  <2>3. AfterThrow(proc[x].job[1], proc[x].pc, proc[x].goal) \in {"catch", "threw"}
    BY <2>2 DEF AfterThrow
  <2> QED
    BY <2>1, <2>2, <2>3, GotoGoes DEF OrchStep
<1>8. CASE TimeOut(x)
  <2>1. Goes(x, proc[x].pc, proc[x].pc) /\ "timeout" \in Trouble /\ proc[x].pc # "idle"
    BY <1>8, <1>a DEF TimeOut, Fault, Goes, ProcType
  <2> QED
    BY <2>1 DEF OrchStep, Goes
<1> QED
  BY <1>1, <1>2, <1>3, <1>4, <1>5, <1>6, <1>7, <1>8, OwnSteps DEF WorkerStep

-----------------------------------------------------------------------------
(* Nobody works on a run without a row, and the row of a run stays.           *)

(* A processor that works on the run it names.                                *)
OnARow(w) ==
    /\ proc[w].pc # "idle"
    /\ proc[w].job[1] = "orch" => proc[w].pc \notin Outside \cup {"row", "catch"}

RowsExist ==
    /\ \A r \in Runs : row[r].status = "absent" => row[r].op = None
    /\ \A j \in JobIds : j[1] # "orch" /\ job[j].state # "none" => row[j[2]].status # "absent"
    /\ \A w \in Workers : OnARow(w) => row[proc[w].run].status # "absent"
    /\ cancel.pc # "idle" => cancel.run \in Runs /\ row[cancel.run].status # "absent"

LEMMA RowStays ==
    ASSUME Typed, Next, NEW r \in Runs, row[r].status # "absent"
    PROVE  row'[r].status # "absent"
<1>1. RowChange(r)
  BY RowChanges
<1>2. ASSUME NEW w \in Workers, MarkStatus(w) PROVE proc[w].goal # "absent"
  BY <1>2, JobIdParts DEF MarkStatus, Typed, Knows
<1> QED
  BY <1>1, <1>2 DEF RowChange

(* Only the request that uploads it, or the orchestrator of its own key,      *)
(* makes a run appear.                                                        *)
LEMMA RunAppears ==
    ASSUME Typed, RowsExist, Next, NEW r \in Runs,
           row[r].status = "absent", row'[r].status # "absent"
    PROVE  \/ r \in Uploads /\ Upload(r) /\ row'[r].status = "running"
           \/ \E w \in Workers :
                /\ LoadRun(w) /\ r \in Keys /\ proc[w].job = <<"orch", r>>
                /\ IndexAllows(r, "pending") /\ row'[r].status = "pending"
<1>1. RowChange(r)
  BY RowChanges
<1>2. ASSUME NEW w \in Workers, proc[w].run = r PROVE ~OnARow(w)
  BY <1>2 DEF RowsExist
<1>3. ASSUME NEW w \in Workers, MarkStatus(w) \/ RequestRetry(w) \/ ErrorRateAbort(w)
      PROVE  OnARow(w)
  BY <1>3 DEF MarkStatus, RequestRetry, ErrorRateAbort, At, OnARow, Outside
<1>4. ~(CancelWrite /\ cancel.run = r)
  BY DEF CancelWrite, RowsExist
<1> QED
  BY <1>1, <1>2, <1>3, <1>4 DEF RowChange

LEMMA RowsExistStep == ASSUME Typed, RowsExist, Next PROVE RowsExist'
<1>a. /\ row \in [Runs -> RowType] /\ job \in [JobIds -> JobType]
      /\ proc \in [Workers -> ProcType]
      /\ \A w \in Workers : proc[w] \in ProcType /\ Knows(proc[w])
  BY DEF Typed, TypeOK
<1>1. ASSUME NEW r \in Runs, row'[r].status = "absent" PROVE row'[r].op = None
  <2>1. row[r].status = "absent" /\ row[r].op = None
    BY <1>1, RowStays DEF RowsExist
  <2>2. ASSUME NEW w \in Workers, RequestRetry(w) PROVE proc[w].run # r
    <3>1. OnARow(w)
      BY <2>2 DEF RequestRetry, At, OnARow
    <3> QED
      BY <2>1, <3>1 DEF RowsExist
  <2> QED
    BY <1>1, <2>1, <2>2, RowChanges DEF RowChange
<1>2. ASSUME NEW j \in JobIds, j[1] # "orch", job'[j].state # "none"
      PROVE  row'[j[2]].status # "absent"
  <2>1. j[2] \in Runs
    BY JobIdParts
  <2>2. CASE job[j].state # "none"
    BY <1>2, <2>1, <2>2, RowStays DEF RowsExist
  <2>3. CASE job[j].state = "none"
    <3>1. Adds(j) \/ \E w \in Workers : proc[w].pc # "idle" /\ proc[w].job = j
      BY <1>2, <2>3, JobSteps DEF JobStep
    <3>2. CASE j[2] \in Uploads /\ Upload(j[2])
      <4>1. row' = [row EXCEPT ![j[2]] = [row[j[2]] EXCEPT !.status = "running"]]
        BY <3>2 DEF Upload
      <4> QED
        BY <1>a, <2>1, <4>1 DEF RowType
    <3>3. ASSUME NEW w \in Workers, HandToPoller(w) \/ HandOver(w) \/ Salvaged(w),
                 j[2] = proc[w].run
          PROVE  row'[j[2]].status # "absent"
      <4>1. OnARow(w)
        BY <3>3 DEF HandToPoller, HandOver, Salvaged, At, OnARow, Outside
      <4> QED
        BY <2>1, <3>3, <4>1, RowStays DEF RowsExist
    <3>4. ASSUME NEW w \in Workers, proc[w].pc # "idle", proc[w].job = j
          PROVE  row'[j[2]].status # "absent"
      <4>1. OnARow(w) /\ proc[w].run = j[2]
        BY <1>a, <1>2, <3>4 DEF OnARow, Knows
      <4> QED
        BY <2>1, <4>1, RowStays DEF RowsExist
    <3> QED
      BY <1>2, <3>1, <3>2, <3>3, <3>4 DEF Adds
  <2> QED
    BY <2>2, <2>3
<1>3. ASSUME NEW x \in Workers, OnARow(x)' PROVE row'[proc'[x].run].status # "absent"
  <2>0. proc'[x].pc # "idle"
    BY <1>3 DEF OnARow
  <2>b. ASSUME OnARow(x), proc'[x].run = proc[x].run PROVE row'[proc'[x].run].status # "absent"
    <3>1. proc[x].run \in Runs /\ row[proc[x].run].status # "absent"
      BY <1>a, <2>b DEF RowsExist, OnARow, Knows
    <3> QED
      BY <2>b, <3>1, RowStays
  <2>1. CASE proc'[x].job[1] = "orch"
    <3>1. OrchStep(x)
      BY <2>0, <2>1, OrchSteps
    <3>2. proc[x].pc # "idle" => proc[x].job[1] = "orch"
      BY <2>0, <2>1, OrchSteps
    <3>3. proc'[x].pc \notin Outside \cup {"row", "catch"}
      BY <1>3, <2>1 DEF OnARow
    <3>4. CASE LoadRun(x)
      <4>1. PICK r \in Runs :
              /\ Loads(x, r)
              /\ proc' = [proc EXCEPT ![x] = [proc[x] EXCEPT !.pc = "patch", !.run = r,
                                                             !.op = row[r].op]]
        BY <3>4, LoadsOne
      <4>2. proc'[x].run = r
        BY <1>a, <4>1 DEF ProcType
      <4> QED
        BY <4>1, <4>2 DEF Loads
    <3>5. CASE /\ proc'[x].run = proc[x].job[2]
               /\ row[proc[x].job[2]].status # "absent" /\ row' = row
      BY <3>5
    <3>6. CASE proc[x].pc \notin Outside \cup {"row", "catch"} /\ proc'[x].run = proc[x].run
      <4>1. OnARow(x)
        BY <3>2, <3>6 DEF OnARow, Outside
      <4> QED
        BY <2>b, <3>6, <4>1
    <3>7. proc[x].pc \in Outside \cup {"row", "catch"} =>
            \/ proc'[x] = proc[x] \/ LoadRun(x) \/ Goes(x, proc[x].pc, proc[x].pc)
            \/ /\ proc'[x].run = proc[x].job[2]
               /\ row[proc[x].job[2]].status # "absent" /\ row' = row
      BY <3>1, <3>3 DEF OrchStep, Outside, Goes, Checks, Marks
    <3>8. LoadRun(x) \/ proc'[x].run = proc[x].run
          \/ /\ proc'[x].run = proc[x].job[2]
             /\ row[proc[x].job[2]].status # "absent" /\ row' = row
          \/ proc'[x].pc = "lock"
      BY <3>1 DEF OrchStep, Goes, Checks, Marks
    <3> QED
      BY <3>3, <3>4, <3>5, <3>6, <3>7, <3>8 DEF Goes, Outside
  <2>2. CASE proc'[x].job[1] # "orch"
    <3>1. CASE proc'[x] = proc[x]
      BY <1>3, <2>b, <3>1 DEF OnARow
    <3>2. ASSUME NEW j \in JobIds, Take(x, j) PROVE row'[proc'[x].run].status # "absent"
      <4>1. proc'[x].job = j /\ proc'[x].run = j[2] /\ row' = row /\ job[j].state = "waiting"
        BY <1>a, <3>2 DEF Take
      <4> QED
        BY <2>2, <4>1 DEF RowsExist
    <3>3. CASE Poll(x) \/ Ingest(x)
      BY <2>b, <3>3, PollAndIngestKeep DEF OnARow
    <3>4. CASE CheckTransition(x) \/ MarkStatus(x) \/ Throw(x) \/ TimeOut(x)
      <4>1. proc[x].pc # "idle" /\ proc'[x].run = proc[x].run /\ proc'[x].job = proc[x].job
        <5>1. CASE TimeOut(x)
          BY <1>a, <5>1 DEF TimeOut, ProcType
        <5>2. CASE CheckTransition(x) \/ MarkStatus(x) \/ Throw(x)
          BY <5>2, StatusSteps, GotoGoes DEF CheckTransition, MarkStatus, Throw, Goes
        <5> QED
          BY <3>4, <5>1, <5>2
      <4> QED
        BY <2>2, <2>b, <4>1 DEF OnARow
    <3>5. ASSUME Orchestrate(x) PROVE FALSE
      BY <2>2, <3>5, OrchestratorKeeps
    <3>6. ASSUME Finish(x) \/ Crash(x) PROVE FALSE
      BY <1>a, <2>0, <3>6 DEF Finish, Complete, Rethrow, Postpone, Settle, Crash, Idle
    <3> QED
      BY <3>1, <3>2, <3>3, <3>4, <3>5, <3>6, OwnSteps DEF WorkerStep
  <2> QED
    BY <2>1, <2>2
<1>4. ASSUME cancel'.pc # "idle"
      PROVE  cancel'.run \in Runs /\ row'[cancel'.run].status # "absent"
  <2>1. CASE cancel.pc # "idle" /\ cancel'.run = cancel.run
    BY <2>1, RowStays DEF RowsExist
  <2>2. ASSUME NEW r \in Runs, CancelRead(r)
        PROVE  cancel'.run \in Runs /\ row'[cancel'.run].status # "absent"
    BY <2>2 DEF CancelRead
  <2>3. CASE CancelShopify
    BY <1>4, <2>1, <2>3 DEF CancelShopify, NoCancel, Typed, TypeOK
  <2>4. ASSUME CancelWrite PROVE FALSE
    BY <1>4, <2>4 DEF CancelWrite, NoCancel
  <2>5. ASSUME NEW w \in Workers, WorkerStep(w) PROVE cancel' = cancel
    BY <2>5 DEF WorkerStep, CheckTransition, MarkStatus, Orchestrate, AcquireLock, LoadRun,
       PatchContract, StartAccepted, StartRateLimited, StartRefused, HandToPoller, Catch, Poll,
       PollLoad, PollTimedOut, PollNotReady, PollCompleted, PollTerminal, Decide, RequestRetry,
       RequeueOrchestrator, HandOver, Salvaged, Ingest, Stage, MergeStaging, ReconcileLines,
       ErrorRateAbort, Finish, Complete, Rethrow, Postpone, Settle
  <2>6. ASSUME \/ \E w \in Workers : (\E j \in JobIds : Take(w, j)) \/ Throw(w) \/ Crash(w) \/ TimeOut(w)
               \/ (\E k \in Keys : Start(k)) \/ (\E u \in Uploads : Upload(u))
               \/ (\E j \in JobIds : Expire(j)) \/ (\E o \in Ops : ShopifyEnds(o))
               \/ DeadLockExpires \/ LeaseLapses
        PROVE  cancel' = cancel
    BY <2>6 DEF Take, Throw, Crash, TimeOut, Start, Upload, Expire, ShopifyEnds,
       DeadLockExpires, LeaseLapses
  <2> QED
    BY <1>4, <2>1, <2>2, <2>3, <2>4, <2>5, <2>6 DEF Next
<1> QED
  BY <1>1, <1>2, <1>3, <1>4 DEF RowsExist

-----------------------------------------------------------------------------
(* The steps of a processor of a poller job.                                  *)
PollStep(x) ==
    \/ proc'[x] = proc[x]
    \/ \E j \in JobIds : /\ Take(x, j) /\ proc'[x].pc = "load" /\ proc'[x].job = j
                         /\ proc'[x].run = j[2] /\ proc'[x].op = job[j].op
                         /\ proc'[x].goal = "none"
    \/ Aims(x, "load", "polling") \/ Aims(x, "ask", "failed")
    \/ Goes(x, "ask", "later")
    \/ Goes(x, "ask", "hand") /\ shopify[proc[x].op] = "completed" /\ UNCHANGED shopify
    \/ Goes(x, "ask", "decide") /\ shopify[proc[x].op] \in {"transient", "partial"}
    \/ /\ proc[x].pc \in {"decide", "reset", "requeue", "salvaged"}
       /\ proc'[x].job = proc[x].job /\ proc'[x].run = proc[x].run
       /\ proc'[x].op = proc[x].op
    \/ Goes(x, "hand", "complete") /\ UNCHANGED <<row, shopify>>
    \/ Checks(x) /\ UNCHANGED <<row, shopify>>
    \/ MarkStatus(x) /\ Marks(x)
    \/ /\ "throw" \in Trouble /\ proc[x].pc # "idle"
       /\ \E c \in {"ask", "complete", "threw"} : Goes(x, proc[x].pc, c)
    \/ "timeout" \in Trouble /\ proc[x].pc # "idle" /\ Goes(x, proc[x].pc, proc[x].pc)

LEMMA PollSteps ==
    ASSUME Typed, Next, NEW x \in Workers, proc'[x].pc # "idle", proc'[x].job[1] = "poll"
    PROVE  PollStep(x) /\ (proc[x].pc # "idle" => proc[x].job[1] = "poll")
<1>a. proc \in [Workers -> ProcType] /\ proc[x] \in ProcType /\ Knows(proc[x])
  BY DEF Typed, TypeOK
<1>1. CASE proc'[x] = proc[x]
  BY <1>1 DEF PollStep
<1>2. ASSUME NEW j \in JobIds, Take(x, j)
      PROVE  PollStep(x) /\ (proc[x].pc # "idle" => proc[x].job[1] = "poll")
  <2>1. /\ proc'[x].job = j /\ proc'[x].pc = FirstStep(j[1]) /\ proc'[x].run = j[2]
        /\ proc'[x].op = job[j].op
        /\ proc'[x].goal = IF j[1] = "ingest" THEN "downloading" ELSE "none"
    BY <1>2, <1>a DEF Take
  <2>2. FirstStep(j[1]) = "load" /\ j[1] # "ingest"
    BY <2>1 DEF FirstStep
  <2> QED
    BY <1>2, <2>1, <2>2 DEF PollStep, Take
<1>3. CASE CheckTransition(x) \/ MarkStatus(x)
  <2>1. proc'[x].job = proc[x].job
    BY <1>3, StatusSteps DEF Checks, Marks, Goes
  <2> QED
    BY <1>3, <2>1, StatusSteps DEF PollStep, CheckTransition
<1>4. ASSUME Orchestrate(x) PROVE FALSE
  BY <1>4, OrchestratorKeeps
<1>5. CASE Poll(x)
  <2>0. /\ proc[x].job[1] = "poll" /\ proc'[x].job = proc[x].job
        /\ proc'[x].run = proc[x].run /\ proc'[x].op = proc[x].op
    BY <1>5, PollAndIngestKeep
  <2>1. CASE PollLoad(x)
    <3>1. PICK m : proc' = [proc EXCEPT ![x] =
                      [proc[x] EXCEPT !.mut = m, !.pc = "check", !.goal = "polling"]]
      BY <2>1 DEF PollLoad
    <3>2. proc'[x].pc = "check" /\ proc'[x].goal = "polling" /\ proc[x].pc = "load"
      BY <1>a, <2>1, <3>1 DEF ProcType, PollLoad, At
    <3> QED
      BY <2>0, <3>2 DEF PollStep, Aims
  <2>2. CASE PollTimedOut(x)
    BY <2>0, <2>2, GotoMarkAims DEF PollTimedOut, At, PollStep
  <2>3. CASE PollTerminal(x)
    <3>1. \/ Goto(x, "decide") /\ shopify[proc[x].op] \in {"transient", "partial"}
          \/ GotoMark(x, "failed")
      BY <2>3 DEF PollTerminal
    <3>2. proc[x].pc = "ask"
      BY <2>3 DEF PollTerminal, At
    <3> QED
      BY <2>0, <3>1, <3>2, GotoGoes, GotoMarkAims DEF PollStep
  <2>4. CASE PollNotReady(x) \/ PollCompleted(x) \/ HandOver(x)
    BY <2>0, <2>4, GotoGoes DEF PollNotReady, PollCompleted, HandOver, At, PollStep
  <2>5. CASE Decide(x) \/ RequestRetry(x) \/ RequeueOrchestrator(x) \/ Salvaged(x)
    <3>1. proc[x].pc \in {"decide", "reset", "requeue", "salvaged"}
      BY <2>5 DEF Decide, RequestRetry, RequeueOrchestrator, Salvaged, At
    <3> QED
      BY <2>0, <3>1 DEF PollStep
  <2> QED
    BY <1>5, <2>1, <2>2, <2>3, <2>4, <2>5 DEF Poll
<1>6. ASSUME Ingest(x) PROVE FALSE
  <2>1. proc[x].job[1] \in {"ingest", "reconcile"}
    BY <1>6 DEF Ingest, Stage, MergeStaging, ReconcileLines, ErrorRateAbort, At
  <2> QED
    BY <1>6, <2>1, PollAndIngestKeep
<1>7. ASSUME Finish(x) \/ Crash(x) PROVE FALSE
  BY <1>7, <1>a DEF Finish, Complete, Rethrow, Postpone, Settle, Crash, Idle
<1>8. CASE Throw(x)
  <2>1. /\ Goto(x, AfterThrow(proc[x].job[1], proc[x].pc, proc[x].goal))
        /\ "throw" \in Trouble /\ proc[x].pc # "idle"
    BY <1>8 DEF Throw, Fault
  <2>2. proc[x].job[1] = "poll"
    BY <2>1, GotoGoes DEF Goes
  <2>3. AfterThrow(proc[x].job[1], proc[x].pc, proc[x].goal) \in {"ask", "complete", "threw"}
    BY <2>2 DEF AfterThrow
  <2> QED
    BY <2>1, <2>2, <2>3, GotoGoes DEF PollStep
<1>9. CASE TimeOut(x)
  <2>1. Goes(x, proc[x].pc, proc[x].pc) /\ "timeout" \in Trouble /\ proc[x].pc # "idle"
    BY <1>9, <1>a DEF TimeOut, Fault, Goes, ProcType
  <2> QED
    BY <2>1 DEF PollStep, Goes
<1> QED
  BY <1>1, <1>2, <1>3, <1>4, <1>5, <1>6, <1>7, <1>8, <1>9, OwnSteps DEF WorkerStep

-----------------------------------------------------------------------------
(* A poller asks about an operation, and an operation that is recorded, or    *)
(* about to be, has been started: whatever fails.                             *)
OpsGiven ==
    /\ \A r \in Runs : row[r].op # None => shopify[row[r].op] # "unused"
    /\ \A r \in Runs : job[<<"poll", r>>].op = None =>
          /\ job[<<"poll", r>>].state = "none"
          /\ \A w \in Workers : proc[w].pc # "idle" => proc[w].job # <<"poll", r>>
    /\ \A w \in Workers : proc[w].pc # "idle" =>
          /\ proc[w].job[1] = "poll" => proc[w].op # None
          /\ proc[w].job[1] = "orch" =>
               /\ proc[w].pc = "hand" => proc[w].op # None
               /\ proc[w].pc \in {"check", "mark"} /\ proc[w].goal = "running" =>
                    proc[w].op # None /\ shopify[proc[w].op] # "unused"

LEMMA StaysUsed ==
    ASSUME Typed, Next, NEW o \in Ops, shopify[o] # "unused"
    PROVE  shopify'[o] # "unused"
BY ShopifySteps DEF ShopifyStep

(* Who records an operation is an orchestrator.                               *)
LEMMA OrchestratorRecords ==
    ASSUME Typed, NEW w \in Workers, MarkStatus(w), proc[w].goal = "running"
    PROVE  proc[w].pc = "mark" /\ proc[w].job \in JobIds /\ proc[w].job[1] = "orch"
<1>1. Knows(proc[w]) /\ proc[w].pc = "mark"
  BY DEF Typed, MarkStatus
<1> QED
  BY <1>1, JobIdParts DEF Knows

LEMMA PollJobs == ASSUME NEW j \in JobIds, j[1] = "poll" PROVE j = <<"poll", j[2]>> /\ j[2] \in Runs
BY JobIdParts DEF JobIds

LEMMA OpsGivenStep == ASSUME Typed, OpsGiven, Next PROVE OpsGiven'
<1>a. /\ \A r \in Runs : row[r].op \in Ops \cup {None} /\ <<"poll", r>> \in JobIds
      /\ \A w \in Workers : proc[w].op \in Ops \cup {None} /\ Knows(proc[w])
  BY DEF Typed, TypeOK, RowType, ProcType, JobIds
<1>1. ASSUME NEW r \in Runs, row'[r].op # None PROVE shopify'[row'[r].op] # "unused"
  <2>1. CASE row'[r].op = row[r].op
    BY <1>a, <1>1, <2>1, StaysUsed DEF OpsGiven
  <2>2. CASE row'[r].op # row[r].op
    <3>1. PICK w \in Workers : MarkStatus(w) /\ proc[w].goal = "running" /\ row'[r].op = proc[w].op
      BY <1>1, <2>2, RowChanges DEF RowChange
    <3>2. shopify[proc[w].op] # "unused"
      BY <3>1, OrchestratorRecords DEF OpsGiven
    <3> QED
      BY <1>a, <1>1, <3>1, <3>2, StaysUsed
  <2> QED
    BY <2>1, <2>2
<1>2. ASSUME NEW r \in Runs, job'[<<"poll", r>>].op = None
      PROVE  /\ job'[<<"poll", r>>].state = "none"
             /\ \A w \in Workers : proc'[w].pc # "idle" => proc'[w].job # <<"poll", r>>
  <2> DEFINE j == <<"poll", r>>
  <2>0. j \in JobIds /\ j[1] = "poll"
    BY <1>a
  <2> HIDE DEF j
  <2>1. ~Adds(j)
    <3>1. ASSUME NEW w \in Workers, HandToPoller(w), job'[j].op = proc[w].op PROVE FALSE
      BY <1>2, <3>1 DEF HandToPoller, At, OpsGiven, j
    <3> QED
      BY <2>0, <3>1 DEF Adds
  <2>2. job[j].op = None
    BY <1>2, <2>0, <2>1, JobSteps DEF JobStep, j
  <2>3. job[j].state = "none" /\ \A w \in Workers : proc[w].pc # "idle" => proc[w].job # j
    BY <2>2 DEF OpsGiven, j
  <2>4. job'[j].state = "none"
    BY <2>0, <2>1, <2>3, JobSteps DEF JobStep
  <2>5. ASSUME NEW w \in Workers, proc'[w].pc # "idle", proc'[w].job = j PROVE FALSE
    <3>1. PollStep(w)
      BY <2>0, <2>5, PollSteps
    <3>2. ~Take(w, j)
      BY <2>3 DEF Take
    <3>3. proc'[w] = proc[w] \/ (proc[w].pc # "idle" /\ proc'[w].job = proc[w].job)
      BY <2>5, <3>1, <3>2 DEF PollStep, Goes, Aims, Checks, Marks
    <3> QED
      BY <2>3, <2>5, <3>3
  <2> QED
    BY <2>4, <2>5 DEF j
<1>3. ASSUME NEW x \in Workers, proc'[x].pc # "idle", proc'[x].job[1] = "poll"
      PROVE  proc'[x].op # None
  <2>1. PollStep(x) /\ (proc[x].pc # "idle" => proc[x].job[1] = "poll")
    BY <1>3, PollSteps
  <2>2. ASSUME NEW j \in JobIds, Take(x, j), proc'[x].job = j PROVE job[j].op # None
    <3>1. j = <<"poll", j[2]>> /\ j[2] \in Runs
      BY <1>3, <2>2, PollJobs
    <3>2. job[j].state # "none"
      BY <2>2 DEF Take
    <3> QED
      BY <3>1, <3>2 DEF OpsGiven
  <2>3. \/ proc'[x] = proc[x]
        \/ \E j \in JobIds : Take(x, j) /\ proc'[x].job = j /\ proc'[x].op = job[j].op
        \/ proc[x].pc # "idle" /\ proc'[x].op = proc[x].op
    BY <1>3, <2>1 DEF PollStep, Goes, Aims, Checks, Marks
  <2> QED
    BY <1>3, <2>1, <2>2, <2>3 DEF OpsGiven
<1>4. ASSUME NEW x \in Workers, proc'[x].pc # "idle", proc'[x].job[1] = "orch"
      PROVE  /\ proc'[x].pc = "hand" => proc'[x].op # None
             /\ proc'[x].pc \in {"check", "mark"} /\ proc'[x].goal = "running" =>
                  proc'[x].op # None /\ shopify'[proc'[x].op] # "unused"
  <2>1. OrchStep(x) /\ (proc[x].pc # "idle" => proc[x].job[1] = "orch")
    BY <1>4, OrchSteps
  <2>2. proc[x].op # None /\ shopify[proc[x].op] # "unused" => shopify'[proc[x].op] # "unused"
    BY <1>a, StaysUsed
  <2>3. CASE LoadRun(x)
    <3>1. PICK r, o : proc' = [proc EXCEPT ![x] =
                      [proc[x] EXCEPT !.pc = "patch", !.run = r, !.op = o]]
      BY <2>3 DEF LoadRun
    <3>2. proc \in [Workers -> ProcType] /\ proc[x] \in ProcType
      BY DEF Typed, TypeOK
    <3>3. proc'[x].pc = "patch"
      BY <3>1, <3>2 DEF ProcType
    <3> QED
      BY <3>3
  <2>4. ASSUME NEW o \in Ops, shopify'[o] = "running", proc'[x].pc = "check", proc'[x].op = o
        PROVE  proc'[x].op # None /\ shopify'[proc'[x].op] # "unused" /\ proc'[x].pc # "hand"
    BY <2>4, NamesAssumption
  <2>5. CASE Checks(x)
    <3>1. proc[x].pc = "check" /\ proc'[x].op = proc[x].op /\ proc'[x].goal = proc[x].goal
          /\ proc'[x].pc # "hand"
      BY <1>4, <2>1, <2>5 DEF Checks, Goes, AfterRefusal
    <3> QED
      BY <2>1, <2>2, <3>1 DEF OpsGiven
  <2>6. CASE Marks(x)
    <3>1. proc[x].pc = "mark" /\ proc'[x].op = proc[x].op /\ proc'[x].pc \notin {"check", "mark"}
          /\ (proc'[x].pc = "hand" => proc[x].goal = "running")
      BY <1>4, <2>1, <2>6 DEF Marks, Goes, AfterMark, AfterThrow
    <3> QED
      BY <2>1, <3>1 DEF OpsGiven
  <2>7. CASE proc'[x] = proc[x] \/ Goes(x, proc[x].pc, proc[x].pc)
    <3>1. proc'[x].pc = proc[x].pc /\ proc'[x].op = proc[x].op /\ proc'[x].goal = proc[x].goal
      BY <2>7 DEF Goes
    <3> QED
      BY <1>4, <2>1, <2>2, <3>1 DEF OpsGiven
  <2>8. CASE Goes(x, "patch", IF proc[x].op # None THEN "hand" ELSE "start")
    BY <2>8 DEF Goes
  <2>9. CASE \/ proc'[x].pc \in {"lock", "row", "later", "complete", "threw", "catch"}
             \/ proc'[x].pc = "check" /\ proc'[x].goal = "failed"
    BY <2>9
  <2> QED
    BY <2>1, <2>3, <2>4, <2>5, <2>6, <2>7, <2>8, <2>9 DEF OrchStep, Goes
<1> QED
  BY <1>1, <1>2, <1>3, <1>4 DEF OpsGiven

LEMMA OpsGivenInit == Init => RowsExist /\ OpsGiven
BY DEF Init, RowsExist, OpsGiven, Idle, NoCancel, OnARow, Runs, JobIds

LEMMA RunsHaveRows == Spec => [](RowsExist /\ OpsGiven)
<1>1. Typed /\ RowsExist /\ [Next]_vars => RowsExist'
  BY RowsExistStep DEF vars, RowsExist, OnARow
<1>2. Typed /\ OpsGiven /\ [Next]_vars => OpsGiven'
  BY OpsGivenStep DEF vars, OpsGiven
<1> QED
  BY <1>1, <1>2, OpsGivenInit, TypedInvariant, PTL DEF Spec

-----------------------------------------------------------------------------
(* Where no operation fails in a way that is retried, no poller retries.      *)
NoRetries ==
    /\ \A o \in Ops : shopify[o] \notin {"transient", "partial"}
    /\ \A w \in Workers : proc[w].pc # "idle" /\ proc[w].job[1] = "poll" =>
          /\ proc[w].pc \notin {"decide", "reset", "requeue", "salvaged"}
          /\ proc[w].goal # "completed"

LEMMA NoRetriesStep ==
    ASSUME Typed, OpsGiven, NoRetries, Next, "opfail" \notin Trouble
    PROVE  NoRetries'
<1>1. ASSUME NEW o \in Ops PROVE shopify'[o] \notin {"transient", "partial"}
  BY ShopifySteps DEF ShopifyStep, NoRetries
<1>2. ASSUME NEW x \in Workers, proc'[x].pc # "idle", proc'[x].job[1] = "poll"
      PROVE  /\ proc'[x].pc \notin {"decide", "reset", "requeue", "salvaged"}
             /\ proc'[x].goal # "completed"
  <2>1. PollStep(x) /\ (proc[x].pc # "idle" => proc[x].job[1] = "poll")
    BY <1>2, PollSteps
  <2>2. proc[x].pc # "idle" => /\ shopify[proc[x].op] \notin {"transient", "partial"}
                               /\ proc[x].pc \notin {"decide", "reset", "requeue", "salvaged"}
                               /\ proc[x].goal # "completed"
    <3>1. proc[x].op \in Ops \cup {None}
      BY DEF Typed, TypeOK, ProcType
    <3> QED
      BY <2>1, <3>1 DEF OpsGiven, NoRetries
  <2>3. CASE Checks(x)
    BY <2>1, <2>2, <2>3 DEF Checks, Goes, AfterRefusal
  <2>4. CASE Marks(x)
    <3>1. proc[x].pc = "mark" /\ proc[x].goal \in {"polling", "failed"}
      BY <2>1, <2>2, <2>4 DEF Marks, Goes, Typed, Knows
    <3> QED
      BY <2>1, <2>4, <3>1 DEF Marks, Goes, AfterMark, AfterThrow
  <2> QED
    BY <1>2, <2>1, <2>2, <2>3, <2>4 DEF PollStep, Goes, Aims
<1> QED
  BY <1>1, <1>2 DEF NoRetries

(* A job that waits or is worked on goes on doing so, until its processor has *)
(* returned or thrown.                                                        *)
LEMMA JobLives ==
    ASSUME Typed, Next, "timeout" \notin Trouble,
           NEW j \in JobIds, job[j].state \in {"waiting", "active"}
    PROVE  \/ job'[j].state \in {"waiting", "active"}
           \/ \E w \in Workers : /\ proc[w].job = j /\ proc[w].pc \in {"complete", "threw"}
                                 /\ UNCHANGED <<row, shopify>>
<1>1. ASSUME NEW w \in Workers, Complete(w) \/ Rethrow(w)
      PROVE  proc[w].pc \in {"complete", "threw"} /\ UNCHANGED <<row, shopify>>
  BY <1>1 DEF Complete, Rethrow, Settle
<1>2. ASSUME NEW w \in Workers, TimeOut(w) PROVE FALSE
  BY <1>2 DEF TimeOut, Fault
<1> QED
  BY <1>1, <1>2, JobSteps DEF JobStep

-----------------------------------------------------------------------------
(* Where an orchestrator is that has not read the run of its key yet, or will *)
(* read it again.                                                             *)
Ahead == {"lock", "row", "later"}

(* A pending run is one that the job of its own key has inserted, and that    *)
(* job is on its way to record the operation, or to try again.                *)
PendingDriven ==
    \A r \in Runs : row[r].status = "pending" =>
        /\ r \in Keys /\ row[r].op = None
        /\ job[<<"orch", r>>].state \in {"waiting", "active"}
        /\ \A w \in Workers : proc[w].pc # "idle" /\ proc[w].job = <<"orch", r>> =>
              \/ proc[w].pc \in Ahead
              \/ proc[w].run = r /\ \/ proc[w].pc = "patch" /\ proc[w].op = None
                                    \/ proc[w].pc = "start"
                                    \/ proc[w].pc \in {"check", "mark"} /\ proc[w].goal = "running"

LEMMA PendingDrivenStep ==
    ASSUME Typed, RowsExist, OneActiveRun, OneProcessorPerJob, NoRetries, PendingDriven, Next,
           Trouble \cap {"opfail", "throw", "timeout", "refuse"} = {}
    PROVE  PendingDriven'
<1>a. /\ proc \in [Workers -> ProcType]
      /\ \A w \in Workers : proc[w] \in ProcType /\ Knows(proc[w])
      /\ \A k \in Keys : <<"orch", k>> \in JobIds
  BY DEF Typed, TypeOK, JobIds
<1>b. ASSUME NEW w \in Workers, RequestRetry(w) PROVE FALSE
  BY <1>b DEF RequestRetry, At, NoRetries
<1> SUFFICES ASSUME NEW r \in Runs, row'[r].status = "pending"
             PROVE  /\ r \in Keys /\ row'[r].op = None
                    /\ job'[<<"orch", r>>].state \in {"waiting", "active"}
                    /\ \A w \in Workers : proc'[w].pc # "idle" /\ proc'[w].job = <<"orch", r>> =>
                         \/ proc'[w].pc \in Ahead
                         \/ proc'[w].run = r /\
                              \/ proc'[w].pc = "patch" /\ proc'[w].op = None
                              \/ proc'[w].pc = "start"
                              \/ proc'[w].pc \in {"check", "mark"} /\ proc'[w].goal = "running"
  BY DEF PendingDriven
<1>c. row'[r].op = row[r].op
  BY <1>b, RowChanges DEF RowChange
<1>1. CASE row[r].status = "pending"
  <2>1. r \in Keys /\ row'[r].op = None /\ <<"orch", r>> \in JobIds
    BY <1>a, <1>c, <1>1 DEF PendingDriven
  <2>2. job'[<<"orch", r>>].state \in {"waiting", "active"}
    <3>1. ASSUME NEW w \in Workers, proc[w].job = <<"orch", r>>, proc[w].pc \in {"complete", "threw"}
          PROVE  FALSE
      BY <1>1, <3>1 DEF PendingDriven, Ahead
    <3> QED
      BY <1>1, <2>1, <3>1, JobLives DEF PendingDriven
  <2>3. ASSUME NEW x \in Workers, proc'[x].pc # "idle", proc'[x].job = <<"orch", r>>
        PROVE  \/ proc'[x].pc \in Ahead
               \/ proc'[x].run = r /\
                    \/ proc'[x].pc = "patch" /\ proc'[x].op = None
                    \/ proc'[x].pc = "start"
                    \/ proc'[x].pc \in {"check", "mark"} /\ proc'[x].goal = "running"
    <3>1. OrchStep(x)
      BY <2>3, OrchSteps
    <3>2. proc[x].pc # "idle" /\ proc[x].job = <<"orch", r>> =>
             \/ proc[x].pc \in Ahead
             \/ proc[x].run = r /\
                  \/ proc[x].pc = "patch" /\ proc[x].op = None
                  \/ proc[x].pc = "start"
                  \/ proc[x].pc \in {"check", "mark"} /\ proc[x].goal = "running"
      BY <1>1 DEF PendingDriven
    <3>3. CASE LoadRun(x)
      <4>1. PICK q \in Runs :
              /\ Loads(x, q)
              /\ proc' = [proc EXCEPT ![x] = [proc[x] EXCEPT !.pc = "patch", !.run = q,
                                                             !.op = row[q].op]]
        BY <3>3, LoadsOne
      <4>2. /\ proc'[x].pc = "patch" /\ proc'[x].run = q /\ proc'[x].op = row[q].op
            /\ proc'[x].job = proc[x].job
        BY <1>a, <4>1 DEF ProcType
      <4>3. q = r
        BY <1>1, <2>3, <4>1, <4>2 DEF Loads
      <4> QED
        BY <1>c, <2>1, <4>2, <4>3
    <3>4. CASE Checks(x)
      <4>1. proc[x].pc = "check" /\ proc[x].job = <<"orch", r>>
        BY <2>3, <3>4 DEF Checks, Goes
      <4>2. proc[x].run = r /\ proc[x].goal = "running"
        BY <3>2, <4>1 DEF Ahead
      <4>3. "running" \in Allowed("pending")
        BY DEF Allowed
      <4> QED
        BY <1>1, <3>4, <4>2, <4>3 DEF Checks, Goes
    <3>5. ASSUME Marks(x) PROVE FALSE
      <4>1. proc[x].pc = "mark" /\ proc[x].job = <<"orch", r>>
        BY <2>3, <3>5 DEF Marks, Goes
      <4>2. proc[x].run = r /\ proc[x].goal = "running"
        BY <3>2, <4>1 DEF Ahead
      <4>3. IndexAllows(r, "running")
        BY <1>1 DEF IndexAllows, OneActiveRun, ActiveRuns, ActiveStatuses
      <4> QED
        BY <3>5, <4>2, <4>3 DEF Marks
    <3> QED
      BY <2>3, <3>1, <3>2, <3>3, <3>4, <3>5 DEF OrchStep, Goes, Ahead
  <2> QED
    BY <2>1, <2>2, <2>3
<1>2. CASE row[r].status # "pending"
  <2>1. PICK w \in Workers : /\ LoadRun(w) /\ r \in Keys /\ proc[w].job = <<"orch", r>>
                             /\ row[r].status = "absent" /\ IndexAllows(r, "pending")
    <3>1. ASSUME NEW w \in Workers, MarkStatus(w) PROVE proc[w].goal # "pending"
      BY <3>1, JobIdParts DEF MarkStatus, Typed, Knows
    <3>2. RowChange(r) /\ row'[r].status # row[r].status
      BY <1>2, RowChanges
    <3> QED
      BY <1>b, <3>1, <3>2 DEF RowChange
  <2>2. row'[r].op = None
    BY <1>c, <2>1 DEF RowsExist
  <2>3. job'[<<"orch", r>>].state = "active"
    BY <2>1 DEF LoadRun, At, OneProcessorPerJob
  <2>4. PICK q \in Runs :
          /\ Loads(w, q)
          /\ proc' = [proc EXCEPT ![w] = [proc[w] EXCEPT !.pc = "patch", !.run = q,
                                                         !.op = row[q].op]]
    BY <2>1, LoadsOne
  <2>5. /\ proc'[w].pc = "patch" /\ proc'[w].run = q /\ proc'[w].op = row[q].op
        /\ proc[w].pc = "row"
    <3>1. proc[w].pc = "row"
      BY <2>1 DEF LoadRun, At
    <3> QED
      BY <1>a, <2>4, <3>1 DEF ProcType
  <2>6. q = r
    BY <2>1, <2>4 DEF Loads
  <2>7. ASSUME NEW x \in Workers, x # w, proc'[x].pc # "idle", proc'[x].job = <<"orch", r>>
        PROVE  FALSE
    <3>1. proc'[x] = proc[x]
      BY <1>a, <2>4, <2>7
    <3> QED
      BY <2>1, <2>5, <2>7, <3>1 DEF OneProcessorPerJob
  <2> QED
    BY <1>c, <2>1, <2>2, <2>3, <2>5, <2>6, <2>7
<1> QED
  BY <1>1, <1>2

(* A pending run waits for an orchestrator job that goes on, under crashes,   *)
(* lapsed leases, rate limits, cancels and expired jobs: it is pending from   *)
(* insertOrLoadBulkRun to markBulkRunStarted of the job of its own key, which *)
(* is not done before.  The four troubles the theorem excludes are those that *)
(* end that job between the two: a refusal returns without touching the row,  *)
(* an error or a time-out may use the last attempt, and a retry puts a run    *)
(* back to pending whose job is done.                                         *)
THEOREM PendingHasJob ==
    Trouble \cap {"opfail", "throw", "timeout", "refuse"} = {} /\ Spec => []PendingRunHasJob
<1> SUFFICES ASSUME Trouble \cap {"opfail", "throw", "timeout", "refuse"} = {}
             PROVE  Spec => []PendingRunHasJob
  OBVIOUS
<1>1. Init => OneProcessorPerJob /\ NoRetries /\ PendingDriven
  BY DEF Init, Idle, OneProcessorPerJob, NoRetries, PendingDriven
<1>2. Typed /\ OneProcessorPerJob /\ [Next]_vars => OneProcessorPerJob'
  BY OneProcessorPerJobStep DEF vars, OneProcessorPerJob
<1>3. Typed /\ OpsGiven /\ NoRetries /\ [Next]_vars => NoRetries'
  BY NoRetriesStep DEF vars, NoRetries
<1>4. Typed /\ RowsExist /\ OneActiveRun /\ OneProcessorPerJob /\ NoRetries /\ PendingDriven
        /\ [Next]_vars => PendingDriven'
  BY PendingDrivenStep DEF vars, PendingDriven
<1>5. PendingDriven => PendingRunHasJob
  BY DEF PendingDriven, PendingRunHasJob
<1> QED
  BY <1>1, <1>2, <1>3, <1>4, <1>5, TypedInvariant, OneActive, RunsHaveRows, PTL DEF Spec

-----------------------------------------------------------------------------
(* The operation of run r has ended, or the run has.                          *)
Settled(r) == shopify[row[r].op] # "running" \/ row[r].status \notin {"running", "polling"}

(* The job of a poller asks about the operation its run records, and is done  *)
(* only when there is nothing more to ask.                                    *)
JobsAsk ==
    \A r \in Runs : job[<<"poll", r>>].state # "none" =>
        /\ row[r].op # None /\ job[<<"poll", r>>].op = row[r].op
        /\ job[<<"poll", r>>].state = "done" => Settled(r)

PollersAsk ==
    \A w \in Workers : proc[w].pc # "idle" /\ proc[w].job[1] = "poll" =>
        /\ proc[w].op = row[proc[w].run].op
        /\ proc[w].pc = "hand" => shopify[proc[w].op] # "running"
        /\ proc[w].pc \in {"complete", "threw"} => Settled(proc[w].run)

(* An orchestrator hands over the operation its run records; it works on the  *)
(* run of another key only while there is none of its own.                    *)
OrchestratorsAsk ==
    \A w \in Workers : proc[w].pc # "idle" /\ proc[w].job[1] = "orch" =>
        /\ proc[w].pc = "hand" \/ (proc[w].pc = "patch" /\ proc[w].op # None) =>
             proc[w].op = row[proc[w].run].op
        /\ proc[w].run # proc[w].job[2] => row[proc[w].job[2]].status = "absent"

(* The orchestrator job of key k will enqueue the poller of run r.            *)
OnTheWay(k, r) ==
    /\ job[<<"orch", k>>].state \in {"waiting", "active"}
    /\ k = r \/ row[k].status = "absent"
    /\ \A w \in Workers : proc[w].pc # "idle" /\ proc[w].job = <<"orch", k>> =>
          \/ proc[w].pc \in Ahead
          \/ proc[w].pc \in {"patch", "hand"} /\ proc[w].run = r

Running(r) ==
    /\ row[r].op # None /\ row[r].status \in {"running", "polling"}
    /\ shopify[row[r].op] = "running"

RunningWatched ==
    \A r \in Runs : Running(r) =>
        \/ job[<<"poll", r>>].state \in {"waiting", "active"}
        \/ \E k \in Keys : OnTheWay(k, r)

Watching == JobsAsk /\ PollersAsk /\ OrchestratorsAsk /\ RunningWatched

(* What holds anyway where no operation is retried, no step fails, and no     *)
(* processor outlives its time-out or its lease.                              *)
Steady ==
    /\ Typed /\ RowsExist /\ OpsGiven /\ OneActiveRun
    /\ OneProcessorPerJob /\ NoRetries /\ SectionLocked /\ StartsFresh

LEMMA OpStays ==
    ASSUME Steady, Next, NEW r \in Runs, row[r].op # None
    PROVE  row'[r].op = row[r].op
<1>1. ASSUME NEW w \in Workers, RequestRetry(w) PROVE FALSE
  BY <1>1 DEF RequestRetry, At, Steady, NoRetries
<1>2. ASSUME NEW w \in Workers, MarkStatus(w), proc[w].goal = "running", proc[w].run = r PROVE FALSE
  BY <1>2, Recorder DEF Steady, StartsFresh
<1>3. RowChange(r)
  BY RowChanges DEF Steady
<1> QED
  BY <1>1, <1>2, <1>3 DEF RowChange

(* Who sets a run to polling is the processor of its poller job.              *)
LEMMA PollerMarks ==
    ASSUME Typed, NEW w \in Workers, MarkStatus(w), proc[w].goal = "polling"
    PROVE  proc[w].pc = "mark" /\ proc[w].job = <<"poll", proc[w].run>>
<1>1. Knows(proc[w]) /\ proc[w].pc = "mark"
  BY DEF Typed, MarkStatus
<1>2. proc[w].job[1] = "poll"
  BY <1>1, JobIdParts DEF Knows
<1> QED
  BY <1>1, <1>2, PollJobs DEF Knows

(* A run becomes running or polling again only by the poller that is at it.   *)
LEMMA SettledStays ==
    ASSUME Steady, Next, NEW r \in Runs, row[r].op # None, Settled(r),
           \A w \in Workers : proc[w].pc = "mark" => proc[w].job # <<"poll", r>>
    PROVE  Settled(r)'
<1>0. row'[r].op = row[r].op /\ row[r].op \in Ops /\ shopify[row[r].op] # "unused"
  BY OpStays DEF Steady, OpsGiven, Typed, TypeOK, RowType
<1>1. CASE shopify[row[r].op] # "running"
  <2>1. shopify'[row[r].op] # "running"
    BY <1>0, <1>1, ShopifySteps DEF ShopifyStep, Steady
  <2> QED
    BY <1>0, <2>1 DEF Settled
<1>2. CASE row[r].status \notin {"running", "polling"}
  <2> SUFFICES ASSUME row'[r].status \in {"running", "polling"} PROVE FALSE
    BY DEF Settled
  <2>1. RowChange(r) /\ row'[r].status # row[r].status
    BY <1>2, RowChanges DEF Steady
  <2>2. ASSUME NEW w \in Workers, MarkStatus(w), proc[w].run = r PROVE proc[w].goal \notin {"running", "polling"}
    <3>1. proc[w].goal # "running"
      BY <2>2, Recorder DEF Steady, StartsFresh
    <3>2. proc[w].goal # "polling"
      BY <2>2, PollerMarks DEF Steady
    <3> QED
      BY <3>1, <3>2
  <2>3. ~Upload(r)
    BY DEF Upload, Steady, RowsExist
  <2> QED
    BY <2>1, <2>2, <2>3 DEF RowChange
<1> QED
  BY <1>1, <1>2 DEF Settled

LEMMA JobsAskStep ==
    ASSUME Steady, Watching, Next, "timeout" \notin Trouble
    PROVE  JobsAsk'
<1> SUFFICES ASSUME NEW r \in Runs, job'[<<"poll", r>>].state # "none"
             PROVE  /\ row'[r].op # None /\ job'[<<"poll", r>>].op = row'[r].op
                    /\ job'[<<"poll", r>>].state = "done" => Settled(r)'
  BY DEF JobsAsk, Settled
<1> DEFINE j == <<"poll", r>>
<1>0. j \in JobIds /\ j[1] = "poll" /\ j[2] = r
  BY DEF JobIds
<1>a. /\ job[j].state # "none" => row[r].op # None /\ job[j].op = row[r].op
      /\ job[j].state = "done" => Settled(r)
  BY DEF Watching, JobsAsk
<1>b. \A w \in Workers : proc[w].pc # "idle" /\ proc[w].job = j => job[j].state = "active"
  BY DEF Steady, OneProcessorPerJob
<1> HIDE DEF j
<1>1. CASE job'[j] = job[j]
  <2>1. row'[r].op = row[r].op
    BY <1>a, <1>1, OpStays DEF j
  <2>2. job[j].state = "done" => Settled(r)'
    <3>1. \A w \in Workers : proc[w].pc = "mark" => proc[w].job # j \/ job[j].state = "active"
      BY <1>b
    <3> QED
      BY <1>a, <3>1, SettledStays DEF j
  <2> QED
    BY <1>a, <1>1, <2>1, <2>2 DEF j
<1>2. CASE job[j].state = "none" /\ job'[j].state = "waiting" /\ Adds(j)
  <2>1. PICK w \in Workers : HandToPoller(w) /\ j = <<"poll", proc[w].run>> /\ job'[j].op = proc[w].op
    BY <1>0, <1>2 DEF Adds
  <2>2. proc[w].run = r
    BY <1>0, <2>1
  <2>3. /\ proc[w].op = row[r].op /\ proc[w].op # None /\ row' = row
    BY <2>1, <2>2 DEF HandToPoller, At, Watching, OrchestratorsAsk, Steady, OpsGiven
  <2> QED
    BY <1>2, <2>1, <2>3 DEF j
<1>3. CASE /\ job'[j].op = job[j].op /\ job[j].state # "none"
           /\ job'[j].state = "done" => \E w \in Workers : proc[w].job = j /\ Complete(w)
  <2>1. row'[r].op = row[r].op
    BY <1>a, <1>3, OpStays
  <2>2. ASSUME NEW w \in Workers, proc[w].job = j, Complete(w) PROVE Settled(r)'
    <3>1. proc[w].run = r /\ proc[w].pc = "complete" /\ UNCHANGED <<row, shopify>>
      BY <1>0, <2>2 DEF Complete, Settle, Steady, Typed, Knows
    <3>2. Settled(r)
      BY <1>0, <2>2, <3>1 DEF Watching, PollersAsk
    <3> QED
      BY <3>1, <3>2 DEF Settled
  <2> QED
    BY <1>a, <1>3, <2>1, <2>2 DEF j
<1>4. JobStep(j)
  BY <1>0, JobSteps DEF Steady
<1>5. ASSUME NEW w \in Workers, TimeOut(w) PROVE FALSE
  BY <1>5 DEF TimeOut, Fault
<1> QED
  BY <1>b, <1>1, <1>2, <1>3, <1>4, <1>5 DEF JobStep, j

LEMMA PollersAskStep ==
    ASSUME Steady, Watching, Next, Trouble \cap {"throw", "timeout"} = {}
    PROVE  PollersAsk'
<1> SUFFICES ASSUME NEW x \in Workers, proc'[x].pc # "idle", proc'[x].job[1] = "poll"
             PROVE  /\ proc'[x].op = row'[proc'[x].run].op
                    /\ proc'[x].pc = "hand" => shopify'[proc'[x].op] # "running"
                    /\ proc'[x].pc \in {"complete", "threw"} =>
                         \/ shopify'[row'[proc'[x].run].op] # "running"
                         \/ row'[proc'[x].run].status \notin {"running", "polling"}
  BY DEF PollersAsk, Settled
<1> DEFINE r == proc[x].run
<1>1. PollStep(x) /\ (proc[x].pc # "idle" => proc[x].job[1] = "poll")
  BY PollSteps DEF Steady
<1>2. ASSUME NEW j \in JobIds, Take(x, j), proc'[x].job = j, proc'[x].run = j[2],
             proc'[x].op = job[j].op
      PROVE  proc'[x].op = row'[proc'[x].run].op
  <2>1. j = <<"poll", j[2]>> /\ j[2] \in Runs
    BY <1>2, PollJobs
  <2>2. job[j].state = "waiting" /\ row' = row
    BY <1>2 DEF Take
  <2> QED
    BY <1>2, <2>1, <2>2 DEF Watching, JobsAsk
<1>3. proc[x].pc # "idle" =>
        /\ r \in Runs /\ proc[x].job = <<"poll", r>> /\ proc[x].job \in JobIds
        /\ proc[x].op \in Ops /\ proc[x].op = row[r].op /\ row[r].op # None
        /\ row'[r].op = row[r].op
        /\ shopify[proc[x].op] \notin {"unused", "transient", "partial"}
  <2> SUFFICES ASSUME proc[x].pc # "idle"
               PROVE  /\ r \in Runs /\ proc[x].job = <<"poll", r>> /\ proc[x].job \in JobIds
                      /\ proc[x].op \in Ops /\ proc[x].op = row[r].op /\ row[r].op # None
                      /\ row'[r].op = row[r].op
                      /\ shopify[proc[x].op] \notin {"unused", "transient", "partial"}
    OBVIOUS
  <2>1. r \in Runs /\ proc[x].job = <<"poll", r>> /\ proc[x].job \in JobIds
    BY <1>1, PollJobs DEF Steady, Typed, Knows
  <2>2. proc[x].op \in Ops /\ proc[x].op = row[r].op /\ row[r].op # None
    BY <1>1 DEF Watching, PollersAsk, Steady, OpsGiven, Typed, TypeOK, ProcType
  <2>3. row'[r].op = row[r].op
    BY <2>1, <2>2, OpStays
  <2>4. shopify[proc[x].op] \notin {"unused", "transient", "partial"}
    BY <2>1, <2>2 DEF Steady, OpsGiven, NoRetries
  <2> QED
    BY <2>1, <2>2, <2>3, <2>4
<1>4. CASE proc'[x] = proc[x]
  <2>0. proc[x].pc # "idle"
    BY <1>4
  <2>1. proc[x].pc = "hand" => shopify'[proc[x].op] # "running"
    BY <1>1, <1>3, <2>0, ShopifySteps DEF ShopifyStep, Steady, Watching, PollersAsk
  <2>2. PICK q \in Runs : q = r
    BY <1>3, <2>0
  <2>3. proc[x].pc \in {"complete", "threw"} => Settled(q)'
    <3> SUFFICES ASSUME proc[x].pc \in {"complete", "threw"} PROVE Settled(q)'
      OBVIOUS
    <3>1. Settled(q) /\ row[q].op # None
      BY <1>1, <1>3, <2>0, <2>2 DEF Watching, PollersAsk
    <3>2. \A w \in Workers : proc[w].pc = "mark" => proc[w].job # <<"poll", q>>
      BY <1>3, <2>0, <2>2 DEF Steady, OneProcessorPerJob
    <3> QED
      BY <3>1, <3>2, SettledStays
  <2> QED
    BY <1>3, <1>4, <2>0, <2>1, <2>2, <2>3 DEF Settled
<1>5. CASE Checks(x) /\ UNCHANGED <<row, shopify>>
  <2>1. proc[x].pc = "check" /\ proc[x].goal \in {"polling", "failed"}
    BY <1>1, <1>5 DEF Checks, Goes, Steady, NoRetries, Typed, Knows
  <2>2. "failed" \notin Allowed(row[r].status) => row[r].status \notin {"running", "polling"}
    BY DEF Allowed, EndedStatuses
  <2> QED
    BY <1>1, <1>3, <1>5, <2>1, <2>2 DEF Checks, Goes, AfterRefusal
<1>6. CASE Marks(x)
  <2>1. proc[x].pc = "mark" /\ proc[x].goal \in {"polling", "failed"}
    BY <1>1, <1>6 DEF Marks, Goes, Steady, NoRetries, Typed, Knows
  <2>2. IndexAllows(r, "failed")
    BY DEF IndexAllows, ActiveStatuses
  <2> QED
    BY <1>1, <1>3, <1>6, <2>1, <2>2 DEF Marks, Goes, AfterMark, AfterThrow
<1>7. CASE \/ Aims(x, "load", "polling") \/ Aims(x, "ask", "failed")
           \/ Goes(x, "ask", "later")
           \/ Goes(x, "ask", "hand") /\ shopify[proc[x].op] = "completed" /\ UNCHANGED shopify
  BY <1>3, <1>7 DEF Aims, Goes
<1>8. CASE Goes(x, "hand", "complete") /\ UNCHANGED <<row, shopify>>
  BY <1>1, <1>3, <1>8 DEF Goes, Watching, PollersAsk
<1>9. ASSUME \/ Goes(x, "ask", "decide") /\ shopify[proc[x].op] \in {"transient", "partial"}
             \/ proc[x].pc \in {"decide", "reset", "requeue", "salvaged"}
      PROVE  FALSE
  BY <1>1, <1>3, <1>9 DEF Goes, Steady, NoRetries
<1> QED
  BY <1>1, <1>2, <1>4, <1>5, <1>6, <1>7, <1>8, <1>9 DEF PollStep

(* While an orchestrator has not read the run of its key, nobody else inserts *)
(* it.                                                                        *)
LEMMA OwnRowAbsent ==
    ASSUME Steady, Next, NEW x \in Workers, proc[x].pc # "idle", proc[x].job[1] = "orch",
           ~LoadRun(x), row[proc[x].job[2]].status = "absent"
    PROVE  row'[proc[x].job[2]].status = "absent"
<1> DEFINE k == proc[x].job[2]
<1>1. k \in Keys /\ k \in Runs /\ proc[x].job = <<"orch", k>>
  <2>1. proc[x].job \in JobIds
    BY DEF Steady, Typed, Knows
  <2> QED
    BY <2>1, JobIdParts DEF JobIds, Runs
<1>2. k \notin Uploads
  BY <1>1, NamesAssumption
<1>3. ASSUME NEW w \in Workers, LoadRun(w), proc[w].job = <<"orch", k>> PROVE FALSE
  <2>1. proc[w].pc # "idle"
    BY <1>3 DEF LoadRun, At
  <2>2. w = x
    BY <1>1, <1>3, <2>1 DEF Steady, OneProcessorPerJob
  <2> QED
    BY <1>3, <2>2
<1> HIDE DEF k
<1>4. row[k].status = "absent"
  BY DEF k
<1> QED
  BY <1>1, <1>2, <1>3, <1>4, RunAppears DEF Steady, k

LEMMA OrchestratorsAskStep ==
    ASSUME Steady, Watching, Next, Trouble \cap {"throw", "timeout"} = {}
    PROVE  OrchestratorsAsk'
<1> SUFFICES ASSUME NEW x \in Workers, proc'[x].pc # "idle", proc'[x].job[1] = "orch"
             PROVE  /\ proc'[x].pc = "hand" \/ (proc'[x].pc = "patch" /\ proc'[x].op # None) =>
                         proc'[x].op = row'[proc'[x].run].op
                    /\ proc'[x].run # proc'[x].job[2] => row'[proc'[x].job[2]].status = "absent"
  BY DEF OrchestratorsAsk
<1> DEFINE Asks(p) == p.pc = "hand" \/ (p.pc = "patch" /\ p.op # None)
<1>a. /\ proc \in [Workers -> ProcType] /\ proc[x] \in ProcType
      /\ proc[x].pc # "idle" => proc[x].run \in Runs
  BY DEF Steady, Typed, TypeOK, Knows
<1>1. OrchStep(x) /\ (proc[x].pc # "idle" => proc[x].job[1] = "orch")
  BY OrchSteps DEF Steady
<1>b. ASSUME proc[x].pc \notin {"idle", "row"}, proc'[x].job = proc[x].job, proc'[x].run = proc[x].run
      PROVE  proc'[x].run # proc'[x].job[2] => row'[proc'[x].job[2]].status = "absent"
  <2>1. ~LoadRun(x)
    BY <1>b DEF LoadRun, At
  <2> QED
    BY <1>1, <1>b, <2>1, OwnRowAbsent DEF Watching, OrchestratorsAsk
<1>c. ASSUME proc[x].pc # "idle", Asks(proc[x]), proc'[x].op = proc[x].op, proc'[x].run = proc[x].run
      PROVE  proc'[x].op = row'[proc'[x].run].op
  <2>1. proc[x].op # None
    BY <1>1, <1>c DEF Steady, OpsGiven
  <2>2. proc[x].op = row[proc[x].run].op
    BY <1>1, <1>c DEF Watching, OrchestratorsAsk
  <2> QED
    BY <1>a, <1>c, <2>1, <2>2, OpStays
<1>2. CASE proc'[x] = proc[x]
  <2>1. CASE proc[x].pc # "row"
    BY <1>2, <1>b, <1>c, <2>1
  <2>2. CASE proc[x].pc = "row"
    <3>1. ~LoadRun(x)
      <4>1. ASSUME LoadRun(x) PROVE proc'[x].pc = "patch"
        <5>1. PICK q, o : proc' = [proc EXCEPT ![x] =
                            [proc[x] EXCEPT !.pc = "patch", !.run = q, !.op = o]]
          BY <4>1 DEF LoadRun
        <5> QED
          BY <1>a, <5>1 DEF ProcType
      <4> QED
        BY <1>2, <2>2, <4>1
    <3> QED
      BY <1>1, <1>2, <2>2, <3>1, OwnRowAbsent DEF Watching, OrchestratorsAsk
  <2> QED
    BY <2>1, <2>2
<1>3. CASE LoadRun(x)
  <2>1. PICK q \in Runs :
          /\ Loads(x, q)
          /\ proc' = [proc EXCEPT ![x] = [proc[x] EXCEPT !.pc = "patch", !.run = q,
                                                         !.op = row[q].op]]
    BY <1>3, LoadsOne DEF Steady
  <2>2. proc'[x].run = q /\ proc'[x].op = row[q].op /\ proc'[x].job = proc[x].job
    BY <1>a, <2>1 DEF ProcType
  <2>3. row[q].op # None => row'[q].op = row[q].op
    BY OpStays
  <2>4. OpsGiven /\ (q # proc[x].job[2] => row'[proc[x].job[2]].status = "absent")
    BY <2>1 DEF Loads, Steady
  <2>5. proc'[x].pc = "patch"
    BY <1>a, <2>1 DEF ProcType
  <2> QED
    BY <2>2, <2>3, <2>4, <2>5
<1>4. CASE Goes(x, "lock", "row") \/ Goes(x, "lock", "later") \/ Goes(x, "start", "later")
           \/ Goes(x, "start", "complete") \/ Goes(x, "hand", "complete") \/ Goes(x, "catch", "threw")
  BY <1>4, <1>b DEF Goes
<1>5. CASE Goes(x, "patch", IF proc[x].op # None THEN "hand" ELSE "start")
  BY <1>5, <1>b, <1>c DEF Goes
<1>6. CASE Checks(x)
  <2>1. proc[x].pc = "check" /\ proc'[x].pc \in {"mark", "complete", "threw"}
        /\ proc'[x].job = proc[x].job /\ proc'[x].run = proc[x].run
    BY <1>1, <1>6 DEF Checks, Goes, AfterRefusal
  <2> QED
    BY <2>1, <1>b
<1>7. CASE Marks(x)
  <2>1. /\ proc[x].pc = "mark" /\ proc'[x].pc # "patch"
        /\ proc'[x].job = proc[x].job /\ proc'[x].run = proc[x].run /\ proc'[x].op = proc[x].op
        /\ proc'[x].pc = "hand" => row'[proc[x].run].op = proc[x].op
    BY <1>1, <1>7 DEF Marks, Goes, AfterMark, AfterThrow
  <2> QED
    BY <2>1, <1>b
<1>8. CASE /\ proc[x].pc = "start" /\ proc'[x].pc = "check"
           /\ proc'[x].job = proc[x].job /\ proc'[x].run = proc[x].run
  BY <1>8, <1>b
<1>9. CASE \/ proc'[x].pc = "check" /\ proc'[x].job = proc[x].job /\ proc'[x].run = proc[x].job[2]
           \/ \E j \in JobIds : proc'[x].pc = "lock" /\ proc'[x].job = j /\ proc'[x].run = j[2]
  BY <1>9
<1> QED
  BY <1>1, <1>2, <1>3, <1>4, <1>5, <1>6, <1>7, <1>8, <1>9 DEF OrchStep

(* The job that is to enqueue the poller goes on, as long as it has not.      *)
LEMMA OnTheWayStep ==
    ASSUME Steady, Watching, Next, Trouble \cap {"throw", "timeout"} = {},
           NEW r \in Runs, Running(r), NEW k \in Keys, OnTheWay(k, r),
           \A x \in Workers : HandToPoller(x) => proc[x].job # <<"orch", k>>
    PROVE  /\ job'[<<"orch", k>>].state \in {"waiting", "active"}
           /\ k = r \/ row'[k].status = "absent"
           /\ \A x \in Workers : proc'[x].pc # "idle" /\ proc'[x].job = <<"orch", k>> =>
                 \/ proc'[x].pc \in Ahead
                 \/ proc'[x].pc \in {"patch", "hand"} /\ proc'[x].run = r
<1>a. /\ proc \in [Workers -> ProcType]
      /\ k \in Runs /\ k \notin Uploads /\ <<"orch", k>> \in JobIds
      /\ r \in ActiveRuns /\ row[r].op # None
  BY NamesAssumption DEF Steady, Typed, TypeOK, Runs, JobIds, Running, ActiveRuns, ActiveStatuses
<1>1. job'[<<"orch", k>>].state \in {"waiting", "active"}
  <2>1. ASSUME NEW w \in Workers, proc[w].job = <<"orch", k>>, proc[w].pc \in {"complete", "threw"}
        PROVE  FALSE
    BY <2>1 DEF OnTheWay, Ahead
  <2> QED
    BY <1>a, <2>1, JobLives DEF OnTheWay, Steady
<1>2. k = r \/ row'[k].status = "absent"
  <2> SUFFICES ASSUME k # r, row'[k].status # "absent" PROVE FALSE
    OBVIOUS
  <2>1. IndexAllows(k, "pending")
    BY <1>a, RunAppears DEF OnTheWay, Steady
  <2> QED
    BY <1>a, <2>1 DEF IndexAllows, ActiveStatuses
<1>3. ASSUME NEW x \in Workers, proc'[x].pc # "idle", proc'[x].job = <<"orch", k>>
      PROVE  \/ proc'[x].pc \in Ahead
             \/ proc'[x].pc \in {"patch", "hand"} /\ proc'[x].run = r
  <2>1. OrchStep(x)
    BY <1>3, OrchSteps DEF Steady
  <2>2. proc[x].pc # "idle" /\ proc[x].job = <<"orch", k>> =>
           \/ proc[x].pc \in Ahead
           \/ proc[x].pc \in {"patch", "hand"} /\ proc[x].run = r
    BY DEF OnTheWay
  <2>3. CASE LoadRun(x)
    <3>1. PICK q \in Runs :
            /\ Loads(x, q)
            /\ proc' = [proc EXCEPT ![x] = [proc[x] EXCEPT !.pc = "patch", !.run = q,
                                                           !.op = row[q].op]]
      BY <2>3, LoadsOne DEF Steady
    <3>2. /\ proc'[x].pc = "patch" /\ proc'[x].run = q /\ proc'[x].job = proc[x].job
      <4>1. proc[x] \in ProcType
        BY <1>a
      <4> QED
        BY <3>1, <1>a, <4>1 DEF ProcType
    <3>3. proc[x].job[2] = k
      BY <1>3, <3>2
    <3>4. row[k].status # "absent" => k = r
      BY DEF OnTheWay
    <3>5. row[r].status # "absent" /\ row[r].status \in ActiveStatuses
      BY <1>a DEF ActiveRuns, ActiveStatuses
    <3>6. IndexAllows(k, "pending") => r = k
      BY <1>a DEF IndexAllows, ActiveStatuses
    <3>7. q # k /\ row' = row => q \in ActiveRuns
      BY <3>1, <3>3 DEF Loads, ActiveRuns
    <3>8. q = r
      BY <1>a, <3>1, <3>3, <3>4, <3>5, <3>6, <3>7 DEF Loads, Steady, OneActiveRun
    <3> QED
      BY <3>2, <3>8
  <2>4. CASE Goes(x, "patch", IF proc[x].op # None THEN "hand" ELSE "start")
    <3>1. proc[x].pc = "patch" /\ proc[x].job = <<"orch", k>> /\ proc[x].run = r
      BY <1>3, <2>2, <2>4 DEF Goes, Ahead
    <3>2. proc[x].op # None
      BY <1>a, <3>1 DEF Steady, StartsFresh, Starting
    <3> QED
      BY <2>4, <3>1, <3>2 DEF Goes
  <2>5. ASSUME Checks(x) \/ Marks(x) PROVE FALSE
    <3>1. proc[x].pc \in {"check", "mark"} /\ proc[x].job = <<"orch", k>>
      BY <1>3, <2>5 DEF Checks, Marks, Goes
    <3> QED
      BY <2>2, <3>1 DEF Ahead
  <2>6. CASE \/ proc'[x] = proc[x]
             \/ Goes(x, "lock", "row") \/ Goes(x, "lock", "later") \/ Goes(x, "start", "later")
             \/ proc'[x].pc = "lock"
    BY <1>3, <2>2, <2>6 DEF Goes, Ahead
  <2>7. ASSUME \/ Goes(x, "start", "complete") \/ Goes(x, "catch", "threw")
               \/ Goes(x, "hand", "complete") /\ HandToPoller(x)
               \/ proc[x].pc \in {"start", "catch"} /\ proc'[x].job = proc[x].job
        PROVE  proc'[x].pc \in Ahead
    BY <1>3, <2>2, <2>7 DEF Goes, Ahead
  <2> QED
    BY <2>1, <2>3, <2>4, <2>5, <2>6, <2>7 DEF OrchStep
<1> QED
  BY <1>1, <1>2, <1>3

LEMMA RunningWatchedStep ==
    ASSUME Steady, Watching, Next, OneProcessorPerJob', Trouble \cap {"throw", "timeout"} = {}
    PROVE  RunningWatched'
<1> SUFFICES ASSUME NEW r \in Runs, Running(r)'
             PROVE  \/ job'[<<"poll", r>>].state \in {"waiting", "active"}
                    \/ \E k \in Keys : OnTheWay(k, r)'
  BY DEF RunningWatched
<1>a. /\ \A q \in Runs : <<"poll", q>> \in JobIds
      /\ \A w \in Workers : Knows(proc[w])
      /\ row[r].op \in Ops \cup {None}
  BY DEF Steady, Typed, TypeOK, RowType, JobIds
<1>b. row'[r].op # None /\ row'[r].status \in {"running", "polling"}
      /\ shopify'[row'[r].op] = "running"
  BY DEF Running
<1>1. \/ Running(r)
      \/ \E w \in Workers : /\ MarkStatus(w) /\ proc[w].run = r /\ row' # row
                            /\ proc[w].goal \in {"running", "polling"}
  <2>1. RowChange(r)
    BY RowChanges DEF Steady
  <2>2. CASE row'[r].op # row[r].op
    BY <1>b, <2>1, <2>2 DEF RowChange
  <2>3. CASE row'[r].op = row[r].op /\ row[r].status \in {"running", "polling"}
    <3>1. shopify[row[r].op] = "running"
      BY <1>a, <1>b, <2>3, ShopifySteps DEF ShopifyStep, Steady, OpsGiven
    <3> QED
      BY <1>b, <2>3, <3>1 DEF Running
  <2>4. CASE row'[r].op = row[r].op /\ row[r].status \notin {"running", "polling"}
    <3>1. ~Upload(r)
      BY <1>b, <2>4 DEF Upload, Steady, RowsExist
    <3> QED
      BY <1>b, <2>1, <2>4, <3>1 DEF RowChange
  <2> QED
    BY <2>2, <2>3, <2>4
<1>2. ASSUME NEW w \in Workers, MarkStatus(w), proc[w].run = r, proc[w].goal = "polling"
      PROVE  job'[<<"poll", r>>].state = "active"
  <2>1. proc[w].pc = "mark" /\ proc[w].job = <<"poll", r>> /\ job' = job
    BY <1>2, PollerMarks DEF Steady, MarkStatus
  <2> QED
    BY <2>1 DEF Steady, OneProcessorPerJob
<1>3. ASSUME NEW w \in Workers, MarkStatus(w), proc[w].run = r, row' # row, proc[w].goal = "running"
      PROVE  \E k \in Keys : OnTheWay(k, r)'
  <2>1. proc[w].pc = "mark" /\ proc[w].job \in JobIds /\ proc[w].job[1] = "orch" /\ job' = job
    BY <1>3, OrchestratorRecords DEF Steady, MarkStatus
  <2>2. PICK k \in Keys : proc[w].job = <<"orch", k>>
    BY <2>1, JobIdParts DEF JobIds
  <2>3. Marks(w)
    BY <1>3, StatusSteps DEF Steady
  <2>4. proc'[w].pc = "hand" /\ proc'[w].job = <<"orch", k>> /\ proc'[w].run = r
    BY <1>3, <2>1, <2>2, <2>3 DEF Marks, Goes, AfterMark
  <2>5. job'[<<"orch", k>>].state = "active"
    BY <2>1, <2>2 DEF Steady, OneProcessorPerJob
  <2>6. k = r \/ row'[k].status = "absent"
    <3>1. ~LoadRun(w) /\ proc[w].job[2] = k
      BY <2>1, <2>2 DEF LoadRun, At
    <3>2. k = r \/ row[k].status = "absent"
      BY <1>3, <2>1, <3>1 DEF Watching, OrchestratorsAsk
    <3> QED
      BY <2>1, <3>1, <3>2, OwnRowAbsent
  <2>7. ASSUME NEW x \in Workers, proc'[x].pc # "idle", proc'[x].job = <<"orch", k>> PROVE x = w
    BY <2>4, <2>7 DEF OneProcessorPerJob
  <2> QED
    BY <2>4, <2>5, <2>6, <2>7 DEF OnTheWay
<1>4. CASE Running(r)
  <2>0. ~Settled(r) /\ row[r].op # None
    BY <1>4 DEF Running, Settled
  <2>1. CASE job[<<"poll", r>>].state \in {"waiting", "active"}
    <3>1. ASSUME NEW w \in Workers, proc[w].job = <<"poll", r>>, proc[w].pc \in {"complete", "threw"}
          PROVE  FALSE
      BY <1>a, <2>0, <3>1 DEF Watching, PollersAsk, Knows
    <3> QED
      BY <1>a, <2>1, <3>1, JobLives DEF Steady
  <2>2. ASSUME NEW k \in Keys, OnTheWay(k, r) PROVE \/ job'[<<"poll", r>>].state \in {"waiting", "active"}
                                                    \/ \E q \in Keys : OnTheWay(q, r)'
    <3>1. CASE \A x \in Workers : HandToPoller(x) => proc[x].job # <<"orch", k>>
      BY <1>4, <2>2, <3>1, OnTheWayStep DEF OnTheWay
    <3>2. ASSUME NEW x \in Workers, HandToPoller(x), proc[x].job = <<"orch", k>>
          PROVE  job'[<<"poll", r>>].state \in {"waiting", "active"}
      <4>1. proc[x].run = r /\ job' = Added(<<"poll", r>>, proc[x].op)
        BY <2>2, <3>2 DEF HandToPoller, At, OnTheWay, Ahead
      <4>2. job[<<"poll", r>>].state \in {"none", "waiting", "active"}
        <5>1. job[<<"poll", r>>] \in JobType
          BY <1>a DEF Steady, Typed, TypeOK
        <5> QED
          BY <2>0, <5>1 DEF Watching, JobsAsk, JobType
      <4> QED
        BY <1>a, <4>1, <4>2, AddedGives DEF Steady
    <3> QED
      BY <3>1, <3>2
  <2> QED
    BY <1>4, <2>1, <2>2 DEF Watching, RunningWatched
<1> QED
  BY <1>1, <1>2, <1>3, <1>4

(* A running operation is watched, under crashes, rate limits, refusals,      *)
(* cancels, expired jobs and operations that end badly: the job that started  *)
(* it, or the one that found it in its row, comes to enqueue the poller       *)
(* before it can be done, and the poller job is done only when the operation  *)
(* or the run has ended.  The troubles the theorem excludes are those that    *)
(* end a job in between, or replace the operation: an error or a time-out may *)
(* use the last attempt, a lapsed lease lets two orchestrators record one     *)
(* each, and a retry forgets an operation whose poller is done.               *)
THEOREM RunningIsWatched ==
    Trouble \cap {"opfail", "throw", "timeout", "lapse"} = {} /\ Spec => []RunningOpIsWatched
<1> SUFFICES ASSUME Trouble \cap {"opfail", "throw", "timeout", "lapse"} = {}
             PROVE  Spec => []RunningOpIsWatched
  OBVIOUS
<1>1. Init => OneProcessorPerJob /\ NoRetries /\ SectionLocked /\ StartsFresh /\ Watching
  <2> SUFFICES ASSUME Init
               PROVE  OneProcessorPerJob /\ NoRetries /\ SectionLocked /\ StartsFresh /\ Watching
    OBVIOUS
  <2>1. /\ \A w \in Workers : proc[w].pc = "idle"
        /\ \A r \in Runs : row[r].op = None
        /\ \A j \in JobIds : job[j].state = "none"
        /\ \A o \in Ops : shopify[o] = "unused"
    BY DEF Init, Idle
  <2>2. OneProcessorPerJob /\ NoRetries /\ SectionLocked /\ StartsFresh
    BY <2>1 DEF OneProcessorPerJob, NoRetries, SectionLocked, Outside, StartsFresh, Starting
  <2>3. \A r \in Runs : <<"poll", r>> \in JobIds
    BY DEF JobIds
  <2> QED
    BY <2>1, <2>2, <2>3 DEF Watching, JobsAsk, PollersAsk, OrchestratorsAsk, RunningWatched, Running
<1>2. Typed /\ OneProcessorPerJob /\ [Next]_vars => OneProcessorPerJob'
  BY OneProcessorPerJobStep DEF vars, OneProcessorPerJob
<1>3. Typed /\ OpsGiven /\ NoRetries /\ [Next]_vars => NoRetries'
  BY NoRetriesStep DEF vars, NoRetries
<1>4. Typed /\ SectionLocked /\ [Next]_vars => SectionLocked'
  BY SectionLockedStep DEF vars, SectionLocked
<1>5. Typed /\ SectionLocked /\ StartsFresh /\ [Next]_vars => StartsFresh'
  BY StartsFreshStep DEF vars, StartsFresh, Starting
<1>6. Steady <=> /\ Typed /\ RowsExist /\ OpsGiven /\ OneActiveRun
                 /\ OneProcessorPerJob /\ NoRetries /\ SectionLocked /\ StartsFresh
  BY DEF Steady
<1>7. Steady /\ Watching /\ OneProcessorPerJob' /\ [Next]_vars => Watching'
  <2>1. CASE Next
    BY <2>1, JobsAskStep, PollersAskStep, OrchestratorsAskStep, RunningWatchedStep DEF Watching
  <2>2. CASE UNCHANGED vars
    <3>1. UNCHANGED <<row, job, proc, shopify>>
      BY <2>2 DEF vars
    <3>2. (JobsAsk => JobsAsk') /\ (PollersAsk => PollersAsk')
      BY <3>1 DEF JobsAsk, PollersAsk, Settled
    <3>3. OrchestratorsAsk => OrchestratorsAsk'
      BY <3>1 DEF OrchestratorsAsk
    <3>4. RunningWatched => RunningWatched'
      <4>1. \A r \in Runs : Running(r)' => Running(r)
        BY <3>1 DEF Running
      <4>2. \A r \in Runs, k \in Keys : OnTheWay(k, r) => OnTheWay(k, r)'
        BY <3>1 DEF OnTheWay
      <4>3. job' = job
        BY <3>1
      <4> QED
        BY <4>1, <4>2, <4>3 DEF RunningWatched
    <3> QED
      BY <3>2, <3>3, <3>4 DEF Watching
  <2> QED
    BY <2>1, <2>2
<1>8. Watching => RunningOpIsWatched
  BY DEF Watching, RunningWatched, Running, OnTheWay, RunningOpIsWatched
<1> QED
  BY <1>1, <1>2, <1>3, <1>4, <1>5, <1>6, <1>7, <1>8, TypedInvariant, OneActive, RunsHaveRows, PTL
  DEF Spec

-----------------------------------------------------------------------------
(* A shop without uploads whose processors run to their end, in their time    *)
(* and under their lock.  Operations may fail and be retried, but then those  *)
(* of queries: the retry of a mutation throws before it enqueues anything.    *)
Undisturbed ==
    /\ Uploads = {}
    /\ MutationKeys = {} \/ "opfail" \notin Trouble
    /\ Trouble \cap {"crash", "throw", "timeout", "lapse"} = {}

OnlyQueriesRetry ==
    /\ MutationKeys = {} => \A r \in Runs : ~row[r].mut
    /\ MutationKeys = {} \/ NoRetries

Calm ==
    /\ Typed /\ RowsExist /\ OpsGiven /\ OneActiveRun /\ OneProcessorPerJob
    /\ SectionLocked /\ StartsFresh /\ OnlyQueriesRetry

(* A run becomes one of a mutation by the contract of a mutation's key.       *)
LEMMA MutStays ==
    ASSUME Typed, Next, MutationKeys = {}, NEW r \in Runs, ~row[r].mut
    PROVE  ~row'[r].mut
<1>a. /\ row \in [Runs -> RowType] /\ row[r] \in RowType
      /\ \A w \in Workers : proc[w].pc # "idle" => proc[w].run \in Runs
      /\ \A q \in Runs : row[q] \in RowType
  BY DEF Typed, TypeOK, Knows
<1>b. ASSUME NEW q \in Runs, NEW new \in RowType, new.mut = row[q].mut, row' = [row EXCEPT ![q] = new]
      PROVE  row'[r].mut = row[r].mut
  BY <1>a, <1>b
<1>1. CASE UNCHANGED row
  BY <1>1
<1>2. ASSUME NEW u \in Uploads, Upload(u) PROVE ~row'[r].mut
  <2>1. row' = [row EXCEPT ![u] = [row[u] EXCEPT !.status = "running"]] /\ u \in Runs
    BY <1>2 DEF Upload, Runs
  <2> QED
    BY <1>a, <2>1 DEF RowType
<1>3. CASE CancelWrite
  <2>1. row' = [row EXCEPT ![cancel.run] = [row[cancel.run] EXCEPT !.status = "cancelled"]]
    BY <1>3 DEF CancelWrite
  <2> QED
    BY <1>a, <2>1 DEF RowType
<1>4. ASSUME NEW w \in Workers, MarkStatus(w) PROVE ~row'[r].mut
  <2> DEFINE q == proc[w].run
             recorded == IF proc[w].goal = "running" THEN proc[w].op ELSE row[q].op
             new == [row[q] EXCEPT !.status = proc[w].goal, !.op = recorded]
  <2>1. q \in Runs /\ row[q] \in RowType
    BY <1>4, <1>a DEF MarkStatus
  <2>2. row' = row \/ row' = [row EXCEPT ![q] = new]
    BY <1>4 DEF MarkStatus
  <2>3. new.mut = row[q].mut
    BY <2>1 DEF RowType
  <2> HIDE DEF new
  <2> QED
    BY <1>a, <2>1, <2>2, <2>3
<1>5. ASSUME NEW w \in Workers, LoadRun(w) PROVE ~row'[r].mut
  <2>1. PICK q \in Runs : Loads(w, q)
    BY <1>5, LoadsOne
  <2> DEFINE k == proc[w].job[2]
  <2>2. row' = row \/ (row' = [row EXCEPT ![k] = [row[k] EXCEPT !.status = "pending"]] /\ k \in Keys)
    BY <2>1 DEF Loads
  <2> QED
    BY <1>a, <2>2 DEF RowType, Runs
<1>6. ASSUME NEW w \in Workers, PatchContract(w) PROVE ~row'[r].mut
  <2> DEFINE q == proc[w].run
  <2>1. /\ row' = [row EXCEPT ![q] = [row[q] EXCEPT !.mut = row[q].mut \/ proc[w].job[2] \in MutationKeys]]
        /\ q \in Runs
    BY <1>6, <1>a DEF PatchContract, At
  <2> QED
    BY <1>a, <2>1 DEF RowType
<1>7. ASSUME NEW w \in Workers, PollTerminal(w) PROVE ~row'[r].mut
  <2> DEFINE q == proc[w].run
  <2>1. PICK p : row' = [row EXCEPT ![q] = [row[q] EXCEPT !.partial = p]]
    BY <1>7 DEF PollTerminal
  <2>2. q \in Runs
    BY <1>7, <1>a DEF PollTerminal, At
  <2> QED
    BY <1>a, <2>1, <2>2 DEF RowType
<1>8. ASSUME NEW w \in Workers, RequestRetry(w) PROVE ~row'[r].mut
  <2> DEFINE q == proc[w].run
             again == row[q].retry + 1
             new == [row[q] EXCEPT !.status = "pending", !.op = None, !.retry = again]
  <2>1. q \in Runs /\ row[q] \in RowType
    BY <1>8, <1>a DEF RequestRetry, At
  <2>2. row' = row \/ row' = [row EXCEPT ![q] = new]
    BY <1>8 DEF RequestRetry
  <2>3. new.mut = row[q].mut
    BY <2>1 DEF RowType
  <2> HIDE DEF new
  <2> QED
    BY <1>a, <2>1, <2>2, <2>3
<1>9. ASSUME NEW w \in Workers, MergeStaging(w) \/ ErrorRateAbort(w) PROVE ~row'[r].mut
  <2> DEFINE q == proc[w].run
  <2>1. \/ row' = [row EXCEPT ![q] = [row[q] EXCEPT !.merged = TRUE]]
        \/ row' = [row EXCEPT ![q] = [row[q] EXCEPT !.status = "failed"]]
    BY <1>9 DEF MergeStaging, ErrorRateAbort
  <2>2. q \in Runs
    BY <1>9, <1>a DEF MergeStaging, ErrorRateAbort, At
  <2> QED
    BY <1>a, <2>1, <2>2 DEF RowType
<1> QED
  BY <1>1, <1>2, <1>3, <1>4, <1>5, <1>6, <1>7, <1>8, <1>9, RowWriters

LEMMA OnlyQueriesRetryStep ==
    ASSUME Typed, OpsGiven, OnlyQueriesRetry, Next, Undisturbed
    PROVE  OnlyQueriesRetry'
<1>1. MutationKeys = {} => \A r \in Runs : ~row'[r].mut
  BY MutStays DEF OnlyQueriesRetry
<1>2. MutationKeys # {} => NoRetries'
  BY NoRetriesStep DEF OnlyQueriesRetry, Undisturbed
<1> QED
  BY <1>1, <1>2 DEF OnlyQueriesRetry

(* The steps of a poller from the classification of a failure to its end.     *)
LEMMA RetrySteps ==
    ASSUME Calm, Next, Undisturbed, NEW x \in Workers, proc'[x].pc # "idle",
           proc[x].job[1] = "poll", proc[x].pc \in {"decide", "reset", "requeue", "salvaged"}
    PROVE  \/ proc'[x] = proc[x]
           \/ proc[x].pc = "decide" /\ proc'[x].pc = "reset"
           \/ proc[x].pc = "decide" /\ proc'[x].pc = "check" /\ proc'[x].goal \in {"completed", "failed"}
           \/ proc[x].pc = "reset" /\ proc'[x].pc = "requeue"
           \/ proc[x].pc = "reset" /\ proc'[x].pc = "threw" /\ row' = row
           \/ proc[x].pc \in {"requeue", "salvaged"} /\ proc'[x].pc = "complete"
<1>a. MutationKeys = {}
  BY DEF Calm, OnlyQueriesRetry, NoRetries
<1>b. Typed /\ proc \in [Workers -> ProcType] /\ proc[x] \in ProcType
  BY DEF Calm, Typed, TypeOK
<1>1. ASSUME (\E j \in JobIds : Take(x, j)) \/ Throw(x) \/ Crash(x) \/ TimeOut(x) PROVE FALSE
  BY <1>1 DEF Take, Throw, Crash, TimeOut, Fault, Undisturbed
<1>2. ASSUME WorkerStep(x) PROVE Decide(x) \/ RequestRetry(x) \/ RequeueOrchestrator(x) \/ Salvaged(x)
  BY <1>2 DEF WorkerStep, CheckTransition, MarkStatus, Orchestrate, AcquireLock, LoadRun,
     PatchContract, StartAccepted, StartRateLimited, StartRefused, HandToPoller, Catch, Poll,
     PollLoad, PollTimedOut, PollNotReady, PollCompleted, PollTerminal, HandOver, Ingest, Stage,
     MergeStaging, ReconcileLines, ErrorRateAbort, Finish, Complete, Rethrow, Postpone, At
<1>3. CASE Decide(x)
  <2>1. proc[x].pc = "decide" /\ (Goto(x, "reset") \/ GotoMark(x, "completed") \/ GotoMark(x, "failed"))
    BY <1>3 DEF Decide, At
  <2> QED
    BY <1>b, <2>1, GotoGoes, GotoMarkAims DEF Goes, Aims
<1>4. CASE RequestRetry(x)
  <2>1. proc[x].pc = "reset" /\ (Goto(x, "requeue") \/ (Goto(x, "threw") /\ row' = row))
    BY <1>4 DEF RequestRetry, At
  <2> QED
    BY <1>b, <2>1, GotoGoes DEF Goes
<1>5. CASE RequeueOrchestrator(x) \/ Salvaged(x)
  <2>1. proc[x].pc \in {"requeue", "salvaged"} /\ Goto(x, "complete")
    BY <1>a, <1>5 DEF RequeueOrchestrator, Salvaged, At
  <2> QED
    BY <1>b, <2>1, GotoGoes DEF Goes
<1> QED
  BY <1>b, <1>1, <1>2, <1>3, <1>4, <1>5, OwnSteps

-----------------------------------------------------------------------------
(* The poller of a run asks about the operation the run records, until it has *)
(* made the run forget it; it retries what failed, and hands over what is     *)
(* completed.                                                                 *)
Retriable(o) == shopify[o] \in {"transient", "partial"}

PollsFollow ==
    /\ \A r \in Runs : job[<<"poll", r>>].state = "waiting" => job[<<"poll", r>>].op = row[r].op
    /\ \A w \in Workers : proc[w].pc # "idle" /\ proc[w].job[1] = "poll" =>
          /\ proc[w].op = job[proc[w].job].op
          /\ proc[w].pc \notin {"requeue", "complete"} => row[proc[w].run].op = proc[w].op
          /\ proc[w].pc \in {"decide", "reset"} => Retriable(proc[w].op)
          /\ proc[w].pc = "hand" => shopify[proc[w].op] = "completed"

(* The poller of run r is done, or at one of the last steps in pcs.           *)
Past(r, pcs) ==
    \/ job[<<"poll", r>>].state = "done"
    \/ \E w \in Workers : proc[w].pc \in pcs /\ proc[w].job = <<"poll", r>>

(* An orchestrator hands over the operation its run records, unless the       *)
(* poller of the run has made it forget that operation meanwhile: then its    *)
(* hand-over is ignored.                                                      *)
HandsFollow ==
    \A w \in Workers : proc[w].pc # "idle" /\ proc[w].job[1] = "orch" =>
        (proc[w].pc = "hand" \/ (proc[w].pc = "patch" /\ proc[w].op # None) =>
            row[proc[w].run].op = proc[w].op \/ Past(proc[w].run, {"requeue", "complete"}))

Ready(r) == row[r].op # None /\ shopify[row[r].op] = "completed"

(* A result is ingested, or reconciled, when its operation is completed and   *)
(* its poller has nothing more to do.                                         *)
ResultsReady ==
    \A r \in Runs, t \in {"ingest", "reconcile"} :
        /\ job[<<t, r>>].state # "none" => Ready(r)
        /\ job[<<t, r>>].state \in {"waiting", "active"} => Past(r, {"complete"})

IngestRuns == \A r \in Runs : row[r].status \in {"downloading", "processing"} => Ready(r)

NoLatePolling ==
    \A w \in Workers :
        proc[w].pc = "mark" /\ proc[w].job[1] = "poll" /\ proc[w].goal = "polling" =>
            row[proc[w].run].status \notin {"downloading", "processing"}

Following == PollsFollow /\ HandsFollow /\ ResultsReady /\ IngestRuns /\ NoLatePolling

(* A run forgets its operation by the retry of its poller only, and only an   *)
(* operation that failed.                                                     *)
LEMMA OpGoes ==
    ASSUME Calm, PollsFollow, Next, NEW r \in Runs, row[r].op # None, row'[r].op # row[r].op
    PROVE  /\ Retriable(row[r].op) /\ row[r].op \in Ops
           /\ \E w \in Workers : /\ proc[w].job = <<"poll", r>> /\ proc[w].run = r
                                 /\ proc[w].pc = "reset" /\ proc'[w].pc = "requeue"
                                 /\ proc'[w].job = <<"poll", r>>
<1>1. RowChange(r)
  BY RowChanges DEF Calm
<1>2. ASSUME NEW w \in Workers, MarkStatus(w), proc[w].goal = "running", proc[w].run = r PROVE FALSE
  BY <1>2, Recorder DEF Calm, StartsFresh
<1>3. PICK w \in Workers : RequestRetry(w) /\ proc[w].run = r
  BY <1>1, <1>2 DEF RowChange
<1>4. proc[w].pc = "reset" /\ proc[w].job[1] = "poll" /\ Goto(w, "requeue")
  BY <1>3 DEF RequestRetry, At
<1>5. proc[w].job = <<"poll", r>>
  BY <1>3, <1>4, PollJobs DEF Calm, Typed, Knows
<1>6. proc'[w].pc = "requeue" /\ proc'[w].job = <<"poll", r>>
  BY <1>4, <1>5, GotoGoes DEF Calm, Goes
<1>7. Retriable(row[r].op) /\ row[r].op \in Ops
  BY <1>3, <1>4 DEF PollsFollow, Calm, Typed, TypeOK, RowType
<1> QED
  BY <1>3, <1>4, <1>5, <1>6, <1>7

(* What Shopify has answered for good stays.                                  *)
LEMMA AnswerStays ==
    ASSUME Typed, Next, NEW o \in Ops, shopify[o] \notin {"unused", "running"}
    PROVE  shopify'[o] = shopify[o]
BY ShopifySteps DEF ShopifyStep

LEMMA ReadyStays ==
    ASSUME Calm, PollsFollow, Next, NEW r \in Runs, Ready(r)
    PROVE  Ready(r)'
<1>1. row[r].op \in Ops /\ Typed
  BY DEF Ready, Calm, Typed, TypeOK, RowType
<1>2. row'[r].op = row[r].op
  BY OpGoes DEF Ready, Retriable
<1> QED
  BY <1>1, <1>2, AnswerStays DEF Ready

LEMMA LastSteps ==
    ASSUME Typed, Next, Undisturbed, NEW w \in Workers, proc[w].pc \in {"requeue", "complete"}
    PROVE  \/ proc'[w] = proc[w]
           \/ proc[w].pc = "requeue" /\ RequeueOrchestrator(w)
           \/ proc[w].pc = "complete" /\ Complete(w)
<1>1. ASSUME NEW i \in JobIds, Take(w, i) PROVE FALSE
  BY <1>1 DEF Take
<1>2. ASSUME Throw(w) \/ Crash(w) \/ TimeOut(w) PROVE FALSE
  BY <1>2 DEF Throw, Crash, TimeOut, Fault, Undisturbed
<1>3. ASSUME WorkerStep(w) PROVE RequeueOrchestrator(w) \/ Complete(w)
  BY <1>3 DEF WorkerStep, CheckTransition, MarkStatus, Orchestrate, AcquireLock, LoadRun,
     PatchContract, StartAccepted, StartRateLimited, StartRefused, HandToPoller, Catch, Poll,
     PollLoad, PollTimedOut, PollNotReady, PollCompleted, PollTerminal, Decide, RequestRetry,
     HandOver, Salvaged, Ingest, Stage, MergeStaging, ReconcileLines, ErrorRateAbort, Finish,
     Rethrow, Postpone, At
<1> QED
  BY <1>1, <1>2, <1>3, OwnSteps DEF RequeueOrchestrator, Complete, At

LEMMA PastStays ==
    ASSUME Calm, Next, Undisturbed, NEW r \in Runs,
           NEW pcs \in {{"complete"}, {"requeue", "complete"}}, Past(r, pcs), ~Expire(<<"poll", r>>)
    PROVE  Past(r, pcs)'
<1> DEFINE j == <<"poll", r>>
<1>0. j \in JobIds /\ j[1] = "poll" /\ Typed
  BY DEF JobIds, Calm
<1>a. \A w \in Workers : proc[w].pc # "idle" /\ proc[w].job = j =>
         job[j].state = "active" /\ ~proc[w].lost
  BY DEF Calm, OneProcessorPerJob
<1> HIDE DEF j
<1>1. CASE job[j].state = "done"
  <2>1. job'[j].state = "done"
    BY <1>0, <1>1, <1>a, JobSteps DEF JobStep, j
  <2> QED
    BY <2>1 DEF Past, j
<1>2. ASSUME NEW w \in Workers, proc[w].pc \in pcs, proc[w].job = j PROVE Past(r, pcs)'
  <2>0. proc[w].pc \in {"requeue", "complete"}
    BY <1>2
  <2>1. CASE proc'[w] = proc[w]
    BY <1>2, <2>1 DEF Past, j
  <2>2. CASE proc[w].pc = "requeue" /\ RequeueOrchestrator(w)
    <3>1. MutationKeys = {} /\ "complete" \in pcs
      BY <1>0, <1>2, <2>2 DEF Calm, OnlyQueriesRetry, NoRetries
    <3>2. Goto(w, "complete")
      BY <2>2, <3>1 DEF RequeueOrchestrator
    <3>3. proc'[w].pc = "complete" /\ proc'[w].job = j
      BY <1>0, <1>2, <3>2, GotoGoes DEF Goes
    <3> QED
      BY <3>1, <3>3 DEF Past, j
  <2>3. CASE Complete(w)
    <3>1. job' = [job EXCEPT ![j].state = "done"]
      BY <1>a, <1>2, <2>0, <2>3 DEF Complete, Settle
    <3>2. job'[j].state = "done"
      BY <1>0, <3>1 DEF Typed, TypeOK, JobType
    <3> QED
      BY <3>2 DEF Past, j
  <2> QED
    BY <1>0, <2>0, <2>1, <2>2, <2>3, LastSteps
<1> QED
  BY <1>1, <1>2 DEF Past, j

LEMMA PollsFollowStep ==
    ASSUME Calm, PollsFollow, HandsFollow, Next, Undisturbed
    PROVE  PollsFollow'
<1>a. Typed /\ OneProcessorPerJob
  BY DEF Calm
<1>1. ASSUME NEW r \in Runs, job'[<<"poll", r>>].state = "waiting"
      PROVE  job'[<<"poll", r>>].op = row'[r].op
  <2> DEFINE j == <<"poll", r>>
  <2>0. j \in JobIds /\ j[1] = "poll" /\ j[2] = r
    BY DEF JobIds
  <2>a. \A w \in Workers : proc[w].pc # "idle" /\ proc[w].job = j => job[j].state = "active"
    BY <1>a DEF OneProcessorPerJob
  <2>b. job[j].state # "none" => job[j].op # None
    BY DEF Calm, OpsGiven
  <2>c. job[j].state = "waiting" => job[j].op = row[r].op
    BY DEF PollsFollow
  <2> HIDE DEF j
  <2>1. CASE job'[j] = job[j]
    <3>1. ASSUME row'[r].op # row[r].op PROVE FALSE
      <4>1. PICK w \in Workers : proc[w].job = j /\ proc[w].pc = "reset"
        BY <1>1, <2>1, <2>b, <2>c, <3>1, OpGoes DEF j
      <4> QED
        BY <1>1, <2>1, <2>a, <4>1 DEF j
    <3> QED
      BY <1>1, <2>1, <2>c, <3>1 DEF j
  <2>2. CASE job[j].state = "none" /\ Adds(j)
    <3>1. PICK w \in Workers : HandToPoller(w) /\ j = <<"poll", proc[w].run>> /\ job'[j].op = proc[w].op
      BY <2>0, <2>2 DEF Adds
    <3>2. proc[w].run = r /\ row' = row /\ proc[w].pc = "hand" /\ proc[w].job[1] = "orch"
      BY <2>0, <3>1 DEF HandToPoller, At
    <3>3. ~Past(r, {"requeue", "complete"})
      BY <2>2, <2>a DEF Past, j
    <3>4. row[r].op = proc[w].op
      BY <3>2, <3>3 DEF HandsFollow
    <3> QED
      BY <3>1, <3>2, <3>4 DEF j
  <2>3. ASSUME NEW w \in Workers, proc[w].pc # "idle", proc[w].job = j, Rethrow(w) \/ Postpone(w)
        PROVE  job[j].op = row'[r].op
    <3>1. proc[w].pc \in {"threw", "later"} /\ row' = row /\ proc[w].run = r
      BY <1>a, <2>0, <2>3 DEF Rethrow, Postpone, Settle, Typed, Knows
    <3> QED
      BY <2>0, <2>3, <3>1 DEF PollsFollow
  <2>4. ASSUME NEW w \in Workers, TimeOut(w) \/ Crash(w) PROVE FALSE
    BY <2>4 DEF TimeOut, Crash, Fault, Undisturbed
  <2> QED
    BY <1>1, <1>a, <2>0, <2>1, <2>2, <2>3, <2>4, JobSteps DEF JobStep, j
<1>2. ASSUME NEW x \in Workers, proc'[x].pc # "idle", proc'[x].job[1] = "poll"
      PROVE  /\ proc'[x].op = job'[proc'[x].job].op
             /\ proc'[x].pc \notin {"requeue", "complete"} => row'[proc'[x].run].op = proc'[x].op
             /\ proc'[x].pc \in {"decide", "reset"} => shopify'[proc'[x].op] \in {"transient", "partial"}
             /\ proc'[x].pc = "hand" => shopify'[proc'[x].op] = "completed"
  <2>1. PollStep(x) /\ (proc[x].pc # "idle" => proc[x].job[1] = "poll")
    BY <1>2, <1>a, PollSteps
  <2>2. ASSUME NEW i \in JobIds, Take(x, i), proc'[x].pc = "load", proc'[x].job = i,
               proc'[x].run = i[2], proc'[x].op = job[i].op
        PROVE  proc'[x].op = job'[i].op /\ row'[i[2]].op = proc'[x].op
    <3>1. i = <<"poll", i[2]>> /\ i[2] \in Runs
      BY <1>2, <2>2, PollJobs
    <3>2. job[i].state = "waiting" /\ row' = row /\ job' = [job EXCEPT ![i].state = "active"]
      BY <2>2 DEF Take
    <3>3. job'[i].op = job[i].op
      BY <1>a, <3>2 DEF Typed, TypeOK, JobType
    <3> QED
      BY <2>2, <3>1, <3>2, <3>3 DEF PollsFollow
  <2>3. CASE proc[x].pc # "idle"
    <3>1. PICK r \in Runs : proc[x].run = r /\ proc[x].job = <<"poll", r>>
      BY <1>a, <2>1, <2>3, PollJobs DEF Typed, Knows
    <3> DEFINE j == <<"poll", r>>
    <3>2. j \in JobIds /\ proc[x].op \in Ops /\ job[j].state = "active"
      BY <1>a, <2>1, <2>3, <3>1 DEF JobIds, OneProcessorPerJob, Calm, OpsGiven, Typed, TypeOK, ProcType
    <3> HIDE DEF j
    <3>3. job'[j].op = job[j].op
      BY <1>a, <3>2, JobSteps DEF JobStep
    <3>4. proc'[x].job = proc[x].job /\ proc'[x].run = r /\ proc'[x].op = proc[x].op
      <4>1. ASSUME NEW i \in JobIds, Take(x, i) PROVE FALSE
        BY <2>3, <4>1 DEF Take
      <4> QED
        BY <2>1, <3>1, <4>1 DEF PollStep, Goes, Aims, Checks, Marks
    <3>5. proc'[x].pc \in {"requeue", "complete"} \/ proc[x].pc \notin {"requeue", "complete"}
      <4>1. CASE proc[x].pc = "requeue"
        BY <1>2, <2>1, <4>1, RetrySteps
      <4>2. CASE proc[x].pc = "complete"
        <5>1. ASSUME Complete(x) PROVE FALSE
          BY <1>2, <1>a, <5>1 DEF Complete, Settle, Idle, Typed, TypeOK
        <5> QED
          BY <1>a, <4>2, <5>1, LastSteps
      <4> QED
        BY <4>1, <4>2
    <3>6. proc'[x].pc \notin {"requeue", "complete"} => row'[r].op = proc[x].op
      <4> SUFFICES ASSUME proc'[x].pc \notin {"requeue", "complete"} PROVE row'[r].op = proc[x].op
        OBVIOUS
      <4>1. row[r].op = proc[x].op /\ row[r].op # None
        BY <2>1, <2>3, <3>1, <3>2, <3>5, NamesAssumption DEF PollsFollow
      <4>2. ASSUME NEW w \in Workers, proc[w].job = j, proc[w].pc = "reset", proc'[w].pc = "requeue"
            PROVE  FALSE
        BY <1>a, <2>3, <3>1, <4>2 DEF OneProcessorPerJob, j
      <4> QED
        BY <4>1, <4>2, OpGoes DEF j
    <3>7. /\ proc'[x].pc \in {"decide", "reset"} =>
                proc[x].pc \in {"decide", "reset"} \/ Retriable(proc[x].op)
          /\ proc'[x].pc = "hand" =>
                proc[x].pc = "hand" \/ shopify[proc[x].op] = "completed"
      <4>1. CASE Checks(x)
        <5>1. proc'[x].pc \in {"mark", "ask", "threw"}
          BY <2>1, <2>3, <4>1 DEF Checks, Goes, AfterRefusal
        <5> QED
          BY <5>1
      <4>2. CASE Marks(x)
        <5>1. proc[x].pc = "mark" /\ proc[x].goal \in {"polling", "completed", "failed"}
          BY <1>a, <2>1, <2>3, <4>2 DEF Marks, Goes, Typed, Knows
        <5>2. proc'[x].pc \in {"ask", "salvaged", "complete", "threw"}
          BY <2>1, <4>2, <5>1 DEF Marks, Goes, AfterMark, AfterThrow
        <5> QED
          BY <5>2
      <4>3. CASE proc[x].pc \in {"decide", "reset", "requeue", "salvaged"}
        BY <1>2, <2>1, <4>3, RetrySteps
      <4>4. Trouble \cap {"throw", "timeout"} = {}
        BY DEF Undisturbed
      <4>5. ASSUME NEW i \in JobIds, Take(x, i) PROVE FALSE
        BY <2>3, <4>5 DEF Take
      <4> QED
        BY <2>1, <4>1, <4>2, <4>3, <4>4, <4>5 DEF PollStep, Goes, Aims, Retriable
    <3>8. /\ proc[x].pc \in {"decide", "reset"} => Retriable(proc[x].op)
          /\ proc[x].pc = "hand" => shopify[proc[x].op] = "completed"
          /\ proc[x].op = job[j].op
      BY <2>1, <2>3, <3>1 DEF PollsFollow, j
    <3> QED
      BY <1>a, <3>1, <3>2, <3>3, <3>4, <3>6, <3>7, <3>8, AnswerStays DEF Retriable, j
  <2>4. CASE proc[x].pc = "idle"
    BY <1>2, <2>1, <2>2, <2>4 DEF PollStep, Goes, Aims, Checks, Marks
  <2> QED
    BY <2>3, <2>4
<1> QED
  BY <1>1, <1>2 DEF PollsFollow, Retriable

LEMMA HandsFollowStep ==
    ASSUME Calm, PollsFollow, HandsFollow, Next, Undisturbed
    PROVE  HandsFollow'
<1> SUFFICES ASSUME NEW x \in Workers, proc'[x].pc # "idle", proc'[x].job[1] = "orch",
                    proc'[x].pc = "hand" \/ (proc'[x].pc = "patch" /\ proc'[x].op # None)
             PROVE  \/ row'[proc'[x].run].op = proc'[x].op
                    \/ job'[<<"poll", proc'[x].run>>].state = "done"
                    \/ \E w \in Workers : /\ proc'[w].pc \in {"requeue", "complete"}
                                          /\ proc'[w].job = <<"poll", proc'[x].run>>
  BY DEF HandsFollow, Past
<1>a. /\ Typed /\ proc \in [Workers -> ProcType] /\ proc[x] \in ProcType
      /\ proc[x].pc # "idle" => proc[x].run \in Runs
  BY DEF Calm, Typed, TypeOK, Knows
<1>1. OrchStep(x) /\ (proc[x].pc # "idle" => proc[x].job[1] = "orch")
  BY <1>a, OrchSteps
\* The row of run q records what x has, or its poller is past it.
<1>b. ASSUME NEW q \in Runs, row[q].op # None
      PROVE  \/ row'[q].op = row[q].op
             \/ \E w \in Workers : /\ proc'[w].pc \in {"requeue", "complete"}
                                   /\ proc'[w].job = <<"poll", q>>
  BY <1>b, OpGoes
<1>c. ASSUME proc[x].pc = "hand" \/ (proc[x].pc = "patch" /\ proc[x].op # None),
             proc'[x].op = proc[x].op, proc'[x].run = proc[x].run
      PROVE  \/ row'[proc'[x].run].op = proc'[x].op
             \/ job'[<<"poll", proc'[x].run>>].state = "done"
             \/ \E w \in Workers : /\ proc'[w].pc \in {"requeue", "complete"}
                                   /\ proc'[w].job = <<"poll", proc'[x].run>>
  <2>1. PICK q \in Runs : proc[x].run = q
    BY <1>a, <1>c
  <2>2. proc[x].op # None /\ (row[q].op = proc[x].op \/ Past(q, {"requeue", "complete"}))
    BY <1>1, <1>c, <2>1 DEF HandsFollow, Calm, OpsGiven
  <2>3. CASE row[q].op = proc[x].op
    BY <1>b, <1>c, <2>1, <2>2, <2>3
  <2>4. CASE Past(q, {"requeue", "complete"})
    <3>1. ~Expire(<<"poll", q>>)
      BY <1>c DEF Expire
    <3>2. Past(q, {"requeue", "complete"})'
      BY <2>4, <3>1, PastStays
    <3> QED
      BY <1>c, <2>1, <3>2 DEF Past
  <2> QED
    BY <2>2, <2>3, <2>4
<1>2. CASE LoadRun(x)
  <2>1. PICK q \in Runs : proc' = [proc EXCEPT ![x] = [proc[x] EXCEPT !.pc = "patch", !.run = q,
                                                                      !.op = row[q].op]]
    BY <1>2, <1>a, LoadsOne
  <2>2. proc'[x].run = q /\ proc'[x].op = row[q].op /\ proc'[x].pc = "patch"
    BY <1>a, <2>1 DEF ProcType
  <2> QED
    BY <1>b, <2>2
<1>3. CASE Marks(x)
  <2>1. /\ proc[x].pc = "mark" /\ proc'[x].pc # "patch" /\ proc'[x].run = proc[x].run
        /\ proc'[x].op = proc[x].op
        /\ proc'[x].pc = "hand" => row'[proc[x].run].op = proc[x].op
    BY <1>1, <1>3 DEF Marks, Goes, AfterMark, AfterThrow
  <2> QED
    BY <2>1
<1>4. ASSUME Checks(x) PROVE FALSE
  <2>1. proc'[x].pc \in {"mark", "complete", "threw"}
    BY <1>1, <1>4 DEF Checks, Goes, AfterRefusal
  <2> QED
    BY <2>1
<1>5. Trouble \cap {"throw", "timeout"} = {}
  BY DEF Undisturbed
<1> QED
  BY <1>1, <1>c, <1>2, <1>3, <1>4, <1>5 DEF OrchStep, Goes

LEMMA ResultsReadyStep ==
    ASSUME Calm, PollsFollow, ResultsReady, Next, Undisturbed
    PROVE  ResultsReady'
<1> SUFFICES ASSUME NEW r \in Runs, NEW t \in {"ingest", "reconcile"}
             PROVE  /\ job'[<<t, r>>].state # "none" => Ready(r)'
                    /\ job'[<<t, r>>].state \in {"waiting", "active"} => Past(r, {"complete"})'
  BY DEF ResultsReady
<1> DEFINE j == <<t, r>>
<1>0. j \in JobIds /\ j[1] = t /\ j[2] = r /\ Typed
  BY DEF JobIds, Calm
<1>a. \A w \in Workers : proc[w].pc # "idle" /\ proc[w].job = j => job[j].state = "active"
  BY DEF Calm, OneProcessorPerJob
<1>b. /\ job[j].state # "none" => Ready(r)
      /\ job[j].state \in {"waiting", "active"} => Past(r, {"complete"})
  BY DEF ResultsReady
<1> HIDE DEF j
<1>1. ASSUME Adds(j), job[j].state = "none", job'[j].state = "waiting"
      PROVE  Ready(r)' /\ Past(r, {"complete"})'
  <2>2. PICK w \in Workers : (HandOver(w) \/ Salvaged(w)) /\ proc[w].run = r
    BY <1>0, <1>1 DEF Adds, Undisturbed
  <2>3. ASSUME Salvaged(w) PROVE FALSE
    <3>1. proc[w].pc = "salvaged" /\ proc[w].job[1] = "poll"
      BY <2>3 DEF Salvaged, At
    <3>2. MutationKeys = {}
      BY <3>1 DEF Calm, OnlyQueriesRetry, NoRetries
    <3>3. job' = job
      BY <2>2, <2>3, <3>2 DEF Salvaged, Calm, OnlyQueriesRetry
    <3> QED
      BY <1>1, <3>3
  <2>4. proc[w].pc = "hand" /\ proc[w].job[1] = "poll" /\ Goto(w, "complete") /\ UNCHANGED <<row, shopify>>
    BY <2>2, <2>3 DEF HandOver, At
  <2>5. proc[w].job = <<"poll", r>>
    BY <1>0, <2>2, <2>4, PollJobs DEF Typed, Knows
  <2>6. proc'[w].pc = "complete" /\ proc'[w].job = <<"poll", r>>
    BY <1>0, <2>4, <2>5, GotoGoes DEF Goes
  <2>7. Ready(r)
    BY <2>2, <2>4 DEF PollsFollow, Ready, Calm, OpsGiven
  <2> QED
    BY <2>4, <2>6, <2>7 DEF Ready, Past
<1>2. job'[j].state # "none" => Ready(r)'
  <2>1. CASE job[j].state # "none"
    BY <1>b, <2>1, ReadyStays
  <2>2. CASE job[j].state = "none"
    BY <1>0, <1>a, <1>1, <2>2, JobSteps DEF JobStep
  <2> QED
    BY <2>1, <2>2
<1>3. job'[j].state \in {"waiting", "active"} => Past(r, {"complete"})'
  <2>1. CASE job[j].state \in {"waiting", "active"}
    <3>1. ~Expire(<<"poll", r>>)
      BY <1>0, <2>1 DEF Expire
    <3> QED
      BY <1>b, <2>1, <3>1, PastStays
  <2>2. CASE job[j].state = "none"
    BY <1>0, <1>a, <1>1, <2>2, JobSteps DEF JobStep
  <2>3. CASE job[j].state = "done"
    BY <1>0, <1>a, <2>3, JobSteps DEF JobStep
  <2>4. job[j].state \in {"none", "waiting", "active", "done"}
    BY <1>0 DEF Typed, TypeOK, JobType
  <2> QED
    BY <2>1, <2>2, <2>3, <2>4
<1> QED
  BY <1>2, <1>3 DEF j

(* Who marks a run downloading or processing is the processor of its ingest,  *)
(* while the poller of the run has nothing more to do.                        *)
LEMMA IngestMarks ==
    ASSUME Calm, ResultsReady, NEW w \in Workers, MarkStatus(w),
           proc[w].goal \in {"downloading", "processing"}
    PROVE  Ready(proc[w].run) /\ Past(proc[w].run, {"complete"})
<1>1. Knows(proc[w]) /\ proc[w].pc = "mark"
  BY DEF Calm, Typed, MarkStatus
<1>2. proc[w].job = <<"ingest", proc[w].run>> /\ proc[w].run \in Runs
  BY <1>1, JobIdParts DEF Knows, JobIds
<1>3. job[<<"ingest", proc[w].run>>].state = "active"
  BY <1>1, <1>2 DEF Calm, OneProcessorPerJob
<1> QED
  BY <1>2, <1>3 DEF ResultsReady

LEMMA IngestRunsStep ==
    ASSUME Calm, PollsFollow, ResultsReady, IngestRuns, Next, Undisturbed
    PROVE  IngestRuns'
<1> SUFFICES ASSUME NEW r \in Runs, row'[r].status \in {"downloading", "processing"} PROVE Ready(r)'
  BY DEF IngestRuns
<1>1. CASE row[r].status \in {"downloading", "processing"}
  BY <1>1, ReadyStays DEF IngestRuns
<1>2. CASE row[r].status \notin {"downloading", "processing"}
  <2>1. PICK w \in Workers : MarkStatus(w) /\ proc[w].run = r /\ proc[w].goal = row'[r].status
    BY <1>2, RowChanges DEF RowChange, Calm
  <2>2. Ready(r)
    BY <2>1, IngestMarks
  <2> QED
    BY <2>2, ReadyStays
<1> QED
  BY <1>1, <1>2

LEMMA NoLatePollingStep ==
    ASSUME Calm, ResultsReady, NoLatePolling, Next, Undisturbed
    PROVE  NoLatePolling'
<1> SUFFICES ASSUME NEW x \in Workers, proc'[x].pc = "mark", proc'[x].job[1] = "poll",
                    proc'[x].goal = "polling",
                    row'[proc'[x].run].status \in {"downloading", "processing"}
             PROVE  FALSE
  BY DEF NoLatePolling
<1>0. Typed /\ Trouble \cap {"throw", "timeout"} = {}
  BY DEF Calm, Undisturbed
<1>1. PollStep(x) /\ (proc[x].pc # "idle" => proc[x].job[1] = "poll")
  BY <1>0, PollSteps
<1>2. CASE proc'[x] = proc[x]
  <2>1. PICK r \in Runs : proc[x].run = r /\ proc[x].job = <<"poll", r>>
    BY <1>0, <1>2, PollJobs DEF Typed, Knows
  <2>2. row[r].status \notin {"downloading", "processing"}
    BY <1>2, <2>1 DEF NoLatePolling
  <2>3. PICK w \in Workers : MarkStatus(w) /\ proc[w].run = r /\ proc[w].goal = row'[r].status
    BY <1>0, <1>2, <2>1, <2>2, RowChanges DEF RowChange
  <2>4. Past(r, {"complete"})
    BY <1>2, <2>1, <2>3, IngestMarks
  <2>5. job[<<"poll", r>>].state = "active"
        /\ \A v \in Workers : proc[v].pc # "idle" /\ proc[v].job = <<"poll", r>> => v = x
    BY <1>2, <2>1 DEF Calm, OneProcessorPerJob
  <2> QED
    BY <1>2, <2>4, <2>5 DEF Past
<1>3. ASSUME Checks(x), row' = row PROVE FALSE
  <2>1. /\ Goes(x, "check", "mark") /\ proc[x].goal \in Allowed(row[proc[x].run].status)
    BY <1>1, <1>3 DEF Checks, Goes, AfterRefusal
  <2>2. "polling" \notin Allowed("downloading") \cup Allowed("processing")
    BY DEF Allowed, EndedStatuses
  <2> QED
    BY <1>3, <2>1, <2>2 DEF Goes
<1>4. ASSUME Marks(x) PROVE FALSE
  <2>1. proc[x].pc = "mark" /\ proc[x].job[1] = "poll" /\ proc[x].goal = "polling"
    BY <1>1, <1>4 DEF Marks, Goes
  <2> QED
    BY <1>4, <2>1 DEF Marks, Goes, AfterMark, AfterThrow
<1>5. ASSUME proc[x].pc \in {"decide", "reset", "requeue", "salvaged"}, proc'[x] # proc[x] PROVE FALSE
  BY <1>1, <1>5, RetrySteps
<1> QED
  BY <1>0, <1>1, <1>2, <1>3, <1>4, <1>5 DEF PollStep, Goes, Aims

LEMMA FollowingInit == Init => OneProcessorPerJob /\ SectionLocked /\ StartsFresh
                                 /\ OnlyQueriesRetry /\ Following
<1> SUFFICES ASSUME Init
             PROVE  OneProcessorPerJob /\ SectionLocked /\ StartsFresh
                      /\ OnlyQueriesRetry /\ Following
  OBVIOUS
<1>1. /\ \A w \in Workers : proc[w].pc = "idle"
      /\ \A r \in Runs : row[r].op = None /\ row[r].status = "absent" /\ row[r].mut = FALSE
      /\ \A j \in JobIds : job[j].state = "none"
      /\ \A o \in Ops : shopify[o] = "unused"
  BY DEF Init, Idle
<1>2. \A r \in Runs, t \in {"poll", "ingest", "reconcile"} : <<t, r>> \in JobIds
  BY DEF JobIds
<1>3. OneProcessorPerJob /\ SectionLocked /\ StartsFresh /\ OnlyQueriesRetry
  BY <1>1 DEF OneProcessorPerJob, SectionLocked, StartsFresh, Starting, Outside,
     OnlyQueriesRetry, NoRetries
<1>4. PollsFollow /\ HandsFollow /\ NoLatePolling
  BY <1>1, <1>2 DEF PollsFollow, HandsFollow, NoLatePolling
<1>5. ResultsReady /\ IngestRuns
  BY <1>1, <1>2 DEF ResultsReady, IngestRuns
<1> QED
  BY <1>3, <1>4, <1>5 DEF Following

LEMMA FollowingStep ==
    ASSUME Calm, Following, [Next]_vars, Undisturbed
    PROVE  OneProcessorPerJob' /\ SectionLocked' /\ StartsFresh' /\ OnlyQueriesRetry' /\ Following'
<1>1. CASE Next
  <2>1. OneProcessorPerJob' /\ SectionLocked' /\ StartsFresh' /\ OnlyQueriesRetry'
    BY <1>1, OneProcessorPerJobStep, SectionLockedStep, StartsFreshStep, OnlyQueriesRetryStep
    DEF Calm, Undisturbed
  <2>2. Following'
    BY <1>1, PollsFollowStep, HandsFollowStep, ResultsReadyStep, IngestRunsStep,
       NoLatePollingStep DEF Following
  <2> QED
    BY <2>1, <2>2
<1>2. CASE UNCHANGED vars
  <2>1. UNCHANGED <<row, job, proc, shopify, lock>>
    BY <1>2 DEF vars
  <2>2. OneProcessorPerJob' /\ SectionLocked' /\ StartsFresh' /\ OnlyQueriesRetry'
    BY <2>1 DEF Calm, OneProcessorPerJob, SectionLocked, StartsFresh, Starting,
       OnlyQueriesRetry, NoRetries
  <2>3. PollsFollow' /\ HandsFollow' /\ NoLatePolling'
    <3>1. \A q \in Runs : Past(q, {"requeue", "complete"}) => Past(q, {"requeue", "complete"})'
      BY <2>1 DEF Past
    <3>2. PollsFollow' /\ NoLatePolling'
      BY <2>1 DEF Following, PollsFollow, NoLatePolling, Retriable
    <3>3. HandsFollow'
      BY <2>1 DEF Following, HandsFollow, Past
    <3> QED
      BY <3>2, <3>3
  <2>4. ResultsReady' /\ IngestRuns'
    <3>1. /\ \A r \in Runs : Past(r, {"complete"}) => Past(r, {"complete"})'
          /\ \A r \in Runs : Ready(r) => Ready(r)'
      BY <2>1 DEF Past, Ready
    <3> QED
      BY <2>1, <3>1 DEF Following, ResultsReady, IngestRuns
  <2> QED
    BY <2>2, <2>3, <2>4 DEF Following
<1> QED
  BY <1>1, <1>2

LEMMA FollowingInvariant == Undisturbed /\ Spec => [](Calm /\ Following)
<1>1. Calm <=> /\ Typed /\ RowsExist /\ OpsGiven /\ OneActiveRun
               /\ OneProcessorPerJob /\ SectionLocked /\ StartsFresh /\ OnlyQueriesRetry
  BY DEF Calm
<1> SUFFICES ASSUME Undisturbed PROVE Spec => [](Calm /\ Following)
  OBVIOUS
<1>2. Calm /\ Following /\ [Next]_vars =>
         OneProcessorPerJob' /\ SectionLocked' /\ StartsFresh' /\ OnlyQueriesRetry' /\ Following'
  BY FollowingStep
<1> QED
  BY <1>1, <1>2, FollowingInit, TypedInvariant, OneActive, RunsHaveRows, PTL DEF Spec

(* A run that its ingest works on does not fall back to an earlier status,    *)
(* although check and UPDATE of a status are two transactions, and pollers    *)
(* and orchestrators of the same run write theirs unconditionally: a result   *)
(* is handed over only for the operation the run records, and its poller is   *)
(* past its last status by then, until long after the ingest.  Cancels, error *)
(* rates, refusals, rate limits, retries and expired jobs are covered.        *)
THEOREM IngestKept == Undisturbed /\ Spec => IngestNotUndone
<1> SUFFICES ASSUME Undisturbed PROVE Spec => IngestNotUndone
  OBVIOUS
<1> DEFINE Kept == \A r \in Runs : row[r].status \in {"downloading", "processing"} =>
                       row'[r].status \notin {"pending", "running", "polling"}
<1>1. Calm /\ Following /\ [Next]_vars => [Kept]_vars
  <2> SUFFICES ASSUME Calm, Following, Next, NEW r \in Runs,
                      row[r].status \in {"downloading", "processing"},
                      row'[r].status \in {"pending", "running", "polling"}
               PROVE  FALSE
    OBVIOUS
  <2>0. Typed /\ Ready(r) /\ RowChange(r)
    BY RowChanges DEF Calm, Following, IngestRuns
  <2>1. ASSUME NEW w \in Workers, MarkStatus(w), proc[w].run = r,
               proc[w].goal \in {"pending", "running", "polling"}
        PROVE  FALSE
    <3>1. proc[w].goal # "pending"
      BY <2>0, <2>1, JobIdParts DEF MarkStatus, Typed, Knows
    <3>2. proc[w].goal # "running"
      BY <2>0, <2>1, Recorder DEF Calm, StartsFresh, Ready
    <3>3. proc[w].goal # "polling"
      BY <2>0, <2>1, PollerMarks DEF Following, NoLatePolling
    <3> QED
      BY <2>1, <3>1, <3>2, <3>3
  <2>2. ASSUME NEW w \in Workers, RequestRetry(w), proc[w].run = r PROVE FALSE
    <3>1. proc[w].pc = "reset" /\ proc[w].job[1] = "poll"
      BY <2>2 DEF RequestRetry, At
    <3>2. row[r].op = proc[w].op /\ Retriable(proc[w].op)
      BY <2>2, <3>1 DEF Following, PollsFollow
    <3> QED
      BY <2>0, <3>2 DEF Ready, Retriable
  <2> QED
    BY <2>0, <2>1, <2>2 DEF RowChange, Upload
<1> QED
  BY <1>1, FollowingInvariant, PTL DEF Spec, IngestNotUndone

-----------------------------------------------------------------------------
(* Without cancels, the run that an orchestrator has started an operation for *)
(* takes it: a run that records no operation is new, or reset by its poller,  *)
(* so that the check of the status passes, and so does the index.             *)
Straight ==
    /\ \A r \in Runs : row[r].op = None => row[r].status \in {"absent", "pending"}
    /\ \A w \in Workers : proc[w].pc # "idle" /\ proc[w].job[1] = "orch" =>
          /\ proc[w].pc # "catch"
          /\ proc[w].pc \in {"check", "mark"} => proc[w].goal = "running"
    /\ cancel.pc = "idle"

LEMMA NoCancels ==
    ASSUME Next, "cancel" \notin Trouble, cancel.pc = "idle"
    PROVE  cancel' = cancel /\ ~CancelWrite
<1>1. ~CancelShopify /\ ~CancelWrite /\ \A r \in Runs : ~CancelRead(r)
  BY DEF CancelShopify, CancelWrite, CancelRead, Fault
<1>2. ASSUME NEW w \in Workers, WorkerStep(w) PROVE cancel' = cancel
  BY <1>2 DEF WorkerStep, CheckTransition, MarkStatus, Orchestrate, AcquireLock, LoadRun,
     PatchContract, StartAccepted, StartRateLimited, StartRefused, HandToPoller, Catch, Poll,
     PollLoad, PollTimedOut, PollNotReady, PollCompleted, PollTerminal, Decide, RequestRetry,
     RequeueOrchestrator, HandOver, Salvaged, Ingest, Stage, MergeStaging, ReconcileLines,
     ErrorRateAbort, Finish, Complete, Rethrow, Postpone, Settle
<1>3. ASSUME \/ \E w \in Workers : (\E j \in JobIds : Take(w, j)) \/ Throw(w) \/ Crash(w) \/ TimeOut(w)
             \/ (\E k \in Keys : Start(k)) \/ (\E u \in Uploads : Upload(u))
             \/ (\E j \in JobIds : Expire(j)) \/ (\E o \in Ops : ShopifyEnds(o))
             \/ DeadLockExpires \/ LeaseLapses
      PROVE  cancel' = cancel
  BY <1>3 DEF Take, Throw, Crash, TimeOut, Start, Upload, Expire, ShopifyEnds,
     DeadLockExpires, LeaseLapses
<1> QED
  BY <1>1, <1>2, <1>3 DEF Next

(* The retry resets the run to pending.                                       *)
LEMMA RetryResets ==
    ASSUME Typed, NEW w \in Workers, RequestRetry(w), NEW r \in Runs, proc[w].run = r
    PROVE  row'[r].status = "pending" \/ row' = row
<1>1. row \in [Runs -> RowType] /\ row[r] \in RowType
  BY DEF Typed, TypeOK
<1>2. CASE IndexAllows(r, "pending")
  <2>1. PICK m : row' = [row EXCEPT ![r] = [row[r] EXCEPT !.status = "pending", !.op = None,
                                                          !.retry = m]]
    BY <1>2 DEF RequestRetry
  <2> QED
    BY <1>1, <2>1 DEF RowType
<1>3. CASE ~IndexAllows(r, "pending")
  BY <1>3 DEF RequestRetry
<1> QED
  BY <1>2, <1>3

LEMMA UnstartedStep ==
    ASSUME Calm, Following, Straight, Next, Undisturbed, "cancel" \notin Trouble,
           NEW r \in Runs, row'[r].op = None
    PROVE  row'[r].status \in {"absent", "pending"}
<1>0. Typed /\ RowChange(r) /\ ~CancelWrite /\ row[r] \in RowType
  BY RowChanges, NoCancels DEF Calm, Straight, Typed, TypeOK
<1>1. ASSUME NEW w \in Workers, MarkStatus(w), proc[w].run = r,
             row'[r].status # row[r].status \/ row'[r].op # row[r].op
      PROVE  FALSE
  <2>1. Knows(proc[w]) /\ proc[w].pc = "mark" /\ Marks(w)
    BY <1>0, <1>1, StatusSteps DEF Typed, MarkStatus
  <2>2. row'[r].op = IF proc[w].goal = "running" THEN proc[w].op ELSE row[r].op
    BY <1>1, <2>1 DEF Marks
  <2>3. CASE proc[w].job[1] = "orch"
    BY <2>1, <2>2, <2>3 DEF Straight, Calm, OpsGiven
  <2>4. CASE proc[w].job[1] = "poll"
    <3>1. proc[w].goal # "running"
      BY <2>1, <2>4 DEF Knows
    <3>2. row[r].op = proc[w].op /\ proc[w].op # None
      BY <1>1, <2>1, <2>4 DEF Following, PollsFollow, Calm, OpsGiven
    <3> QED
      BY <2>2, <3>1, <3>2
  <2>5. CASE proc[w].job[1] \in {"ingest", "reconcile"}
    <3>1. proc[w].goal # "running" /\ proc[w].job[1] = "ingest"
      BY <2>1, <2>5 DEF Knows
    <3>2. proc[w].goal \in {"downloading", "processing", "completed"}
      BY <2>1, <3>1 DEF Knows
    <3>3. proc[w].job = <<"ingest", r>> /\ job[<<"ingest", r>>].state = "active"
      BY <1>1, <2>1, <3>1, JobIdParts DEF Knows, JobIds, Calm, OneProcessorPerJob
    <3>4. Ready(r)
      BY <3>3 DEF Following, ResultsReady
    <3> QED
      BY <2>2, <3>1, <3>4 DEF Ready
  <2> QED
    BY <2>1, <2>3, <2>4, <2>5, JobIdParts DEF Knows
<1>2. CASE row'[r].op # row[r].op
  <2>1. PICK w \in Workers : RequestRetry(w) /\ proc[w].run = r
    BY <1>0, <1>1, <1>2 DEF RowChange
  <2> QED
    BY <1>0, <1>2, <2>1, RetryResets
<1>3. CASE row'[r].op = row[r].op /\ row'[r].status # row[r].status
  <2>1. ~Upload(r) \/ r \notin Uploads
    BY DEF Undisturbed
  <2>2. ASSUME NEW w \in Workers, ErrorRateAbort(w), proc[w].run = r PROVE FALSE
    <3>1. Knows(proc[w]) /\ \/ proc[w].pc = "stage" /\ proc[w].job[1] = "ingest"
                            \/ proc[w].pc = "lines" /\ proc[w].job[1] = "reconcile"
      BY <1>0, <2>2 DEF ErrorRateAbort, At, Typed
    <3>2. PICK t \in {"ingest", "reconcile"} : proc[w].job[1] = t
      BY <3>1
    <3>3. proc[w].job = <<t, r>> /\ job[<<t, r>>].state = "active"
      BY <2>2, <3>1, <3>2, JobIdParts DEF Knows, JobIds, Calm, OneProcessorPerJob
    <3>4. Ready(r)
      BY <3>3 DEF Following, ResultsReady
    <3> QED
      BY <1>3, <3>4 DEF Ready
  <2> QED
    BY <1>0, <1>1, <1>3, <2>1, <2>2 DEF RowChange
<1>4. CASE row'[r].op = row[r].op /\ row'[r].status = row[r].status
  BY <1>4 DEF Straight
<1> QED
  BY <1>2, <1>3, <1>4

(* The check of an orchestrator passes, and its UPDATE.                       *)
LEMMA OrchestratorPasses ==
    ASSUME Calm, Straight, NEW x \in Workers, proc[x].pc \in {"check", "mark"},
           proc[x].job[1] = "orch"
    PROVE  /\ proc[x].goal = "running" /\ proc[x].run \in Runs
           /\ "running" \in Allowed(row[proc[x].run].status)
           /\ IndexAllows(proc[x].run, "running")
<1>1. proc[x].goal = "running" /\ proc[x].run \in Runs
  BY DEF Straight, Calm, Typed, Knows
<1>2. row[proc[x].run].op = None
  BY <1>1 DEF Calm, StartsFresh, Starting
<1>3. row[proc[x].run].status # "absent"
  BY DEF Calm, RowsExist, OnARow, Outside
<1>4. row[proc[x].run].status = "pending"
  BY <1>1, <1>2, <1>3 DEF Straight
<1>5. "running" \in Allowed("pending")
  BY DEF Allowed
<1>6. IndexAllows(proc[x].run, "running")
  BY <1>1, <1>4 DEF Calm, OneActiveRun, IndexAllows, ActiveRuns, ActiveStatuses
<1> QED
  BY <1>1, <1>4, <1>5, <1>6

LEMMA StraightStep ==
    ASSUME Calm, Following, Straight, Next, Undisturbed, "cancel" \notin Trouble
    PROVE  Straight'
<1>1. \A r \in Runs : row'[r].op = None => row'[r].status \in {"absent", "pending"}
  BY UnstartedStep
<1>2. cancel'.pc = "idle"
  BY NoCancels DEF Straight
<1>3. ASSUME NEW x \in Workers, proc'[x].pc # "idle", proc'[x].job[1] = "orch"
      PROVE  /\ proc'[x].pc # "catch"
             /\ proc'[x].pc \in {"check", "mark"} => proc'[x].goal = "running"
  <2>0. Typed /\ OrchStep(x) /\ (proc[x].pc # "idle" => proc[x].job[1] = "orch")
    BY <1>3, OrchSteps DEF Calm
  <2>1. CASE proc'[x] = proc[x]
    BY <1>3, <2>1 DEF Straight
  <2>2. CASE LoadRun(x)
    <3>1. PICK r, m : proc' = [proc EXCEPT ![x] = [proc[x] EXCEPT !.pc = "patch", !.run = r, !.op = m]]
      BY <2>2 DEF LoadRun
    <3> QED
      BY <2>0, <3>1 DEF Typed, TypeOK, ProcType
  <2>3. ASSUME Checks(x), proc[x].pc = "check" PROVE proc'[x].pc = "mark" /\ proc'[x].goal = "running"
    BY <2>0, <2>3, OrchestratorPasses DEF Checks, Goes
  <2>4. ASSUME MarkStatus(x), Marks(x) PROVE proc'[x].pc = "hand"
    <3>1. proc[x].pc = "mark" /\ proc[x].job[1] = "orch"
      BY <2>0, <2>4 DEF MarkStatus
    <3>2. proc[x].goal = "running" /\ IndexAllows(proc[x].run, proc[x].goal)
      BY <3>1, OrchestratorPasses
    <3>3. AfterMark("orch", "running") = "hand"
      BY DEF AfterMark
    <3> QED
      BY <2>4, <3>1, <3>2, <3>3 DEF Marks, Goes
  <2>5. ~(proc[x].pc = "catch" /\ proc[x].job[1] = "orch")
    BY DEF Straight
  <2> QED
    BY <2>0, <2>1, <2>2, <2>3, <2>4, <2>5 DEF OrchStep, Goes, Checks, Undisturbed
<1> QED
  BY <1>1, <1>2, <1>3 DEF Straight

(* An operation stays recorded while it runs.                                 *)
LEMMA RecordStays ==
    ASSUME Calm, Following, Next, NEW r \in Runs, row[r].op # None,
           shopify[row[r].op] = "running"
    PROVE  row'[r].op = row[r].op
BY OpGoes DEF Following, Retriable

(* An orchestrator on the way to record its operation goes on, or records it. *)
LEMMA RecorderGoes ==
    ASSUME Calm, Straight, Next, Undisturbed, NEW x \in Workers,
           proc[x].pc \in {"check", "mark"}, proc[x].job[1] = "orch"
    PROVE  \/ proc'[x] = proc[x]
           \/ /\ proc'[x].pc = "mark" /\ proc'[x].job = proc[x].job
              /\ proc'[x].op = proc[x].op
           \/ row'[proc[x].run].op = proc[x].op
<1>1. ASSUME NEW i \in JobIds, Take(x, i) PROVE FALSE
  BY <1>1 DEF Take
<1>2. ASSUME Throw(x) \/ Crash(x) \/ TimeOut(x) PROVE FALSE
  BY <1>2 DEF Throw, Crash, TimeOut, Fault, Undisturbed
<1>3. ASSUME WorkerStep(x) PROVE CheckTransition(x) \/ MarkStatus(x)
  BY <1>3 DEF WorkerStep, Orchestrate, AcquireLock, LoadRun,
     PatchContract, StartAccepted, StartRateLimited, StartRefused, HandToPoller, Catch, Poll,
     PollLoad, PollTimedOut, PollNotReady, PollCompleted, PollTerminal, Decide, RequestRetry,
     RequeueOrchestrator, HandOver, Salvaged, Ingest, Stage, MergeStaging, ReconcileLines,
     ErrorRateAbort, Finish, Complete, Rethrow, Postpone, At
<1>4. proc[x].goal = "running" /\ "running" \in Allowed(row[proc[x].run].status)
      /\ IndexAllows(proc[x].run, "running") /\ Typed
  BY OrchestratorPasses DEF Calm
<1>5. ASSUME CheckTransition(x)
      PROVE  proc'[x].pc = "mark" /\ proc'[x].job = proc[x].job /\ proc'[x].op = proc[x].op
  BY <1>4, <1>5, StatusSteps DEF Checks, Goes
<1>6. ASSUME MarkStatus(x) PROVE row'[proc[x].run].op = proc[x].op
  BY <1>4, <1>6, StatusSteps DEF Marks
<1> QED
  BY <1>1, <1>2, <1>3, <1>4, <1>5, <1>6, OwnSteps

LEMMA KnownStep ==
    ASSUME Calm, Following, Straight, OpsAreKnown, Next, Undisturbed
    PROVE  OpsAreKnown'
<1> SUFFICES ASSUME NEW o \in Ops, shopify'[o] = "running"
             PROVE  \/ \E r \in Runs : row'[r].op = o
                    \/ \E w \in Workers : /\ proc'[w].op = o /\ proc'[w].job[1] = "orch"
                                          /\ proc'[w].pc \in {"check", "mark"}
  BY DEF OpsAreKnown, At
<1>0. Typed /\ o # None
  BY NamesAssumption DEF Calm
<1>1. CASE shopify[o] = "running"
  <2>1. ASSUME NEW r \in Runs, row[r].op = o PROVE row'[r].op = o
    BY <1>0, <1>1, <2>1, RecordStays
  <2>2. ASSUME NEW w \in Workers, proc[w].op = o, proc[w].pc \in {"check", "mark"},
               proc[w].job[1] = "orch"
        PROVE  \/ \E r \in Runs : row'[r].op = o
               \/ /\ proc'[w].op = o /\ proc'[w].job[1] = "orch"
                  /\ proc'[w].pc \in {"check", "mark"}
    <3>1. proc[w].run \in Runs
      BY <2>2, OrchestratorPasses
    <3> QED
      BY <2>2, <3>1, RecorderGoes
  <2> QED
    BY <1>1, <2>1, <2>2 DEF OpsAreKnown, At
<1>2. CASE shopify[o] # "running"
  <2>1. PICK w \in Workers : StartAccepted(w) /\ shopify[o] = "unused"
    BY <1>0, <1>2, ShopifySteps DEF ShopifyStep
  <2>2. PICK p \in Ops : /\ shopify' = [shopify EXCEPT ![p] = "running"]
                         /\ proc' = [proc EXCEPT ![w] = [proc[w] EXCEPT
                                        !.pc = "check", !.goal = "running", !.op = p]]
    BY <2>1 DEF StartAccepted
  <2>3. p = o
    BY <1>0, <1>2, <2>2 DEF Typed, TypeOK
  <2>4. proc[w].job[1] = "orch" /\ proc \in [Workers -> ProcType] /\ proc[w] \in ProcType
    BY <1>0, <2>1 DEF StartAccepted, At, Typed, TypeOK
  <2>5. proc'[w].op = o /\ proc'[w].job = proc[w].job /\ proc'[w].pc = "check"
    BY <2>2, <2>3, <2>4 DEF ProcType
  <2> QED
    BY <2>4, <2>5
<1> QED
  BY <1>1, <1>2

(* Nobody loses track of an operation that runs at Shopify: the orchestrator  *)
(* that starts one always gets to record it, and a run forgets one only when  *)
(* it has failed.  Each exclusion is needed: after a crash, a throw, an       *)
(* overrun or a lapse of the lock between the start and the record, after a   *)
(* cancel, next to an upload, and when the retry of a mutation throws, an     *)
(* operation can run that nobody records.                                     *)
THEOREM OpsKnown == Undisturbed /\ "cancel" \notin Trouble /\ Spec => []OpsAreKnown
<1> SUFFICES ASSUME Undisturbed, "cancel" \notin Trouble PROVE Spec => []OpsAreKnown
  OBVIOUS
<1>1. Init => Straight /\ OpsAreKnown
  BY DEF Init, Idle, NoCancel, Straight, OpsAreKnown
<1>2. Calm /\ Following /\ Straight /\ OpsAreKnown /\ [Next]_vars => Straight' /\ OpsAreKnown'
  <2>1. CASE UNCHANGED vars
    BY <2>1 DEF vars, Straight, OpsAreKnown, At
  <2> QED
    BY <2>1, StraightStep, KnownStep
<1> QED
  BY <1>1, <1>2, FollowingInvariant, PTL DEF Spec

=============================================================================
