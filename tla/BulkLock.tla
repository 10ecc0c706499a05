------------------------------ MODULE BulkLock -------------------------------
(* The Redis lease that serialises the bulk orchestrators of one shop:        *)
(* packages/queue-manager/src/locks/bulk-lock.{ts,lua} and the acquire /      *)
(* renew / release calls of orchestrator.worker.ts.                           *)
(*                                                                            *)
(* A job here is one run of the orchestrator's processor.  It draws a fresh   *)
(* token (randomUUID) for its only acquisition, so the token is the job.      *)
(* Commands to Redis and their replies take time: a command is sent, executes *)
(* atomically (a Lua script) and its reply arrives, in separate steps; it may *)
(* fail before or after it executed.  Time is a tick that shortens the TTL.   *)
EXTENDS Integers

CONSTANTS
    Jobs,       \* processor runs that want the lock
    Free,       \* the value of the key when it does not exist
    Lease,      \* ttlMs: 30 minutes in the orchestrator, in ticks
    Refresh,    \* refreshIntervalMs: 1 minute, in ticks
    Delay,      \* the longest a punctual process waits for Redis
    Punctual    \* the runs whose event loop and Redis answer within Delay and
                \* whose renewals are not lost; no bound holds of the others

ASSUME FreeAssumption == Free \notin Jobs
ASSUME TimingAssumption ==
    /\ Lease \in Nat /\ Refresh \in Nat /\ Delay \in Nat
    /\ Delay < Refresh
    /\ Refresh + 2 * Delay < Lease
ASSUME PunctualAssumption == Punctual \subseteq Jobs

VARIABLES
    owner,      \* the token stored under bulk-lock:<shop>, or Free
    ttl,        \* ticks until Redis drops the key
    pc,         \* where each processor is
    timer,      \* timer[j]: the setInterval of startBulkLockRenewal is armed
    since,      \* since[j]: ticks since that timer was armed or last fired
    sent,       \* sent[j]: a renew command of j has not been executed yet
    age         \* age[j]: ticks since the grant, or since the renew was sent

vars == <<owner, ttl, pc, timer, since, sent, age>>

PCs == {"new", "granted", "critical", "releasing", "done"}

Init ==
    /\ owner = Free
    /\ ttl = 0
    /\ pc = [j \in Jobs |-> "new"]
    /\ timer = [j \in Jobs |-> FALSE]
    /\ since = [j \in Jobs |-> 0]
    /\ sent = [j \in Jobs |-> FALSE]
    /\ age = [j \in Jobs |-> 0]

-----------------------------------------------------------------------------
(* acquireBulkLock: SET key token NX PX ttl.                                  *)

AcquireGranted(j) ==
    /\ pc[j] = "new"
    /\ owner = Free
    /\ owner' = j
    /\ ttl' = Lease
    /\ pc' = [pc EXCEPT ![j] = "granted"]
    /\ age' = [age EXCEPT ![j] = 0]
    /\ UNCHANGED <<timer, since, sent>>

\* Another token holds the key: BulkLockContentionError, the job is delayed
\* and comes back as another processor run.  Or the command never reached Redis.
AcquireRefused(j) ==
    /\ pc[j] = "new"
    /\ pc' = [pc EXCEPT ![j] = "done"]
    /\ UNCHANGED <<owner, ttl, timer, since, sent, age>>

\* (Faulty variant, for mutation: the processor runs without a renewal timer.)
AcquireReplyNoTimer(j) ==
    /\ pc[j] = "granted"
    /\ pc' = [pc EXCEPT ![j] = "critical"]
    /\ age' = [age EXCEPT ![j] = 0]
    /\ UNCHANGED <<owner, ttl, timer, since, sent>>

\* The reply arrives; the processor arms the renewal and enters its try block.
AcquireReply(j) ==
    /\ pc[j] = "granted"
    /\ pc' = [pc EXCEPT ![j] = "critical"]
    /\ timer' = [timer EXCEPT ![j] = TRUE]
    /\ since' = [since EXCEPT ![j] = 0]
    /\ age' = [age EXCEPT ![j] = 0]
    /\ UNCHANGED <<owner, ttl, sent>>

\* The key is set but the reply is lost: acquireBulkLock throws before the try
\* block, so nothing releases the key.
AcquireReplyLost(j) ==
    /\ pc[j] = "granted"
    /\ pc' = [pc EXCEPT ![j] = "done"]
    /\ age' = [age EXCEPT ![j] = 0]
    /\ UNCHANGED <<owner, ttl, timer, since, sent>>

-----------------------------------------------------------------------------
(* startBulkLockRenewal: void renewBulkLock(...) on every interval.  The      *)
(* result is not looked at: a processor never learns that it lost the lease.  *)

TimerFires(j) ==
    /\ timer[j]
    /\ since[j] >= Refresh
    /\ since' = [since EXCEPT ![j] = 0]
    /\ sent' = [sent EXCEPT ![j] = TRUE]
    /\ age' = [age EXCEPT ![j] = IF sent[j] THEN age[j] ELSE 0]
    /\ UNCHANGED <<owner, ttl, pc, timer>>

\* renewBulkLock at Redis: PEXPIRE only while the key still holds this token.
RenewAtRedis(j) ==
    /\ sent[j]
    /\ sent' = [sent EXCEPT ![j] = FALSE]
    /\ ttl' = IF owner = j THEN Lease ELSE ttl
    /\ age' = [age EXCEPT ![j] = 0]
    /\ UNCHANGED <<owner, pc, timer, since>>

RenewFails(j) ==
    /\ sent[j]
    /\ j \notin Punctual
    /\ sent' = [sent EXCEPT ![j] = FALSE]
    /\ age' = [age EXCEPT ![j] = 0]
    /\ UNCHANGED <<owner, ttl, pc, timer, since>>

-----------------------------------------------------------------------------
(* The finally block: renewal.stop(), then releaseBulkLock(...).catch(...).   *)

\* (Faulty variant, for mutation: the interval is not cleared.)
FinishTimerLeaks(j) ==
    /\ pc[j] = "critical"
    /\ pc' = [pc EXCEPT ![j] = "releasing"]
    /\ UNCHANGED <<owner, ttl, timer, since, sent, age>>

Finish(j) ==
    /\ pc[j] = "critical"
    /\ pc' = [pc EXCEPT ![j] = "releasing"]
    /\ timer' = [timer EXCEPT ![j] = FALSE]
    /\ since' = [since EXCEPT ![j] = 0]
    /\ UNCHANGED <<owner, ttl, sent, age>>

\* (Faulty variant, for mutation: DEL without comparing the token.)
ReleaseAnyToken(j) ==
    /\ pc[j] = "releasing"
    /\ pc' = [pc EXCEPT ![j] = "done"]
    /\ owner' = Free
    /\ ttl' = 0
    /\ UNCHANGED <<timer, since, sent, age>>

\* releaseBulkLock at Redis: DEL only while the key still holds this token.
ReleaseAtRedis(j) ==
    /\ pc[j] = "releasing"
    /\ pc' = [pc EXCEPT ![j] = "done"]
    /\ owner' = IF owner = j THEN Free ELSE owner
    /\ ttl' = IF owner = j THEN 0 ELSE ttl
    /\ UNCHANGED <<timer, since, sent, age>>

ReleaseFails(j) ==
    /\ pc[j] = "releasing"
    /\ pc' = [pc EXCEPT ![j] = "done"]
    /\ UNCHANGED <<owner, ttl, timer, since, sent, age>>

\* The worker process dies.  A renew already sent may still be executed.
Crash(j) ==
    /\ pc[j] \in {"granted", "critical", "releasing"}
    /\ pc' = [pc EXCEPT ![j] = "done"]
    /\ timer' = [timer EXCEPT ![j] = FALSE]
    /\ since' = [since EXCEPT ![j] = 0]
    /\ UNCHANGED <<owner, ttl, sent, age>>

-----------------------------------------------------------------------------
\* A deadline of a live process, or of a command in flight, is due: if the
\* process is punctual, the step it calls for comes before the next tick.
Due(j) ==
    \/ pc[j] = "granted" /\ age[j] >= Delay
    \/ timer[j] /\ since[j] >= Refresh
    \/ sent[j] /\ age[j] >= Delay

Later(n) == IF n < Lease THEN n + 1 ELSE n

\* Redis time passes; a key whose TTL runs out is gone.
Tick ==
    /\ \A j \in Punctual : ~Due(j)
    /\ ttl > 0
    /\ ttl' = ttl - 1
    /\ owner' = IF ttl = 1 THEN Free ELSE owner
    /\ since' = [j \in Jobs |-> IF timer[j] THEN Later(since[j]) ELSE since[j]]
    /\ age' = [j \in Jobs |-> IF pc[j] = "granted" \/ sent[j]
                              THEN Later(age[j]) ELSE age[j]]
    /\ UNCHANGED <<pc, timer, sent>>

Next ==
    \/ \E j \in Jobs :
        \/ AcquireGranted(j) \/ AcquireRefused(j)
        \/ AcquireReply(j) \/ AcquireReplyLost(j)
        \/ TimerFires(j) \/ RenewAtRedis(j) \/ RenewFails(j)
        \/ Finish(j) \/ ReleaseAtRedis(j) \/ ReleaseFails(j)
        \/ Crash(j)
    \/ Tick

\* Time passes, replies of Redis are handled, timers fire and commands in
\* flight are executed or fail.  Nothing is assumed of the work in the try
\* block (Finish), of the release or of crashes.
Fairness ==
    /\ WF_vars(Tick)
    /\ \A j \in Jobs :
        /\ WF_vars(AcquireReply(j))
        /\ WF_vars(TimerFires(j))
        /\ WF_vars(RenewAtRedis(j) \/ RenewFails(j))

Spec == Init /\ [][Next]_vars
FairSpec == Spec /\ Fairness

-----------------------------------------------------------------------------
\* The punctual processors in the section, and those past it.
Inside == {j \in Punctual : pc[j] = "critical"}
Gone == {j \in Punctual : pc[j] \in {"releasing", "done"}}

(* The type of every variable; the key exists exactly while it has a TTL      *)
(* (every SET carries PX, bulk-lock.lua:34), and only a processor inside the  *)
(* try block has its renewal timer armed (orchestrator.worker.ts:299, 838).   *)
TypeOK ==
    /\ owner \in Jobs \cup {Free}
    /\ ttl \in 0 .. Lease
    /\ owner = Free <=> ttl = 0
    /\ pc \in [Jobs -> PCs]
    /\ timer \in [Jobs -> BOOLEAN]
    /\ since \in [Jobs -> 0 .. Lease]
    /\ sent \in [Jobs -> BOOLEAN]
    /\ age \in [Jobs -> 0 .. Lease]
    /\ \A j \in Jobs : timer[j] <=> pc[j] = "critical"

(* At most one punctual orchestrator of a shop is inside the section between  *)
(* acquireBulkLock and its finally block (orchestrator.worker.ts:291-841),    *)
(* whatever one that outlived its lease does beside it: a slow process costs  *)
(* its own exclusion and nobody else's.                                       *)
MutualExclusion == \A i, j \in Inside : i = j

(* A key that its token holds is left alone by every other processor, however *)
(* late its commands execute: it goes away only by its own release or by      *)
(* expiry, it never passes to another token in one step, and its TTL grows    *)
(* only by a renewal the holder sent.  (bulk-lock.lua:40-59)                  *)
OnlyHolderTouches ==
    [][owner # Free =>
        /\ owner' \in {owner, Free}
        /\ owner' = Free => ttl = 1 \/ (pc[owner] = "releasing" /\ pc'[owner] = "done")
        /\ ttl' > ttl => sent[owner] /\ ~sent'[owner]]_vars

(* A key abandoned by its processor - killed, its acquire reply lost, or its  *)
(* release failed - does not block the shop for ever: the renewals stop and   *)
(* the TTL runs out.  (bulk-lock.lua:34, bulk-lock.ts:119-124)                *)
AbandonedKeyExpires ==
    \A j \in Jobs : (owner = j /\ pc[j] = "done") ~> (owner # j)

(* For the punctual processors the lease implements the mutex that the        *)
(* orchestrator is written against; the others are part of its environment.   *)
Mutex == INSTANCE ShopMutex WITH Jobs <- Punctual, inside <- Inside, gone <- Gone
ImplementsMutex == Mutex!MSpec
=============================================================================
