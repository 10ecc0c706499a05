--------------------------- MODULE BulkLockProofs ----------------------------
(* Theorems about BulkLock, for any set of processors and any lease.          *)
EXTENDS BulkLock, TLAPS

USE DEF PCs

(* Every reachable state is well typed; the key exists exactly while it has a *)
(* TTL; a renewal timer runs exactly while its processor is in the try block  *)
(* of orchestrator.worker.ts.                                                 *)
THEOREM TypeCorrect == Spec => []TypeOK
<1>1. Init => TypeOK
  BY FreeAssumption, TimingAssumption DEF Init, TypeOK
<1>2. TypeOK /\ [Next]_vars => TypeOK'
  <2> SUFFICES ASSUME TypeOK, [Next]_vars PROVE TypeOK'
    OBVIOUS
  <2> USE FreeAssumption, TimingAssumption
  <2>1. CASE UNCHANGED vars
    BY <2>1 DEF vars, TypeOK
  <2>2. CASE Tick
    BY <2>2 DEF TypeOK, Tick, Later
  <2>3. ASSUME NEW j \in Jobs, AcquireGranted(j) PROVE TypeOK'
    BY <2>3 DEF TypeOK, AcquireGranted
  <2>4. ASSUME NEW j \in Jobs, AcquireRefused(j) PROVE TypeOK'
    BY <2>4 DEF TypeOK, AcquireRefused
  <2>5. ASSUME NEW j \in Jobs, AcquireReply(j) PROVE TypeOK'
    BY <2>5 DEF TypeOK, AcquireReply
  <2>6. ASSUME NEW j \in Jobs, AcquireReplyLost(j) PROVE TypeOK'
    BY <2>6 DEF TypeOK, AcquireReplyLost
  <2>7. ASSUME NEW j \in Jobs, TimerFires(j) PROVE TypeOK'
    BY <2>7 DEF TypeOK, TimerFires
  <2>8. ASSUME NEW j \in Jobs, RenewAtRedis(j) PROVE TypeOK'
    BY <2>8 DEF TypeOK, RenewAtRedis
  <2>9. ASSUME NEW j \in Jobs, RenewFails(j) PROVE TypeOK'
    BY <2>9 DEF TypeOK, RenewFails
  <2>10. ASSUME NEW j \in Jobs, Finish(j) PROVE TypeOK'
    BY <2>10 DEF TypeOK, Finish
  <2>11. ASSUME NEW j \in Jobs, ReleaseAtRedis(j) PROVE TypeOK'
    BY <2>11 DEF TypeOK, ReleaseAtRedis
  <2>12. ASSUME NEW j \in Jobs, ReleaseFails(j) PROVE TypeOK'
    BY <2>12 DEF TypeOK, ReleaseFails
  <2>13. ASSUME NEW j \in Jobs, Crash(j) PROVE TypeOK'
    BY <2>13 DEF TypeOK, Crash
  <2> QED
    BY <2>1, <2>2, <2>3, <2>4, <2>5, <2>6, <2>7, <2>8, <2>9, <2>10, <2>11,
       <2>12, <2>13 DEF Next
<1> QED
  BY <1>1, <1>2, PTL DEF Spec

-----------------------------------------------------------------------------
(* Whatever the delays, no processor disturbs a key another one holds: a late *)
(* renewal does not extend it and a late release does not delete it, because  *)
(* bulk-lock.lua compares the stored token first.                             *)
THEOREM HolderUndisturbed == Spec => OnlyHolderTouches
<1> DEFINE Step ==
      owner # Free =>
        /\ owner' \in {owner, Free}
        /\ owner' = Free => ttl = 1 \/ (pc[owner] = "releasing" /\ pc'[owner] = "done")
        /\ ttl' > ttl => sent[owner] /\ ~sent'[owner]
<1>1. TypeOK /\ [Next]_vars => [Step]_vars
  <2> SUFFICES ASSUME TypeOK, Next PROVE Step
    OBVIOUS
  <2> USE FreeAssumption, TimingAssumption
  <2>1. CASE Tick
    BY <2>1 DEF TypeOK, Tick
  <2>2. ASSUME NEW j \in Jobs,
               AcquireGranted(j) \/ AcquireRefused(j) \/ AcquireReply(j)
                 \/ AcquireReplyLost(j) \/ TimerFires(j) \/ RenewFails(j)
                 \/ Finish(j) \/ ReleaseFails(j) \/ Crash(j)
        PROVE Step
    BY <2>2 DEF TypeOK, AcquireGranted, AcquireRefused, AcquireReply,
       AcquireReplyLost, TimerFires, RenewFails, Finish, ReleaseFails, Crash
  <2>3. ASSUME NEW j \in Jobs, RenewAtRedis(j) PROVE Step
    BY <2>3 DEF TypeOK, RenewAtRedis
  <2>4. ASSUME NEW j \in Jobs, ReleaseAtRedis(j) PROVE Step
    BY <2>4 DEF TypeOK, ReleaseAtRedis
  <2> QED
    BY <2>1, <2>2, <2>3, <2>4 DEF Next
<1> QED
  BY <1>1, TypeCorrect, PTL DEF Spec, OnlyHolderTouches

-----------------------------------------------------------------------------
(* Why a punctual processor never loses its lease.  The TTL it can count on   *)
(* shrinks by at most one Delay while the grant travels, one Refresh until    *)
(* the timer fires and one Delay until the renewal is executed; the lease is  *)
(* longer than the three together.                                            *)
Granted(j) ==
    pc[j] = "granted" => /\ owner = j
                         /\ ~sent[j]
                         /\ age[j] <= Delay
                         /\ ttl + age[j] >= Lease

BetweenRenewals(j) ==
    pc[j] = "critical" /\ ~sent[j] =>
        /\ owner = j
        /\ since[j] <= Refresh
        /\ ttl + since[j] >= Lease - Delay

RenewalInFlight(j) ==
    pc[j] = "critical" /\ sent[j] =>
        /\ owner = j
        /\ since[j] <= age[j]
        /\ age[j] <= Delay
        /\ ttl + age[j] >= Lease - Delay - Refresh

NothingSentYet(j) == pc[j] = "new" => ~sent[j]

LeaseInv ==
    \A j \in Punctual : /\ Granted(j)
                        /\ BetweenRenewals(j)
                        /\ RenewalInFlight(j)
                        /\ NothingSentYet(j)

LEMMA LeaseInvariant == Spec => []LeaseInv
<1> USE FreeAssumption, TimingAssumption, PunctualAssumption
<1> USE DEF Granted, BetweenRenewals, RenewalInFlight, NothingSentYet
<1>1. Init => LeaseInv
  BY DEF Init, LeaseInv
<1>2. TypeOK /\ LeaseInv /\ [Next]_vars => LeaseInv'
  <2> SUFFICES ASSUME TypeOK, LeaseInv, [Next]_vars, NEW i \in Punctual
               PROVE /\ Granted(i)' /\ BetweenRenewals(i)'
                     /\ RenewalInFlight(i)' /\ NothingSentYet(i)'
    BY DEF LeaseInv
  <2>1. CASE UNCHANGED vars
    BY <2>1 DEF vars, LeaseInv
  \* No deadline was due, so every live processor has a tick to spare.
  <2>2. CASE Tick
    <3> USE <2>2 DEF Tick, Due, Later, TypeOK
    <3>1. ~Due(i)
      BY DEF LeaseInv
    <3>2. Granted(i)'
      BY <3>1 DEF LeaseInv
    <3>3. BetweenRenewals(i)'
      BY <3>1 DEF LeaseInv
    <3>4. RenewalInFlight(i)'
      BY <3>1 DEF LeaseInv
    <3>5. NothingSentYet(i)'
      BY DEF LeaseInv
    <3> QED
      BY <3>2, <3>3, <3>4, <3>5
  <2>3. ASSUME NEW j \in Jobs, AcquireGranted(j)
        PROVE Granted(i)' /\ BetweenRenewals(i)'
                /\ RenewalInFlight(i)' /\ NothingSentYet(i)'
    BY <2>3 DEF TypeOK, LeaseInv, AcquireGranted
  <2>4. ASSUME NEW j \in Jobs, AcquireRefused(j)
        PROVE Granted(i)' /\ BetweenRenewals(i)'
                /\ RenewalInFlight(i)' /\ NothingSentYet(i)'
    BY <2>4 DEF TypeOK, LeaseInv, AcquireRefused
  <2>5. ASSUME NEW j \in Jobs, AcquireReply(j)
        PROVE Granted(i)' /\ BetweenRenewals(i)'
                /\ RenewalInFlight(i)' /\ NothingSentYet(i)'
    BY <2>5 DEF TypeOK, LeaseInv, AcquireReply
  <2>6. ASSUME NEW j \in Jobs, AcquireReplyLost(j)
        PROVE Granted(i)' /\ BetweenRenewals(i)'
                /\ RenewalInFlight(i)' /\ NothingSentYet(i)'
    BY <2>6 DEF TypeOK, LeaseInv, AcquireReplyLost
  <2>7. ASSUME NEW j \in Jobs, TimerFires(j)
        PROVE Granted(i)' /\ BetweenRenewals(i)'
                /\ RenewalInFlight(i)' /\ NothingSentYet(i)'
    BY <2>7 DEF TypeOK, LeaseInv, TimerFires
  <2>8. ASSUME NEW j \in Jobs, RenewAtRedis(j)
        PROVE Granted(i)' /\ BetweenRenewals(i)'
                /\ RenewalInFlight(i)' /\ NothingSentYet(i)'
    BY <2>8 DEF TypeOK, LeaseInv, RenewAtRedis
  <2>9. ASSUME NEW j \in Jobs, RenewFails(j)
        PROVE Granted(i)' /\ BetweenRenewals(i)'
                /\ RenewalInFlight(i)' /\ NothingSentYet(i)'
    BY <2>9 DEF TypeOK, LeaseInv, RenewFails
  <2>10. ASSUME NEW j \in Jobs, Finish(j)
        PROVE Granted(i)' /\ BetweenRenewals(i)'
                /\ RenewalInFlight(i)' /\ NothingSentYet(i)'
    BY <2>10 DEF TypeOK, LeaseInv, Finish
  <2>11. ASSUME NEW j \in Jobs, ReleaseAtRedis(j)
        PROVE Granted(i)' /\ BetweenRenewals(i)'
                /\ RenewalInFlight(i)' /\ NothingSentYet(i)'
    BY <2>11 DEF TypeOK, LeaseInv, ReleaseAtRedis
  <2>12. ASSUME NEW j \in Jobs, ReleaseFails(j)
        PROVE Granted(i)' /\ BetweenRenewals(i)'
                /\ RenewalInFlight(i)' /\ NothingSentYet(i)'
    BY <2>12 DEF TypeOK, LeaseInv, ReleaseFails
  <2>13. ASSUME NEW j \in Jobs, Crash(j)
        PROVE Granted(i)' /\ BetweenRenewals(i)'
                /\ RenewalInFlight(i)' /\ NothingSentYet(i)'
    BY <2>13 DEF TypeOK, LeaseInv, Crash
  <2> QED
    BY <2>1, <2>2, <2>3, <2>4, <2>5, <2>6, <2>7, <2>8, <2>9, <2>10, <2>11, <2>12, <2>13 DEF Next
<1> QED
  BY <1>1, <1>2, TypeCorrect, PTL DEF Spec

(* Two punctual orchestrators of a shop - Refresh + 2 * Delay below the       *)
(* lease, no renewal of theirs lost - are never inside the section between    *)
(* acquireBulkLock and the finally block at the same time, whatever late ones *)
(* do beside them.                                                            *)
THEOREM Exclusion == Spec => []MutualExclusion
<1>1. LeaseInv => MutualExclusion
  BY DEF LeaseInv, BetweenRenewals, RenewalInFlight, MutualExclusion, Inside
<1> QED
  BY <1>1, LeaseInvariant, PTL

-----------------------------------------------------------------------------
(* The lease of bulk-lock.{ts,lua}, with its renewals, failures and crashes,  *)
(* implements ShopMutex: every step enters, leaves, gives up or stutters.     *)
THEOREM Refinement == Spec => ImplementsMutex
<1> USE FreeAssumption, TimingAssumption, PunctualAssumption
<1>1. Init => Mutex!MInit
  BY DEF Init, Mutex!MInit, Inside, Gone
<1>2. TypeOK /\ LeaseInv /\ [Next]_vars => [Mutex!MNext]_(Mutex!mvars)
  <2> SUFFICES ASSUME TypeOK, LeaseInv, [Next]_vars
               PROVE Mutex!MNext \/ UNCHANGED Mutex!mvars
    OBVIOUS
  <2> USE DEF TypeOK, Inside, Gone, Mutex!mvars
  <2>1. CASE UNCHANGED vars \/ Tick
    BY <2>1 DEF vars, Tick
  <2>2. ASSUME NEW j \in Jobs,
               AcquireGranted(j) \/ TimerFires(j) \/ RenewAtRedis(j)
                 \/ RenewFails(j) \/ ReleaseAtRedis(j) \/ ReleaseFails(j)
        PROVE UNCHANGED Mutex!mvars
    BY <2>2 DEF AcquireGranted, TimerFires, RenewAtRedis, RenewFails,
       ReleaseAtRedis, ReleaseFails
  \* A late processor is no part of the mutex: it leaves what the mutex sees.
  <2>3. ASSUME NEW j \in Jobs \ Punctual,
               AcquireReply(j) \/ Finish(j) \/ AcquireRefused(j)
                 \/ AcquireReplyLost(j) \/ Crash(j)
        PROVE UNCHANGED Mutex!mvars
    <3>1. \A i \in Punctual : pc'[i] = pc[i]
      BY <2>3 DEF AcquireReply, Finish, AcquireRefused, AcquireReplyLost, Crash
    <3> QED
      BY <3>1
  \* The holder's reply arrives: nobody else can be inside.
  <2>4. ASSUME NEW j \in Punctual, AcquireReply(j) PROVE Mutex!Enter(j)
    <3>1. owner = j /\ j \notin Gone
      BY <2>4 DEF LeaseInv, Granted, AcquireReply
    <3>2. Inside = {}
      BY <2>4, <3>1 DEF LeaseInv, BetweenRenewals, RenewalInFlight, AcquireReply
    <3>3. Inside' = {j} /\ Gone' = Gone
      BY <2>4, <3>2 DEF AcquireReply
    <3> QED
      BY <3>1, <3>2, <3>3 DEF Mutex!Enter
  <2>5. ASSUME NEW j \in Punctual, Finish(j) PROVE Mutex!Leave(j)
    BY <2>5 DEF Finish, Mutex!Leave
  <2>6. ASSUME NEW j \in Punctual, AcquireRefused(j) \/ AcquireReplyLost(j)
        PROVE Mutex!GiveUp(j)
    BY <2>6 DEF AcquireRefused, AcquireReplyLost, Mutex!GiveUp
  <2>7. ASSUME NEW j \in Punctual, Crash(j) PROVE Mutex!MNext \/ UNCHANGED Mutex!mvars
    <3>1. CASE pc[j] = "critical"
      BY <2>7, <3>1 DEF Crash, Mutex!Leave, Mutex!MNext
    <3>2. CASE pc[j] = "granted"
      BY <2>7, <3>2 DEF Crash, Mutex!GiveUp, Mutex!MNext
    <3>3. CASE pc[j] = "releasing"
      BY <2>7, <3>3 DEF Crash
    <3> QED
      BY <2>7, <3>1, <3>2, <3>3 DEF Crash
  <2> QED
    BY <2>1, <2>2, <2>3, <2>4, <2>5, <2>6, <2>7 DEF Next, Mutex!MNext
<1> QED
  BY <1>1, <1>2, TypeCorrect, LeaseInvariant, PTL DEF Spec, ImplementsMutex, Mutex!MSpec
=============================================================================
