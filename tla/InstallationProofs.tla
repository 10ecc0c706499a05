-------------------------- MODULE InstallationProofs --------------------------
(* Theorems about Installation, for any number of OAuth states, callbacks,    *)
(* deliveries, installations, attempts and faults.                            *)
EXTENDS Installation, TLAPS

USE BoundsAssumption

ShopifyType == [running : BOOLEAN, last : 0 .. MaxInstallations, subscribed : BOOLEAN]
RowType == [known : BOOLEAN, token : 0 .. MaxInstallations, uninstalled : BOOLEAN,
            flagged : BOOLEAN]
CallbackType == [pc : {"idle", "save"}, state : States \union {None},
                 token : 0 .. MaxInstallations]
RequestType == [pc : {"idle", "dedupe", "enqueue", "mark"}, hook : 0 .. MaxInstallations]
JobType == [state : {"none", "waiting", "handle", "clean", "kept"},
            attempt : 0 .. MaxAttempts, excused : 0 .. MaxEvents]
CheckType == [pc : {"idle", "ask"}, token : 0 .. MaxInstallations]

----------------------------------------------------------------------------
(* Types. An excuse is a fault, so there are no more excuses than faults.     *)

TokenTypes ==
    /\ shopify \in ShopifyType
    /\ row \in RowType
    /\ oauth \in [States -> {"none", "open", "used", "expired"}]
    /\ callback \in [Callbacks -> CallbackType]
    /\ check \in [Checks -> CheckType]

HookTypes ==
    /\ hook \in [Installations -> {"none", "sent", "answered", "lost"}]
    /\ request \in [Requests -> RequestType]
    /\ payload \in [Installations -> BOOLEAN]
    /\ marked \in [Installations -> BOOLEAN]

JobTypes ==
    /\ job \in [Installations -> JobType]
    /\ events \in 0 .. MaxEvents
    /\ \A n \in Installations : job[n].excused <= events

Types == TokenTypes /\ HookTypes /\ JobTypes

LEMMA TypesInit == Init => Types
  BY DEF Init, Types, TokenTypes, HookTypes, JobTypes, ShopifyType, RowType, CallbackType,
         RequestType, JobType, CheckType, Quiet, NoDelivery, NoJob, Resting, NoToken,
         Installations

LEMMA TokenTypesStep ==
  ASSUME TokenTypes, [Next]_vars
  PROVE  TokenTypes'
  <1> USE DEF TokenTypes, ShopifyType, RowType, CallbackType, CheckType, NoToken
  <1>1. ASSUME NEW s \in States, AuthStart(s) \/ StateExpires(s) PROVE TokenTypes'
    BY <1>1 DEF AuthStart, StateExpires
  <1>2. ASSUME NEW c \in Callbacks, Save(c) PROVE TokenTypes'
    <2>1. callback[c].token \in 0 .. MaxInstallations /\ Quiet \in CallbackType
      BY DEF Quiet
    <2>2. Stored(callback[c].token) \in RowType
      BY <2>1 DEF Stored
    <2>3. shopify' \in ShopifyType
      BY <1>2 DEF Save, Registered, Works
    <2> QED  BY <1>2, <2>1, <2>2, <2>3 DEF Save
  <1>3. ASSUME NEW c \in Callbacks, NEW s \in States, Exchange(c, s) PROVE TokenTypes'
    <2>1. shopify.last \in Nat /\ Granted \in 0 .. MaxInstallations
      BY <1>3 DEF Exchange, Granted
    <2>2. shopify' \in ShopifyType
      BY <1>3, <2>1 DEF Exchange
    <2>3. callback' \in [Callbacks -> CallbackType]
      BY <1>3, <2>1 DEF Exchange
    <2> QED  BY <1>3, <2>2, <2>3 DEF Exchange
  <1>4. CASE Uninstall
    BY <1>4 DEF Uninstall, oauthVars
  <1>5. ASSUME NEW n \in Installations, Wipe(n) PROVE TokenTypes'
    <2>1. 0 \in 0 .. MaxInstallations
      OBVIOUS
    <2>2. [row EXCEPT !.token = NoToken, !.uninstalled = TRUE] \in RowType
      BY <2>1
    <2> QED  BY <1>5, <2>2 DEF Wipe, oauthVars
  <1>6. ASSUME NEW k \in Checks, Pick(k) \/ Ask(k) \/ AskFails(k) PROVE TokenTypes'
    <2>1. Resting \in CheckType
      BY DEF Resting
    <2>2. row' \in RowType
      BY <1>6 DEF Pick, Ask, AskFails, Works
    <2>3. check' \in [Checks -> CheckType]
      BY <1>6, <2>1 DEF Pick, Ask, AskFails
    <2> QED  BY <1>6, <2>2, <2>3 DEF Pick, Ask, AskFails, oauthVars
  <1>7. ASSUME NEW h \in Requests,
               \/ Dedupe(h) \/ Enqueue(h) \/ Mark(h) \/ RequestFails(h)
               \/ \E n \in Installations : Deliver(h, n)
        PROVE  TokenTypes'
    BY <1>7 DEF Dedupe, Enqueue, Mark, RequestFails, Deliver, oauthVars
  <1>8. ASSUME NEW n \in Installations, Load(n) \/ Clean(n) \/ JobFails(n) \/ Lapses(n)
        PROVE  TokenTypes'
    BY <1>8 DEF Load, Clean, JobFails, Lapses, oauthVars
  <1>9. CASE UNCHANGED vars
    BY <1>9 DEF vars, oauthVars
  <1> QED  BY <1>1, <1>2, <1>3, <1>4, <1>5, <1>6, <1>7, <1>8, <1>9 DEF Next

LEMMA HookTypesStep ==
  ASSUME HookTypes, TokenTypes, [Next]_vars
  PROVE  HookTypes'
  <1> USE DEF HookTypes, RequestType, Installations
  <1>1. ASSUME NEW h \in Requests,
               Dedupe(h) \/ Enqueue(h) \/ Mark(h) \/ RequestFails(h)
        PROVE  HookTypes'
    <2>1. NoDelivery \in RequestType
      BY DEF NoDelivery
    <2>2. \A n : Answered(n) \in [Installations -> {"none", "sent", "answered", "lost"}]
      BY DEF Answered
    <2>3. CASE Dedupe(h)
      <3>1. [request[h] EXCEPT !.pc = "enqueue"] \in RequestType
        OBVIOUS
      <3>2. request' \in [Requests -> RequestType]
        BY <2>1, <2>3, <3>1 DEF Dedupe
      <3>3. \/ hook' = Answered(request[h].hook) /\ payload' = payload
            \/ hook' = hook /\ payload' = [payload EXCEPT ![request[h].hook] = TRUE]
        BY <2>3 DEF Dedupe
      <3>4. hook' \in [Installations -> {"none", "sent", "answered", "lost"}]
        BY <2>2, <3>3
      <3>5. payload' \in [Installations -> BOOLEAN]
        BY <3>3
      <3> QED  BY <2>3, <3>2, <3>4, <3>5 DEF Dedupe
    <2>4. CASE Enqueue(h)
      BY <2>4 DEF Enqueue
    <2>5. CASE Mark(h)
      BY <2>1, <2>2, <2>5 DEF Mark
    <2>6. CASE RequestFails(h)
      BY <2>1, <2>6 DEF RequestFails
    <2> QED  BY <1>1, <2>3, <2>4, <2>5, <2>6
  <1>2. ASSUME NEW h \in Requests, NEW n \in Installations, Deliver(h, n) PROVE HookTypes'
    BY <1>2 DEF Deliver
  <1>3. CASE Uninstall
    BY <1>3 DEF Uninstall
  <1>4. ASSUME NEW n \in Installations, Load(n) \/ Clean(n) \/ JobFails(n) PROVE HookTypes'
    BY <1>4 DEF Load, Clean, JobFails, Lost
  <1>5. ASSUME NEW n \in Installations, Wipe(n) \/ Lapses(n) PROVE HookTypes'
    BY <1>5 DEF Wipe, Lapses
  <1>6. ASSUME NEW s \in States, AuthStart(s) \/ StateExpires(s) PROVE HookTypes'
    BY <1>6 DEF AuthStart, StateExpires, hookVars
  <1>7. ASSUME NEW c \in Callbacks, Save(c) \/ \E s \in States : Exchange(c, s)
        PROVE  HookTypes'
    BY <1>7 DEF Save, Exchange, hookVars
  <1>8. ASSUME NEW k \in Checks, Pick(k) \/ Ask(k) \/ AskFails(k) PROVE HookTypes'
    BY <1>8 DEF Pick, Ask, AskFails, hookVars
  <1>9. CASE UNCHANGED vars
    BY <1>9 DEF vars, hookVars
  <1> QED  BY <1>1, <1>2, <1>3, <1>4, <1>5, <1>6, <1>7, <1>8, <1>9 DEF Next

(* What a job may become is a job.                                            *)
LEMMA JobsAre ==
  ASSUME NEW j \in JobType
  PROVE  /\ Added(j) \in JobType /\ Added(j).excused = j.excused
         /\ Failed(j) \in JobType /\ Failed(j).excused = j.excused
         /\ Kept(j) \in JobType /\ Kept(j).excused = j.excused
  <1>1. j.attempt \in 0 .. MaxAttempts /\ 1 \in 0 .. MaxAttempts /\ 0 \in 0 .. MaxAttempts
    BY DEF JobType
  <1>2. Added(j) \in JobType /\ Added(j).excused = j.excused
    <2>1. [j EXCEPT !.state = "waiting", !.attempt = 1] \in JobType
      BY <1>1 DEF JobType
    <2> QED  BY <2>1 DEF Added, JobType
  <1>3. Kept(j) \in JobType /\ Kept(j).excused = j.excused
    <2>1. [j EXCEPT !.state = "kept", !.attempt = 0] \in JobType
      BY <1>1 DEF JobType
    <2> QED  BY <2>1 DEF Kept, JobType
  <1>4. Failed(j) \in JobType /\ Failed(j).excused = j.excused
    <2>1. CASE j.attempt < MaxAttempts
      <3>1. j.attempt + 1 \in 0 .. MaxAttempts
        BY <1>1, <2>1
      <3>2. [j EXCEPT !.state = "waiting", !.attempt = @ + 1] \in JobType
        BY <3>1 DEF JobType
      <3> QED  BY <2>1, <3>2 DEF Failed, JobType
    <2> QED  BY <1>3, <2>1 DEF Failed
  <1> QED  BY <1>2, <1>3, <1>4

LEMMA JobTypesStep ==
  ASSUME JobTypes, HookTypes, [Next]_vars
  PROVE  JobTypes'
  <1>1. ASSUME NEW h \in Requests, Enqueue(h) PROVE JobTypes'
    BY <1>1, JobsAre DEF JobTypes, Enqueue
  <1>2. ASSUME NEW n \in Installations, Load(n) PROVE JobTypes'
    <2>1. [job[n] EXCEPT !.state = "handle"] \in JobType
      BY DEF JobTypes, JobType
    <2> QED  BY <1>2, <2>1, JobsAre DEF JobTypes, JobType, Load
  <1>3. ASSUME NEW n \in Installations, Wipe(n) PROVE JobTypes'
    BY <1>3 DEF JobTypes, JobType, Wipe
  <1>4. ASSUME NEW n \in Installations, Clean(n) PROVE JobTypes'
    <2>1. \A m \in Installations : [job[m] EXCEPT !.state = "none"] \in JobType
      BY DEF JobTypes, JobType
    <2>2. job' \in [Installations -> JobType]
      BY <1>4, <2>1, JobsAre DEF JobTypes, Clean
    <2>3. \A m \in Installations : job'[m].excused = job[m].excused
      BY <1>4, JobsAre DEF JobTypes, JobType, Clean
    <2> QED  BY <1>4, <2>2, <2>3 DEF JobTypes, Clean
  <1>5. ASSUME NEW n \in Installations, JobFails(n) PROVE JobTypes'
    <2>1. events \in Nat /\ events < MaxEvents /\ events' = events + 1
      BY <1>5 DEF JobFails, Event, JobTypes
    <2>2. Excused(job[n]) \in JobType /\ Excused(job[n]).excused <= events'
      BY <2>1 DEF Excused, JobTypes, JobType
    <2>3. \A m \in Installations : job[m].excused <= events'
      BY <2>1 DEF JobTypes, JobType
    <2>4. job' = [job EXCEPT ![n] = Failed(Excused(job[n]))]
      BY <1>5 DEF JobFails
    <2>5. job' \in [Installations -> JobType]
      BY <2>2, <2>4, JobsAre DEF JobTypes
    <2>6. \A m \in Installations : job'[m].excused <= events'
      BY <2>2, <2>3, <2>4, JobsAre DEF JobTypes
    <2> QED  BY <2>1, <2>5, <2>6 DEF JobTypes
  <1>6. ASSUME NEW n \in Installations, Lapses(n) PROVE JobTypes'
    <2>1. events \in Nat /\ events < MaxEvents /\ events' = events + 1
      BY <1>6 DEF Lapses, Event, JobTypes
    <2> QED  BY <1>6, <2>1 DEF JobTypes, JobType, Lapses, NoJob
  <1>7. ASSUME UNCHANGED job, events' = events \/ \E kind : Event(kind) PROVE JobTypes'
    BY <1>7 DEF JobTypes, JobType, Event
  <1>8. ASSUME NEW h \in Requests,
               \/ Dedupe(h) \/ Mark(h) \/ RequestFails(h)
               \/ \E n \in Installations : Deliver(h, n)
        PROVE  JobTypes'
    BY <1>7, <1>8 DEF Dedupe, Mark, RequestFails, Deliver
  <1>9. ASSUME NEW s \in States, AuthStart(s) \/ StateExpires(s) PROVE JobTypes'
    BY <1>7, <1>9 DEF AuthStart, StateExpires, hookVars
  <1>10. ASSUME NEW c \in Callbacks, Save(c) \/ \E s \in States : Exchange(c, s)
         PROVE  JobTypes'
    BY <1>7, <1>10 DEF Save, Exchange, hookVars
  <1>11. ASSUME NEW k \in Checks, Pick(k) \/ Ask(k) \/ AskFails(k) PROVE JobTypes'
    BY <1>7, <1>11 DEF Pick, Ask, AskFails, hookVars
  <1>12. CASE UNCHANGED vars \/ Uninstall
    BY <1>7, <1>12 DEF vars, hookVars, Uninstall
  <1> QED  BY <1>1, <1>2, <1>3, <1>4, <1>5, <1>6, <1>8, <1>9, <1>10, <1>11, <1>12 DEF Next

LEMMA TypesInvariant == Spec => []Types
  <1>1. Types /\ [Next]_vars => Types'
    BY TokenTypesStep, HookTypesStep, JobTypesStep DEF Types
  <1> QED  BY TypesInit, <1>1, PTL DEF Spec

(* Every reachable state is of the types that TypeOK names.                   *)
THEOREM TypesHold == Spec => []TypeOK
  <1>1. Types => TypeOK
    BY DEF Types, TokenTypes, HookTypes, JobTypes, TypeOK, ShopifyType, RowType,
           CallbackType, RequestType, JobType, CheckType
  <1> QED  BY TypesInvariant, <1>1, PTL

----------------------------------------------------------------------------
(* A state that is open, or not yet asked for, has stored nothing; only an    *)
(* open one is used, and then it is open no more.                             *)

StatesFresh ==
    /\ saves \in [States -> Nat]
    /\ \A s \in States : oauth[s] \in {"none", "open"} => saves[s] = 0
    /\ StateUsedOnce

LEMMA StatesFreshStep ==
  ASSUME StatesFresh, TokenTypes, [Next]_vars
  PROVE  StatesFresh'
  <1> USE DEF StatesFresh, StateUsedOnce
  <1>1. ASSUME NEW s \in States, AuthStart(s) \/ StateExpires(s) PROVE StatesFresh'
    BY <1>1 DEF AuthStart, StateExpires, TokenTypes
  <1>2. ASSUME NEW c \in Callbacks, Save(c) PROVE StatesFresh'
    <2>1. CASE ~MayUse(callback[c].state)
      BY <1>2, <2>1 DEF Save
    <2>2. CASE MayUse(callback[c].state)
      <3>1. /\ oauth[callback[c].state] = "open"
            /\ oauth' = [oauth EXCEPT ![callback[c].state] = "used"]
            /\ saves' = [saves EXCEPT ![callback[c].state] = @ + 1]
        BY <1>2, <2>2 DEF Save, MayUse
      <3>2. saves' \in [States -> Nat]
        <4>1. CASE callback[c].state \in States
          BY <3>1, <4>1
        <4>2. CASE callback[c].state \notin States
          BY <3>1, <4>2
        <4> QED  BY <4>1, <4>2
      <3>3. ASSUME NEW s \in States
            PROVE  /\ oauth'[s] \in {"none", "open"} => saves'[s] = 0
                   /\ saves'[s] <= 1
        BY <3>1, <3>3 DEF TokenTypes
      <3> QED  BY <3>2, <3>3
    <2> QED  BY <2>1, <2>2
  <1>3. ASSUME UNCHANGED <<oauth, saves>> PROVE StatesFresh'
    BY <1>3
  <1>4. ASSUME NEW c \in Callbacks, NEW s \in States, Exchange(c, s) PROVE StatesFresh'
    BY <1>3, <1>4 DEF Exchange
  <1>5. ASSUME NEW h \in Requests,
               \/ Dedupe(h) \/ Enqueue(h) \/ Mark(h) \/ RequestFails(h)
               \/ \E n \in Installations : Deliver(h, n)
        PROVE  StatesFresh'
    BY <1>3, <1>5 DEF Dedupe, Enqueue, Mark, RequestFails, Deliver, oauthVars
  <1>6. ASSUME NEW n \in Installations, Load(n) \/ Wipe(n) \/ Clean(n) \/ JobFails(n) \/ Lapses(n)
        PROVE  StatesFresh'
    BY <1>3, <1>6 DEF Load, Wipe, Clean, JobFails, Lapses, oauthVars
  <1>7. ASSUME NEW k \in Checks, Pick(k) \/ Ask(k) \/ AskFails(k) PROVE StatesFresh'
    BY <1>3, <1>7 DEF Pick, Ask, AskFails, oauthVars
  <1>8. CASE UNCHANGED vars \/ Uninstall
    BY <1>3, <1>8 DEF vars, oauthVars, Uninstall
  <1> QED  BY <1>1, <1>2, <1>4, <1>5, <1>6, <1>7, <1>8 DEF Next

(* At most one token is stored under a state, however many callbacks with it  *)
(* have passed the look-up: the update that marks it used is conditional.     *)
THEOREM OneTokenPerState == Spec => []StateUsedOnce
  <1>1. Init => StatesFresh
    BY DEF Init, StatesFresh, StateUsedOnce
  <1>2. StatesFresh /\ Types /\ [Next]_vars => StatesFresh'
    BY StatesFreshStep DEF Types
  <1>3. StatesFresh => StateUsedOnce
    BY DEF StatesFresh
  <1> QED  BY TypesInvariant, <1>1, <1>2, <1>3, PTL DEF Spec

----------------------------------------------------------------------------
(* A job that has not wiped yet is excused for every wipe before it: it was   *)
(* kept and forgotten, or its attempt died after the wipe.                    *)

Excuses ==
    /\ wipes \in [Installations -> Nat]
    /\ \A n \in Installations :
        job[n].state \in {"none", "waiting", "handle"} => wipes[n] <= job[n].excused
    /\ WipedOnce

(* What the helpers on jobs do to the state and to the excuses.               *)
LEMMA JobsGo ==
  ASSUME NEW j \in JobType
  PROVE  /\ Added(j).state = IF j.state = "none" THEN "waiting" ELSE j.state
         /\ Failed(j).state = IF j.attempt < MaxAttempts THEN "waiting" ELSE "kept"
         /\ Kept(j).state = "kept"
  BY DEF Added, Failed, Kept, JobType

LEMMA ExcusesStep ==
  ASSUME Excuses, JobTypes, JobTypes', [Next]_vars
  PROVE  Excuses'
  <1>1. ASSUME UNCHANGED <<job, wipes>> PROVE Excuses'
    BY <1>1 DEF Excuses, WipedOnce
  <1>2. ASSUME UNCHANGED wipes,
               \A m \in Installations :
                   /\ job'[m].excused >= job[m].excused
                   /\ job'[m].state \in {"none", "waiting", "handle"} =>
                          \/ job[m].state \in {"none", "waiting", "handle"}
                          \/ wipes[m] <= job'[m].excused
        PROVE  Excuses'
    BY <1>2 DEF Excuses, WipedOnce, JobTypes, JobType
  <1>3. ASSUME NEW h \in Requests, Enqueue(h) PROVE Excuses'
    <2>1. \A m \in Installations : job'[m] \in {job[m], Added(job[m])}
      BY <1>3 DEF Enqueue, JobTypes
    <2>2. \A m \in Installations : job'[m].excused = job[m].excused /\ job[m].excused \in Nat
      BY <2>1, JobsAre DEF JobTypes, JobType
    <2>3. \A m \in Installations : job'[m].state # job[m].state => job[m].state = "none"
      BY <2>1, JobsGo DEF JobTypes
    <2> QED  BY <1>2, <1>3, <2>2, <2>3 DEF Enqueue
  <1>4. ASSUME NEW n \in Installations, Load(n) \/ Clean(n) PROVE Excuses'
    <2>1. \A m \in Installations :
             \/ job'[m] = job[m]
             \/ job[m].state = "waiting" /\ job'[m].excused = job[m].excused
             \/ job'[m] = Kept(job[m])
      <3>1. CASE Load(n)
        <4>1. [job[n] EXCEPT !.state = "handle"].excused = job[n].excused
          BY DEF JobTypes, JobType
        <4> QED  BY <3>1, <4>1, JobsAre DEF Load, JobTypes
      <3>2. CASE Clean(n)
        <4>1. \A m \in Installations : [job[m] EXCEPT !.state = "none"].excused = job[m].excused
          BY DEF JobTypes, JobType
        <4> QED  BY <3>2, <4>1 DEF Clean, Waiting, JobTypes
      <3> QED  BY <1>4, <3>1, <3>2
    <2>2. \A m \in Installations : job'[m].excused = job[m].excused /\ job[m].excused \in Nat
      BY <2>1, JobsAre DEF JobTypes, JobType
    <2>3. \A m \in Installations :
             job'[m].state \in {"none", "waiting", "handle"} =>
                 job[m].state \in {"none", "waiting", "handle"}
      BY <2>1, JobsGo DEF JobTypes
    <2> QED  BY <1>2, <1>4, <2>2, <2>3 DEF Load, Clean
  <1>5. ASSUME NEW n \in Installations, Wipe(n) PROVE Excuses'
    BY <1>5 DEF Excuses, WipedOnce, JobTypes, JobType, Wipe
  <1>6. ASSUME NEW n \in Installations, JobFails(n) PROVE Excuses'
    <2>1. events + 1 <= MaxEvents
      BY <1>6 DEF JobFails, Event, JobTypes
    <2>2. /\ Excused(job[n]) \in JobType
          /\ wipes[n] <= Excused(job[n]).excused
          /\ job[n].excused <= Excused(job[n]).excused
      BY <1>6, <2>1 DEF JobFails, Excused, Excuses, WipedOnce, JobTypes, JobType
    <2>3. /\ wipes[n] <= Failed(Excused(job[n])).excused
          /\ job[n].excused <= Failed(Excused(job[n])).excused
      BY <2>2, JobsAre
    <2>4. \A m \in Installations :
             job'[m] = IF m = n THEN Failed(Excused(job[n])) ELSE job[m]
      BY <1>6 DEF JobFails, JobTypes
    <2> QED  BY <1>2, <1>6, <2>3, <2>4 DEF JobFails, JobTypes, JobType
  <1>7. ASSUME NEW n \in Installations, Lapses(n) PROVE Excuses'
    <2>1. CASE UNCHANGED job
      BY <1>1, <1>7, <2>1 DEF Lapses
    <2>2. CASE /\ job[n].state = "kept"
               /\ job' = [job EXCEPT ![n] = [NoJob EXCEPT !.excused = job[n].excused + 1]]
      <3>1. /\ [NoJob EXCEPT !.excused = job[n].excused + 1].excused = job[n].excused + 1
            /\ wipes[n] <= job[n].excused + 1
        BY DEF NoJob, Excuses, WipedOnce, JobTypes, JobType
      <3>2. \A m \in Installations :
               \/ job'[m] = job[m]
               \/ m = n /\ job'[m].excused = job[m].excused + 1
        BY <2>2, <3>1 DEF JobTypes
      <3> QED  BY <1>2, <1>7, <3>1, <3>2 DEF Lapses, JobTypes, JobType
    <2> QED  BY <1>7, <2>1, <2>2 DEF Lapses
  <1>8. ASSUME NEW h \in Requests,
               \/ Dedupe(h) \/ Mark(h) \/ RequestFails(h)
               \/ \E n \in Installations : Deliver(h, n)
        PROVE  Excuses'
    BY <1>1, <1>8 DEF Dedupe, Mark, RequestFails, Deliver
  <1>9. ASSUME NEW s \in States, AuthStart(s) \/ StateExpires(s) PROVE Excuses'
    BY <1>1, <1>9 DEF AuthStart, StateExpires, hookVars
  <1>10. ASSUME NEW c \in Callbacks, Save(c) \/ \E s \in States : Exchange(c, s)
         PROVE  Excuses'
    BY <1>1, <1>10 DEF Save, Exchange, hookVars
  <1>11. ASSUME NEW k \in Checks, Pick(k) \/ Ask(k) \/ AskFails(k) PROVE Excuses'
    BY <1>1, <1>11 DEF Pick, Ask, AskFails, hookVars
  <1>12. CASE UNCHANGED vars \/ Uninstall
    BY <1>1, <1>12 DEF vars, hookVars, Uninstall
  <1> QED  BY <1>2, <1>3, <1>4, <1>5, <1>6, <1>7, <1>8, <1>9, <1>10, <1>11, <1>12 DEF Next

(* An uninstall wipes the shop once, but for an attempt that died after its   *)
(* wipe and a delivery that came when every trace of the first had lapsed.    *)
THEOREM OneWipePerUninstall == Spec => []WipedOnce
  <1>1. Init => Excuses
    BY DEF Init, Excuses, WipedOnce, NoJob, Installations
  <1>2. Excuses /\ Types /\ Types' /\ [Next]_vars => Excuses'
    BY ExcusesStep DEF Types
  <1>3. Excuses => WipedOnce
    BY DEF Excuses
  <1> QED  BY TypesInvariant, <1>1, <1>2, <1>3, PTL DEF Spec

----------------------------------------------------------------------------
(* A webhook is settled when it was handled, has a job that will handle it,   *)
(* or was lost. Whoever is about to answer, or keeps a later delivery from    *)
(* doing anything - a mark, a kept job, a request past its add - does so for  *)
(* a webhook that is settled; one that was never sent has left no trace.      *)

Settled(n) ==
    \/ hook[n] = "lost"
    \/ wipes[n] > 0
    \/ job[n].state \in {"waiting", "handle"}

TracesAreSettled ==
    \A n \in Installations :
        /\ marked[n] => Settled(n)
        /\ hook[n] = "answered" => Settled(n)
        /\ job[n].state \in {"clean", "kept"} => Settled(n)
        /\ job[n].state = "clean" => wipes[n] > 0

RequestsAreSettled ==
    \A h \in Requests : request[h].pc # "idle" =>
        /\ request[h].hook \in Installations
        /\ hook[request[h].hook] # "none"
        /\ request[h].pc = "mark" => Settled(request[h].hook)

UnsentIsUntouched ==
    \A n \in Installations :
        /\ hook[n] = "none" => job[n].state = "none"
        /\ n > shopify.last => hook[n] = "none"
        /\ n = shopify.last /\ shopify.running => hook[n] = "none"

Answers == TracesAreSettled /\ RequestsAreSettled /\ UnsentIsUntouched

(* A webhook that is settled stays so, and one that was sent stays sent, in   *)
(* every step but those that the lemma is then used for.                      *)
LEMMA AnswersStay ==
  ASSUME Types, Answers,
         UNCHANGED shopify,
         \A n \in Installations :
             /\ Settled(n) => Settled(n)'
             /\ hook[n] = "none" <=> hook'[n] = "none"
             /\ hook'[n] = "answered" => hook[n] = "answered" \/ Settled(n)'
             /\ marked'[n] => marked[n] \/ Settled(n)'
             /\ job'[n].state = job[n].state \/ hook[n] # "none"
             /\ job'[n].state = "clean" => wipes'[n] > 0
             /\ job'[n].state = "kept" => job[n].state = "kept" \/ Settled(n)',
         \A h \in Requests :
             \/ request'[h].pc = "idle"
             \/ /\ request[h].pc # "idle" /\ request'[h].hook = request[h].hook
                /\ request'[h].pc = "mark" => request[h].pc = "mark" \/ Settled(request[h].hook)'
             \/ /\ request'[h].hook \in Installations /\ hook[request'[h].hook] # "none"
                /\ request'[h].pc # "mark"
  PROVE  Answers'
  <1>1. TracesAreSettled'
    BY DEF Answers, TracesAreSettled, Settled
  <1>2. RequestsAreSettled'
    BY DEF Answers, RequestsAreSettled
  <1>3. UnsentIsUntouched'
    BY DEF Answers, UnsentIsUntouched
  <1> QED  BY <1>1, <1>2, <1>3 DEF Answers

(* A step that touches neither the webhooks nor Shopify.                      *)
LEMMA AnswersUntouched ==
  ASSUME Types, Answers, UNCHANGED <<shopify, hook, request, marked, job, wipes>>
  PROVE  Answers'
  BY DEF Answers, TracesAreSettled, RequestsAreSettled, UnsentIsUntouched, Settled

(* The deliveries: a request is of a webhook that was sent.                   *)
LEMMA AnswersRequest ==
  ASSUME Types, Answers, NEW h \in Requests,
         Dedupe(h) \/ Enqueue(h) \/ Mark(h) \/ RequestFails(h)
  PROVE  Answers'
  <1> DEFINE n == request[h].hook
  <1>1. n \in Installations /\ hook[n] # "none" /\ request[h].pc # "idle"
    BY DEF Answers, RequestsAreSettled, Dedupe, Enqueue, Mark, RequestFails
  <1>2. /\ request \in [Requests -> RequestType]
        /\ hook \in [Installations -> {"none", "sent", "answered", "lost"}]
        /\ marked \in [Installations -> BOOLEAN]
        /\ job \in [Installations -> JobType]
    BY DEF Types, HookTypes, JobTypes
  <1>3. NoDelivery.pc = "idle"
    BY DEF NoDelivery
  <1>4. \A m \in Installations :
           /\ job[m].state = "clean" => wipes[m] > 0
           /\ job[m].state = "kept" => Settled(m)
           /\ marked[m] => Settled(m)
    BY DEF Answers, TracesAreSettled
  <1>5. \A m \in Installations :
           Answered(n)[m] = IF m = n /\ hook[m] = "sent" THEN "answered" ELSE hook[m]
    BY <1>2 DEF Answered
  <1>6. \A g \in Requests \ {h} : request'[g] = request[g]
    BY <1>2 DEF Dedupe, Enqueue, Mark, RequestFails
  <1>7. CASE Dedupe(h)
    <2>1. /\ UNCHANGED <<shopify, marked, job, wipes>>
          /\ \/ hook' = Answered(n) /\ marked[n] /\ request'[h] = NoDelivery
             \/ hook' = hook /\ request'[h] = [request[h] EXCEPT !.pc = "enqueue"]
      BY <1>2, <1>7 DEF Dedupe
    <2>2. [request[h] EXCEPT !.pc = "enqueue"].pc = "enqueue"
          /\ [request[h] EXCEPT !.pc = "enqueue"].hook = n
      BY <1>2 DEF RequestType
    <2>3. \A m \in Installations : Settled(m) => Settled(m)'
      BY <1>5, <2>1 DEF Settled
    <2> QED  BY <1>1, <1>2, <1>3, <1>4, <1>5, <1>6, <2>1, <2>2, <2>3, AnswersStay
  <1>8. CASE Enqueue(h)
    <2>1. /\ UNCHANGED <<shopify, hook, marked, wipes>>
          /\ request'[h] = [request[h] EXCEPT !.pc = "mark"]
          /\ job' = [job EXCEPT ![n] = Added(@)]
      BY <1>2, <1>8 DEF Enqueue
    <2>2. /\ [request[h] EXCEPT !.pc = "mark"].pc = "mark"
          /\ [request[h] EXCEPT !.pc = "mark"].hook = n
      BY <1>2 DEF RequestType
    <2>3. \A m \in Installations :
             \/ job'[m] = job[m]
             \/ m = n /\ job[m].state = "none" /\ job'[m].state = "waiting"
      BY <1>2, <2>1, JobsGo DEF Added
    <2>4. \A m \in Installations : Settled(m) => Settled(m)'
      BY <2>1, <2>3 DEF Settled
    <2>5. job'[n].state \in {"waiting", "handle", "clean", "kept"}
      BY <1>1, <1>2, <2>1, JobsGo DEF JobType
    <2>6. wipes'[n] > 0 \/ Settled(n) \/ job'[n].state \in {"waiting", "handle"}
      BY <1>1, <1>4, <2>1, <2>3, <2>5
    <2>7. hook'[n] = "lost" \/ wipes'[n] > 0 \/ job'[n].state \in {"waiting", "handle"}
      BY <1>1, <2>1, <2>3, <2>6 DEF Settled
    <2>8. request'[h].hook = n
      BY <2>1, <2>2
    <2>9. Settled(request[h].hook)'
      BY <2>7, <2>8 DEF Settled
    <2> QED  BY <1>1, <1>2, <1>3, <1>4, <1>6, <2>1, <2>2, <2>3, <2>4, <2>9, AnswersStay
  <1>9. CASE Mark(h)
    <2>1. /\ UNCHANGED <<shopify, job, wipes>>
          /\ hook' = Answered(n) /\ marked' = [marked EXCEPT ![n] = TRUE]
          /\ request'[h] = NoDelivery
          /\ request[h].pc = "mark"
      BY <1>2, <1>9 DEF Mark
    <2>2. \A m \in Installations : Settled(m) => Settled(m)'
      BY <1>5, <2>1 DEF Settled
    <2>3. Settled(n)
      BY <2>1 DEF Answers, RequestsAreSettled
    <2>4. \A m \in Installations : m # n => marked'[m] = marked[m]
      BY <1>2, <2>1
    <2> QED  BY <1>1, <1>2, <1>3, <1>4, <1>5, <1>6, <2>1, <2>2, <2>3, <2>4, AnswersStay
  <1>10. CASE RequestFails(h)
    <2>1. UNCHANGED <<shopify, hook, marked, job, wipes>> /\ request'[h] = NoDelivery
      BY <1>2, <1>10 DEF RequestFails
    <2>2. \A m \in Installations : Settled(m) => Settled(m)'
      BY <2>1 DEF Settled
    <2> QED  BY <1>2, <1>3, <1>4, <1>6, <2>1, <2>2, AnswersStay
  <1> QED  BY <1>7, <1>8, <1>9, <1>10

(* The jobs: one that is kept has wiped, or its webhook is counted as lost.   *)
LEMMA AnswersJob ==
  ASSUME Types, Types', Excuses, Answers, NEW n \in Installations,
         Load(n) \/ Wipe(n) \/ Clean(n) \/ JobFails(n) \/ Lapses(n)
  PROVE  Answers'
  <1>1. /\ hook \in [Installations -> {"none", "sent", "answered", "lost"}]
        /\ marked \in [Installations -> BOOLEAN]
        /\ job \in [Installations -> JobType]
        /\ wipes \in [Installations -> Nat]
    BY DEF Types, HookTypes, JobTypes, Excuses
  <1>2. \A m \in Installations :
           /\ job[m].state = "clean" => wipes[m] > 0
           /\ job[m].state \in {"clean", "kept"} => Settled(m)
           /\ hook[m] = "none" => job[m].state = "none"
    BY DEF Answers, TracesAreSettled, UnsentIsUntouched
  <1>3. \A h \in Requests :
           \/ request[h].pc = "idle"
           \/ /\ request[h].hook \in Installations
              /\ request[h].pc = "mark" => Settled(request[h].hook)
    BY DEF Answers, RequestsAreSettled
  <1>4. ASSUME UNCHANGED <<shopify, request, marked>>,
               \A m \in Installations :
                   /\ Settled(m) => Settled(m)'
                   /\ hook'[m] = hook[m] \/ (hook'[m] = "lost" /\ hook[m] # "none")
                   /\ job'[m].state = job[m].state \/ hook[m] # "none"
                   /\ job'[m].state = "clean" => wipes'[m] > 0
                   /\ job'[m].state = "kept" => job[m].state = "kept" \/ Settled(m)'
        PROVE  Answers'
    <2>1. \A m \in Installations :
             /\ hook[m] = "none" <=> hook'[m] = "none"
             /\ hook'[m] = "answered" => hook[m] = "answered"
      BY <1>4
    <2>2. \A h \in Requests :
             \/ request'[h].pc = "idle"
             \/ /\ request[h].pc # "idle" /\ request'[h].hook = request[h].hook
                /\ request'[h].pc = "mark" => request[h].pc = "mark"
      BY <1>4
    <2> QED  BY <1>4, <2>1, <2>2, AnswersStay
  <1>5. CASE Load(n)
    <2>1. job[n].state = "waiting" /\ hook[n] # "none" /\ UNCHANGED <<shopify, request, marked, wipes>>
      BY <1>2, <1>5 DEF Load
    <2>2. CASE payload[n]
      <3>1. /\ UNCHANGED hook
            /\ \A m \in Installations : m # n => job'[m] = job[m]
            /\ job'[n] = [job[n] EXCEPT !.state = "handle"]
        BY <1>1, <1>5, <2>2 DEF Load
      <3>2. job'[n].state = "handle"
        BY <1>1, <3>1 DEF JobType
      <3>3. \A m \in Installations : Settled(m) => Settled(m)'
        BY <2>1, <3>1, <3>2 DEF Settled
      <3> QED  BY <1>2, <1>4, <2>1, <3>1, <3>2, <3>3
    <2>3. CASE ~payload[n]
      <3>1. /\ \A m \in Installations : m # n => job'[m] = job[m] /\ hook'[m] = hook[m]
            /\ job'[n] = Failed(job[n])
            /\ hook'[n] = IF job[n].attempt < MaxAttempts THEN hook[n] ELSE "lost"
        BY <1>1, <1>5, <2>3 DEF Load, Lost
      <3>2. \/ job'[n].state = "waiting" /\ hook'[n] = hook[n]
            \/ job'[n].state = "kept" /\ hook'[n] = "lost"
        BY <1>1, <3>1, JobsGo
      <3>3. \A m \in Installations : Settled(m) => Settled(m)'
        BY <2>1, <3>1, <3>2 DEF Settled
      <3>4. Settled(n)'
        BY <3>2 DEF Settled
      <3> QED  BY <1>2, <1>4, <2>1, <3>1, <3>2, <3>3, <3>4
    <2> QED  BY <2>2, <2>3
  <1>6. CASE Wipe(n)
    <2>1. /\ UNCHANGED <<shopify, request, marked, hook>>
          /\ \A m \in Installations : m # n => job'[m] = job[m] /\ wipes'[m] = wipes[m]
          /\ wipes'[n] = wipes[n] + 1
          /\ job'[n] = [job[n] EXCEPT !.state = "clean"]
          /\ job[n].state = "handle"
      BY <1>1, <1>6 DEF Wipe
    <2>2. job'[n].state = "clean" /\ wipes'[n] > 0
      BY <1>1, <2>1 DEF JobType
    <2>3. \A m \in Installations : Settled(m) => Settled(m)'
      BY <2>1, <2>2 DEF Settled
    <2> QED  BY <1>2, <1>4, <2>1, <2>2, <2>3
  <1>7. CASE Clean(n)
    <2>1. UNCHANGED <<shopify, request, marked, wipes>> /\ job[n].state = "clean"
      BY <1>7 DEF Clean
    <2>2. \A m \in Installations :
             /\ hook'[m] = IF job[m].state = "waiting" THEN "lost" ELSE hook[m]
             /\ job'[m] = IF m = n THEN Kept(job[m])
                          ELSE IF job[m].state = "waiting" THEN [job[m] EXCEPT !.state = "none"]
                          ELSE job[m]
      BY <1>1, <1>7 DEF Clean, Lost, Waiting
    <2>3. \A m \in Installations : [job[m] EXCEPT !.state = "none"].state = "none"
      BY <1>1 DEF JobType
    <2>4. job'[n].state = "kept" /\ hook'[n] = hook[n] /\ wipes[n] > 0 /\ hook[n] # "none"
      <3>1. job'[n] = Kept(job[n]) /\ hook'[n] = hook[n]
        BY <2>1, <2>2
      <3>2. Kept(job[n]).state = "kept"
        BY <1>1, JobsGo
      <3> QED  BY <1>2, <2>1, <3>1, <3>2
    <2>5. \A m \in Installations : m # n =>
             \/ job'[m] = job[m] /\ hook'[m] = hook[m]
             \/ job[m].state = "waiting" /\ job'[m].state = "none" /\ hook'[m] = "lost"
      BY <2>2, <2>3
    <2>6. \A m \in Installations : Settled(m) => Settled(m)'
      BY <2>1, <2>4, <2>5 DEF Settled
    <2>7. Settled(n)'
      BY <2>1, <2>4 DEF Settled
    <2> QED  BY <1>2, <1>4, <2>1, <2>4, <2>5, <2>6, <2>7
  <1>8. CASE JobFails(n)
    <2>1. /\ UNCHANGED <<shopify, request, marked, wipes>>
          /\ job[n].state \in {"handle", "clean"} /\ hook[n] # "none"
          /\ events + 1 <= MaxEvents
      BY <1>2, <1>8 DEF JobFails, Event, Types, JobTypes
    <2>2. Excused(job[n]) \in JobType /\ Excused(job[n]).attempt = job[n].attempt
      BY <1>1, <2>1 DEF Excused, JobType, Types, JobTypes
    <2>3. /\ \A m \in Installations : m # n => job'[m] = job[m] /\ hook'[m] = hook[m]
          /\ job'[n] = Failed(Excused(job[n]))
          /\ hook'[n] = IF job[n].attempt < MaxAttempts THEN hook[n] ELSE "lost"
      BY <1>1, <1>8 DEF JobFails, Lost
    <2>4. \/ job'[n].state = "waiting" /\ hook'[n] = hook[n]
          \/ job'[n].state = "kept" /\ hook'[n] = "lost"
      BY <2>2, <2>3, JobsGo
    <2>5. \A m \in Installations : Settled(m) => Settled(m)'
      BY <2>1, <2>3, <2>4 DEF Settled
    <2>6. Settled(n)'
      BY <2>4 DEF Settled
    <2> QED  BY <1>2, <1>4, <2>1, <2>3, <2>4, <2>5, <2>6
  <1>9. CASE Lapses(n)
    <2>1. UNCHANGED <<shopify, hook, request, wipes>>
      BY <1>9 DEF Lapses
    <2>2. CASE UNCHANGED <<marked, job>>
      BY <2>1, <2>2, AnswersUntouched
    <2>3. CASE UNCHANGED job /\ marked' = [marked EXCEPT ![n] = FALSE]
      <3>1. \A m \in Installations : marked'[m] => marked[m]
        BY <1>1, <2>3
      <3> QED  BY <2>1, <2>3, <3>1
               DEF Answers, TracesAreSettled, RequestsAreSettled, UnsentIsUntouched, Settled
    <2>4. CASE /\ job[n].state = "kept" /\ UNCHANGED marked
               /\ job' = [job EXCEPT ![n] = [NoJob EXCEPT !.excused = job[n].excused + 1]]
      <3>1. job'[n].state = "none" /\ \A m \in Installations : m # n => job'[m] = job[m]
        BY <1>1, <2>4 DEF NoJob
      <3>2. \A m \in Installations : Settled(m) => Settled(m)'
        BY <2>1, <2>4, <3>1 DEF Settled
      <3>3. hook[n] # "none"
        BY <1>2, <2>4
      <3> QED  BY <1>2, <1>4, <2>1, <2>4, <3>1, <3>2, <3>3
    <2> QED  BY <1>9, <2>2, <2>3, <2>4 DEF Lapses
  <1> QED  BY <1>5, <1>6, <1>7, <1>8, <1>9

LEMMA AnswersStep ==
  ASSUME Types, Types', Excuses, Answers, [Next]_vars
  PROVE  Answers'
  <1>1. /\ hook \in [Installations -> {"none", "sent", "answered", "lost"}]
        /\ request \in [Requests -> RequestType]
        /\ shopify \in ShopifyType
    BY DEF Types, TokenTypes, HookTypes
  <1>2. ASSUME NEW h \in Requests, NEW n \in Installations, Deliver(h, n) PROVE Answers'
    <2>1. /\ UNCHANGED <<shopify, hook, marked, job, wipes>>
          /\ hook[n] # "none"
          /\ request'[h] = [pc |-> "dedupe", hook |-> n]
          /\ \A g \in Requests \ {h} : request'[g] = request[g]
      BY <1>1, <1>2 DEF Deliver
    <2> QED  BY <2>1 DEF Answers, TracesAreSettled, RequestsAreSettled, UnsentIsUntouched, Settled
  <1>3. CASE Uninstall
    <2>1. /\ UNCHANGED <<request, marked, job, wipes>>
          /\ shopify.running /\ ~shopify'.running /\ shopify'.last = shopify.last
          /\ \A n \in Installations :
                \/ hook'[n] = hook[n]
                \/ hook'[n] = "sent" /\ n = shopify.last /\ hook[n] = "none"
      BY <1>1, <1>3 DEF Uninstall, ShopifyType, Answers, UnsentIsUntouched
    <2>2. \A n \in Installations : Settled(n) => Settled(n)'
      BY <2>1 DEF Settled
    <2>3. TracesAreSettled' /\ RequestsAreSettled'
      BY <2>1, <2>2 DEF Answers, TracesAreSettled, RequestsAreSettled, Settled
    <2>4. UnsentIsUntouched'
      BY <1>1, <2>1 DEF Answers, UnsentIsUntouched, ShopifyType, Installations
    <2> QED  BY <2>3, <2>4 DEF Answers
  <1>4. ASSUME NEW c \in Callbacks, NEW s \in States, Exchange(c, s) PROVE Answers'
    <2>1. /\ UNCHANGED <<hook, request, marked, job, wipes>>
          /\ shopify'.last \in {shopify.last, shopify.last + 1}
          /\ shopify'.last = shopify.last => shopify.running
      BY <1>1, <1>4 DEF Exchange, Granted, hookVars, ShopifyType
    <2>2. TracesAreSettled' /\ RequestsAreSettled'
      BY <2>1 DEF Answers, TracesAreSettled, RequestsAreSettled, Settled
    <2>3. UnsentIsUntouched'
      BY <1>1, <2>1 DEF Answers, UnsentIsUntouched, ShopifyType, Installations
    <2> QED  BY <2>2, <2>3 DEF Answers
  <1>5. ASSUME NEW c \in Callbacks, Save(c) PROVE Answers'
    <2>1. /\ UNCHANGED <<hook, request, marked, job, wipes>>
          /\ shopify'.last = shopify.last /\ shopify'.running = shopify.running
      BY <1>1, <1>5 DEF Save, Registered, hookVars, ShopifyType
    <2> QED  BY <2>1
             DEF Answers, TracesAreSettled, RequestsAreSettled, UnsentIsUntouched, Settled
  <1>6. ASSUME NEW s \in States, AuthStart(s) \/ StateExpires(s) PROVE Answers'
    BY <1>6, AnswersUntouched DEF AuthStart, StateExpires, hookVars
  <1>7. ASSUME NEW k \in Checks, Pick(k) \/ Ask(k) \/ AskFails(k) PROVE Answers'
    BY <1>7, AnswersUntouched DEF Pick, Ask, AskFails, hookVars
  <1>8. CASE UNCHANGED vars
    BY <1>8, AnswersUntouched DEF vars, hookVars
  <1> QED  BY <1>2, <1>3, <1>4, <1>5, <1>6, <1>7, <1>8, AnswersRequest, AnswersJob DEF Next

(* A webhook that was answered with 200 has been handled, or has a job that   *)
(* will, unless its payload or its attempts gave out or the handler of        *)
(* another uninstall removed its job: the mark comes last of the three        *)
(* writes, and a duplicate is answered because of a mark.                     *)
THEOREM AnswersKept == Spec => []AnswerIsKept
  <1>1. Init => Excuses /\ Answers
    BY DEF Init, Excuses, WipedOnce, NoJob, Installations, Answers, TracesAreSettled,
           RequestsAreSettled, UnsentIsUntouched, Settled, NoDelivery
  <1>2. Excuses /\ Answers /\ Types /\ Types' /\ [Next]_vars => (Excuses /\ Answers)'
    BY ExcusesStep, AnswersStep DEF Types
  <1>3. Answers => AnswerIsKept
    BY DEF Answers, TracesAreSettled, AnswerIsKept, Settled
  <1> QED  BY TypesInvariant, <1>1, <1>2, <1>3, PTL DEF Spec
============================================================================
