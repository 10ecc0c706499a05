--------------------------- MODULE ConsensusProofs ----------------------------
(* Theorems about Consensus, for any number of connections, jobs, values,     *)
(* events, attempts and troubles.                                             *)
EXTENDS Consensus, SequenceTheorems, TLAPS

SnapType == [version : Nat \ {0}, value : Values \cup {None}, manual : BOOLEAN, current : BOOLEAN]
JobType == [state : {"none", "waiting", "active", "done"}, tries : 0 .. JobAttempts - 1]
HookType == [state : {"none", "waiting", "sending", "accepted", "done"}, tries : 0 .. HookAttempts - 1]
VoteType == [value : Values \cup {None, "conflict"}, merit : Levels]

-----------------------------------------------------------------------------
(* Transactions. What one has in hand fits the place it has come to: its row  *)
(* lock on prod_master, what it has read and written, and its event.          *)

Writers == {"consensus", "resolve"}

Fits(t) ==
    /\ t.pc = "idle" => t = Idle
    /\ t.kind = "none" => t.pc = "idle"
    /\ t.kind = "consensus" => t.job \in Jobs /\ ~t.manual
    /\ t.pc = "snap" \/ t.row => t.ver # 0 /\ t.kind \in Writers
    /\ t.kind = "consensus" /\ (t.pc \in {"current", "snap", "level"} \/ t.row) => t.master
    /\ t.pc = "merge" => t.kind = "consensus"
    /\ t.pc \in {"compute", "merge", "master", "current", "snap"} => ~t.row
    /\ t.event # 0 => t.master /\ t.pc \in {"unlock", "commit", "rollback"}
    /\ ~t.ok => t.pc \in {"unlock", "rollback"}
    /\ t.kind = "resolve" => t.manual /\ t.level = "none" /\ t.event = 0
    /\ t.kind = "consensus" => (t.level # "none" => t.event # 0)
    /\ t.kind = "setlevel" => t.level # "none" /\ (t.pc = "commit" => t.event # 0)
    /\ t.pc \in {"current", "snap"} => t.kind \in Writers

TxShape ==
    /\ tx \in [Conns -> TxType]
    /\ \A c \in Conns : Fits(tx[c])

(* One transaction at a time has the row of prod_master.                      *)
MasterAlone == \A c, d \in Conns : tx[c].master /\ tx[d].master => c = d

(* Without the hazard, a resolve is alone with the snapshots.                 *)
Clash(k, l) == {k, l} \in {{"consensus", "resolve"}, {"resolve"}}
NobodyClashes ==
    "overlap" \notin Hazards => \A c, d \in Conns : c # d => ~Clash(tx[c].kind, tx[d].kind)

(* What every step is for the transactions.                                   *)
Moves(c, t) ==
    /\ c \in Conns /\ t \in TxType /\ Fits(t)
    /\ tx' = [tx EXCEPT ![c] = t]
    /\ t.master => tx[c].master \/ MasterFree(c)
    /\ t.kind \in {tx[c].kind, "none"} \/ NoOverlap(t.kind)

LEMMA IdleFits == Idle \in TxType /\ Fits(Idle)
  BY EventBounds DEF Idle, TxType, Fits, Levels, Writers

LEMMA MovesShape ==
  ASSUME TxShape, MasterAlone, NobodyClashes,
         UNCHANGED tx \/ \E c : \E t : Moves(c, t)
  PROVE  TxShape' /\ MasterAlone' /\ NobodyClashes'
  <1>1. CASE UNCHANGED tx
    BY <1>1 DEF TxShape, MasterAlone, NobodyClashes
  <1>2. ASSUME NEW c, NEW t, Moves(c, t)
        PROVE  TxShape' /\ MasterAlone' /\ NobodyClashes'
    <2>1. /\ c \in Conns /\ t \in TxType /\ Fits(t)
          /\ tx' \in [Conns -> TxType] /\ tx'[c] = t
          /\ \A d \in Conns \ {c} : tx'[d] = tx[d]
      BY <1>2 DEF Moves, TxShape
    <2>2. TxShape'
      BY <2>1 DEF TxShape
    <2>3. MasterAlone'
      BY <1>2, <2>1 DEF Moves, MasterAlone, MasterFree
    <2>4. ASSUME "overlap" \notin Hazards, NEW d \in Conns \ {c}
          PROVE  ~Clash(t.kind, tx[d].kind)
      <3>1. CASE t.kind = "none"
        BY <3>1 DEF Clash
      <3>2. CASE t.kind = tx[c].kind
        BY <2>1, <2>4, <3>2 DEF NobodyClashes
      <3>3. CASE NoOverlap(t.kind)
        <4>1. CASE Open(d)
          BY <2>4, <3>3, <4>1 DEF NoOverlap, Clash
        <4>2. CASE ~Open(d)
          BY <4>2 DEF Open, TxShape, Fits, Idle, Clash
        <4> QED  BY <4>1, <4>2
      <3> QED  BY <1>2, <3>1, <3>2, <3>3 DEF Moves
    <2>5. \A k, l : Clash(k, l) <=> Clash(l, k)
      BY DEF Clash
    <2>6. NobodyClashes'
      BY <2>1, <2>4, <2>5 DEF NobodyClashes
    <2> QED  BY <2>2, <2>3, <2>6
  <1> QED  BY <1>1, <1>2

-----------------------------------------------------------------------------
(* What else the types are about.                                             *)

SnapsTyped ==
    /\ snaps \in Seq(SnapType)
    /\ level \in Levels
    /\ votes \in VoteType

LEMMA SnapsAre ==
  ASSUME SnapsTyped
  PROVE  /\ \A i \in DOMAIN snaps : snaps[i] \in SnapType /\ i \in Nat \ {0}
         /\ \A i \in SomeCurrent : /\ i \in Nat
                                   /\ ValueOf(i) \in Values \cup {None}
                                   /\ VersionOf(i) \in Nat
         /\ \A i \in SomeCurrent, v \in Values \cup {None} : MergedValue(v, i) \in Values \cup {None}
  <1>1. \A i \in DOMAIN snaps : snaps[i] \in SnapType /\ i \in Nat \ {0}
    BY DEF SnapsTyped
  <1>2. ASSUME NEW i \in SomeCurrent
        PROVE  i \in Nat /\ ValueOf(i) \in Values \cup {None} /\ VersionOf(i) \in Nat
    BY <1>1, <1>2 DEF SomeCurrent, CurrentRows, ValueOf, VersionOf, SnapType
  <1> QED  BY <1>1, <1>2 DEF MergedValue

(* The steps of a transaction, one by one.                                    *)
LEMMA BeginsMove ==
  ASSUME TxShape, level \in Levels, NEW c \in Conns,
         \/ \E j \in Jobs : TakeJob(c, j)
         \/ \E v \in Values : ResolveBegins(c, v)
         \/ \E l \in Asked : SetLevelBegins(c, l)
  PROVE  \E t : Moves(c, t)
  <1>1. ASSUME NEW j \in Jobs, TakeJob(c, j) PROVE \E t : Moves(c, t)
    <2> DEFINE t == [Idle EXCEPT !.kind = "consensus", !.pc = "compute", !.job = j]
    <2>1. t \in TxType
      BY IdleFits DEF TxType
    <2>2. Fits(t) /\ ~t.master /\ t.kind = "consensus"
      BY DEF Idle, Fits, Writers
    <2>3. tx' = [tx EXCEPT ![c] = t] /\ NoOverlap("consensus")
      BY <1>1 DEF TakeJob
    <2> HIDE DEF t
    <2> QED  BY <2>1, <2>2, <2>3 DEF Moves
  <1>2. ASSUME NEW v \in Values, ResolveBegins(c, v) PROVE \E t : Moves(c, t)
    <2> DEFINE t == [Idle EXCEPT !.kind = "resolve", !.pc = "current", !.value = v, !.manual = TRUE]
    <2>1. t \in TxType
      BY IdleFits DEF TxType
    <2>2. Fits(t) /\ ~t.master /\ t.kind = "resolve"
      BY DEF Idle, Fits, Writers
    <2>3. tx' = [tx EXCEPT ![c] = t] /\ NoOverlap("resolve")
      BY <1>2 DEF ResolveBegins
    <2> HIDE DEF t
    <2> QED  BY <2>1, <2>2, <2>3 DEF Moves
  <1>3. ASSUME NEW l \in Asked, SetLevelBegins(c, l) PROVE \E t : Moves(c, t)
    <2> DEFINE t == [Idle EXCEPT !.kind = "setlevel", !.pc = "level", !.merit = level, !.level = l]
    <2>1. l \in Levels /\ l # "none"
      BY ConsensusBounds DEF Levels
    <2>2. t \in TxType
      BY IdleFits, <2>1 DEF TxType
    <2>3. Fits(t) /\ ~t.master /\ t.kind = "setlevel"
      BY <2>1 DEF Idle, Fits, Writers
    <2>4. NoOverlap("setlevel")
      BY DEF NoOverlap
    <2>5. tx' = [tx EXCEPT ![c] = t]
      BY <1>3 DEF SetLevelBegins
    <2> HIDE DEF t
    <2> QED  BY <2>2, <2>3, <2>4, <2>5 DEF Moves
  <1> QED  BY <1>1, <1>2, <1>3

LEMMA ReadsMove ==
  ASSUME TxShape, SnapsTyped, NEW c \in Conns,
         Compute(c) \/ Merge(c) \/ UpdateMaster(c) \/ ReadCurrent(c) \/ WriteSnapshot(c)
  PROVE  \E t : Moves(c, t)
  <1>1. tx[c] \in TxType /\ Fits(tx[c])
    BY DEF TxShape
  <1>2. CASE Compute(c)
    <2>1. PICK v \in Values \cup {None} :
             tx' = [tx EXCEPT ![c] = [tx[c] EXCEPT !.value = v, !.merit = votes.merit, !.pc = "merge"]]
      BY <1>2 DEF Compute
    <2> DEFINE t == [tx[c] EXCEPT !.value = v, !.merit = votes.merit, !.pc = "merge"]
    <2>2. votes.merit \in Levels
      BY DEF SnapsTyped, VoteType
    <2>3. t \in TxType /\ Fits(t) /\ t.master = tx[c].master /\ t.kind = tx[c].kind
      BY <1>1, <1>2, <2>2 DEF Compute, At, TxType, Fits
    <2> QED  BY <2>1, <2>3 DEF Moves
  <1>3. CASE Merge(c)
    <2>1. PICK i \in SomeCurrent :
             tx' = [tx EXCEPT ![c] = [tx[c] EXCEPT !.value = MergedValue(tx[c].value, i), !.pc = "master"]]
      BY <1>3 DEF Merge
    <2> DEFINE v == MergedValue(tx[c].value, i)
               t == [tx[c] EXCEPT !.value = v, !.pc = "master"]
    <2>2. v \in Values \cup {None}
      BY <1>1, SnapsAre DEF TxType
    <2> HIDE DEF v
    <2>3. t \in TxType /\ Fits(t) /\ t.master = tx[c].master /\ t.kind = tx[c].kind
      BY <1>1, <1>3, <2>2 DEF Merge, At, TxType, Fits
    <2> QED  BY <2>1, <2>3 DEF Moves, v
  <1>4. CASE UpdateMaster(c)
    <2> DEFINE t == [tx[c] EXCEPT !.master = TRUE, !.pc = "current"]
    <2>1. t \in TxType /\ Fits(t) /\ t.kind = tx[c].kind
      BY <1>1, <1>4 DEF UpdateMaster, At, TxType, Fits, Writers
    <2> QED  BY <1>4, <2>1 DEF UpdateMaster, Moves
  <1>5. CASE ReadCurrent(c)
    <2>1. PICK i \in SomeCurrent :
             tx' = [tx EXCEPT ![c] = [tx[c] EXCEPT !.cur = i, !.ver = VersionOf(i) + 1, !.pc = "snap"]]
      BY <1>5 DEF ReadCurrent
    <2> DEFINE v == VersionOf(i) + 1
               t == [tx[c] EXCEPT !.cur = i, !.ver = v, !.pc = "snap"]
    <2>2. i \in Nat /\ v \in Nat /\ v # 0
      BY SnapsAre
    <2> HIDE DEF v
    <2>3. t \in TxType /\ Fits(t) /\ t.master = tx[c].master /\ t.kind = tx[c].kind
      BY <1>1, <1>5, <2>2 DEF ReadCurrent, TxType, Fits
    <2> QED  BY <2>1, <2>3 DEF Moves, v
  <1>6. CASE WriteSnapshot(c)
    <2> DEFINE p == IF tx[c].kind = "consensus" THEN "level" ELSE "commit"
               t == [tx[c] EXCEPT !.row = TRUE, !.pc = p]
    <2>1. tx[c].pc = "snap" /\ tx' = [tx EXCEPT ![c] = t]
      BY <1>6 DEF WriteSnapshot
    <2>2. t \in TxType /\ Fits(t) /\ t.master = tx[c].master /\ t.kind = tx[c].kind
      BY <1>1, <2>1 DEF TxType, Fits, Writers
    <2> QED  BY <2>1, <2>2 DEF Moves
  <1> QED  BY <1>2, <1>3, <1>4, <1>5, <1>6

LEMMA EndsMove ==
  ASSUME TxShape, level \in Levels, NEW c \in Conns,
         \/ KeepLevel(c) \/ ChangeLevel(c) \/ Unlock(c) \/ SetLevel(c) \/ Commit(c) \/ Rollback(c)
         \/ StatementFails(c) \/ ComputeThrows(c) \/ ConnDies(c)
  PROVE  \E t : Moves(c, t)
  <1>1. tx[c] \in TxType /\ Fits(tx[c])
    BY DEF TxShape
  <1>2. ASSUME NEW p \in {"unlock", "commit", "rollback"}, tx' = [tx EXCEPT ![c] = [tx[c] EXCEPT !.pc = p]],
               Fits([tx[c] EXCEPT !.pc = p])
        PROVE  \E t : Moves(c, t)
    <2> DEFINE t == [tx[c] EXCEPT !.pc = p]
    <2>1. t \in TxType /\ t.master = tx[c].master /\ t.kind = tx[c].kind
      BY <1>1 DEF TxType
    <2> QED  BY <1>2, <2>1 DEF Moves
  <1>3. CASE KeepLevel(c)
    <2>1. Fits([tx[c] EXCEPT !.pc = "unlock"])
      BY <1>1, <1>3 DEF KeepLevel, At, TxType, Fits
    <2> QED  BY <1>2, <1>3, <2>1 DEF KeepLevel, Goto
  <1>4. CASE Unlock(c)
    <2>1. Fits([tx[c] EXCEPT !.pc = IF tx[c].ok THEN "commit" ELSE "rollback"])
      BY <1>1, <1>4 DEF Unlock, At, TxType, Fits
    <2> QED  BY <1>2, <1>4, <2>1 DEF Unlock, Goto
  <1>5. CASE StatementFails(c)
    <2>1. Fits([tx[c] EXCEPT !.pc = "rollback"])
      BY <1>1, <1>5 DEF StatementFails, TxType, Fits
    <2> QED  BY <1>2, <1>5, <2>1 DEF StatementFails, Goto
  <1>6. CASE ComputeThrows(c)
    <2> DEFINE t == [tx[c] EXCEPT !.pc = "unlock", !.ok = FALSE]
    <2>1. t \in TxType /\ Fits(t) /\ t.master = tx[c].master /\ t.kind = tx[c].kind
      BY <1>1, <1>6 DEF ComputeThrows, At, TxType, Fits
    <2> QED  BY <1>6, <2>1 DEF ComputeThrows, Moves
  <1>7. CASE Commit(c) \/ Rollback(c) \/ ConnDies(c)
    <2>1. Idle.kind = "none" /\ ~Idle.master
      BY DEF Idle
    <2> QED  BY <1>7, <2>1, IdleFits DEF Commit, Rollback, ConnDies, Moves
  <1>8. \A e \in FreshEvents : e \in 0 .. MaxEvents /\ e # 0
    BY EventBounds DEF FreshEvents, Events
  <1>9. CASE ChangeLevel(c)
    <2> DEFINE l == NextLevel(level, tx[c].merit)
    <2>1. l \in Levels /\ l # "none"
      BY <1>1 DEF NextLevel, TxType, Levels
    <2> HIDE DEF l
    <2>2. PICK e \in FreshEvents :
             \/ tx' = [tx EXCEPT ![c] = [tx[c] EXCEPT !.level = l, !.event = e, !.pc = "unlock"]]
             \/ tx' = [tx EXCEPT ![c] = [tx[c] EXCEPT !.event = e, !.pc = "unlock", !.ok = FALSE]]
      BY <1>9 DEF ChangeLevel, l
    <2>3. [tx[c] EXCEPT !.level = l, !.event = e, !.pc = "unlock"] \in TxType
      BY <1>1, <1>8, <2>1 DEF TxType
    <2>4. [tx[c] EXCEPT !.event = e, !.pc = "unlock", !.ok = FALSE] \in TxType
      BY <1>1, <1>8 DEF TxType
    <2>5. At(c, "consensus", "level") /\ tx[c].master
      BY <1>1, <1>9 DEF ChangeLevel, At, Fits
    <2>6. Fits([tx[c] EXCEPT !.level = l, !.event = e, !.pc = "unlock"])
      BY <1>1, <1>8, <2>1, <2>5 DEF At, TxType, Fits
    <2>7. Fits([tx[c] EXCEPT !.event = e, !.pc = "unlock", !.ok = FALSE])
      BY <1>1, <1>8, <2>5 DEF At, TxType, Fits
    <2>8. [tx[c] EXCEPT !.level = l, !.event = e, !.pc = "unlock"].kind = tx[c].kind
          /\ [tx[c] EXCEPT !.event = e, !.pc = "unlock", !.ok = FALSE].kind = tx[c].kind
      BY <1>1 DEF TxType
    <2> QED  BY <2>2, <2>3, <2>4, <2>5, <2>6, <2>7, <2>8 DEF Moves
  <1>10. CASE SetLevel(c)
    <2>1. PICK e \in FreshEvents :
             tx' = [tx EXCEPT ![c] = [tx[c] EXCEPT !.master = TRUE, !.event = e, !.pc = "commit"]]
      BY <1>10 DEF SetLevel
    <2> DEFINE t == [tx[c] EXCEPT !.master = TRUE, !.event = e, !.pc = "commit"]
    <2>2. t \in TxType /\ Fits(t) /\ t.kind = tx[c].kind
      BY <1>1, <1>8, <1>10 DEF SetLevel, At, TxType, Fits, Writers
    <2> QED  BY <1>10, <2>1, <2>2 DEF SetLevel, Moves
  <1> QED  BY <1>3, <1>4, <1>5, <1>6, <1>7, <1>9, <1>10

-----------------------------------------------------------------------------
(* Delivery. Everything is about one event at a time: what its row, its two   *)
(* jobs, the sweep and the endpoint say of it. Each time the endpoint may yet *)
(* accept it is counted before it happens (Owed).                             *)

EventsTyped ==
    /\ event \in [Events -> EventType]
    /\ hook \in [HookIds -> HookType]
    /\ config \in BOOLEAN
    /\ sweep \subseteq Events
    /\ retrying \in 0 .. MaxEvents
    /\ received \in [Events -> Nat]

Pending(e, tag) == hook[<<e, tag>>].state \in {"waiting", "sending"}
FirstOwed(e) ==
    \/ Pending(e, "first")
    \/ hook[<<e, "first">>].state \in {"none", "done"} /\ event[e].state # "sent"
    \/ hook[<<e, "first">>].state = "none" /\ e \in sweep
Owed(e) == (IF FirstOwed(e) THEN 1 ELSE 0) + (IF Pending(e, "again") THEN 1 ELSE 0)
           + (IF retrying = e THEN 1 ELSE 0)

Backed(e) ==
    /\ \A tag \in Tags : hook[<<e, tag>>].state \in {"sending", "accepted"} => Visible(e)
    /\ \A tag \in Tags : hook[<<e, tag>>].state = "accepted" => received[e] > 0
    /\ e \in sweep => Visible(e)
    /\ event[e].state = "sent" => received[e] > 0 \/ event[e].mute
Paid(e) == received[e] + Owed(e) <= 1 + 2 * event[e].resets + event[e].unheard

EventsInv == EventsTyped /\ \A e \in Events : Backed(e) /\ Paid(e)

(* A step is about one event when it leaves all others as they are.           *)
Same(e) ==
    /\ event'[e] = event[e]
    /\ \A tag \in Tags : hook'[<<e, tag>>] = hook[<<e, tag>>]
    /\ e \in sweep' <=> e \in sweep
    /\ retrying' = e <=> retrying = e
    /\ received'[e] = received[e]
About(e) == EventsTyped' /\ \A f \in Events \ {e} : Same(f)

LEMMA AboutOne ==
  ASSUME EventsInv, NEW e \in Events, About(e), Backed(e)', Paid(e)'
  PROVE  EventsInv'
  <1>1. ASSUME NEW f \in Events \ {e} PROVE (Backed(f) /\ Paid(f))'
    <2>1. Backed(f) /\ Paid(f) /\ Same(f)
      BY DEF EventsInv, About
    <2>2. (Backed(f))'
      BY <2>1 DEF Same, Backed, Visible, Tags
    <2>3. (FirstOwed(f))' = FirstOwed(f)
      BY <2>1 DEF Same, FirstOwed, Pending, Tags
    <2>4. (Paid(f))'
      BY <2>1, <2>3 DEF Same, Paid, Owed, Pending, Tags
    <2> QED  BY <2>2, <2>4
  <1>2. \A f \in Events : (Backed(f) /\ Paid(f))'
    BY <1>1
  <1> QED  BY <1>2 DEF EventsInv, About

(* What the jobs become.                                                      *)
Turned(h, states) ==
    \E r \in HookType : r.state \in states /\ hook' = [hook EXCEPT ![h] = r]

LEMMA HookTurns ==
  ASSUME EventsTyped, NEW h \in HookIds
  PROVE  /\ HookDone(h) => Turned(h, {"done"})
         /\ HookFailed(h) => Turned(h, {"waiting", "done"})
         /\ hook' = HookAdded(h) =>
              \/ Turned(h, {"waiting"}) /\ hook[h].state \in {"none", "done"}
                                        /\ (h[2] = "first" => hook[h].state = "none")
              \/ hook' = hook
         /\ hook' = [hook EXCEPT ![h].state = "sending"] => Turned(h, {"sending"})
         /\ hook' = [hook EXCEPT ![h].state = "accepted"] => Turned(h, {"accepted"})
         /\ hook' = [hook EXCEPT ![h] = [state |-> "none", tries |-> 0]] => Turned(h, {"none"})
  <1>1. hook[h] \in HookType
    BY DEF EventsTyped
  <1>2. ASSUME NEW s \in {"none", "waiting", "sending", "accepted", "done"}
        PROVE  hook' = [hook EXCEPT ![h].state = s] => Turned(h, {s})
    <2>1. [hook[h] EXCEPT !.state = s] \in HookType /\ [hook[h] EXCEPT !.state = s].state = s
      BY <1>1 DEF HookType
    <2> QED  BY <2>1 DEF Turned
  <1>3. ASSUME NEW s \in {"none", "waiting", "done"}, NEW n \in 0 .. HookAttempts - 1
        PROVE  [state |-> s, tries |-> n] \in HookType
    BY DEF HookType
  <1>4. 0 \in 0 .. HookAttempts - 1 /\ hook[h].tries \in 0 .. HookAttempts - 1
    BY <1>1, EventBounds DEF HookType
  <1>5. HookDone(h) => Turned(h, {"done"})
    BY <1>2 DEF HookDone
  <1>6. ASSUME HookFailed(h) PROVE Turned(h, {"waiting", "done"})
    <2>1. CASE hook[h].tries + 1 < HookAttempts
      <3>1. [state |-> "waiting", tries |-> hook[h].tries + 1] \in HookType
        BY <1>1, <1>3, <1>4, <2>1, EventBounds
      <3> QED  BY <1>6, <2>1, <3>1 DEF HookFailed, Turned
    <2>2. CASE ~(hook[h].tries + 1 < HookAttempts)
      <3>1. [state |-> "done", tries |-> hook[h].tries] \in HookType
        BY <1>3, <1>4
      <3> QED  BY <1>6, <2>2, <3>1 DEF HookFailed, Turned
    <2> QED  BY <2>1, <2>2
  <1>7. ASSUME hook' = HookAdded(h)
        PROVE  \/ Turned(h, {"waiting"}) /\ hook[h].state \in {"none", "done"}
                                         /\ (h[2] = "first" => hook[h].state = "none")
               \/ hook' = hook
    BY <1>3, <1>4, <1>7 DEF HookAdded, Turned
  <1>8. hook' = [hook EXCEPT ![h] = [state |-> "none", tries |-> 0]] => Turned(h, {"none"})
    BY <1>3, <1>4 DEF Turned
  <1> QED  BY <1>2, <1>5, <1>6, <1>7, <1>8

(* A step is about e when what it changes is.                                 *)
Local(e) ==
    /\ event' \in [Events -> EventType] /\ \A f \in Events \ {e} : event'[f] = event[f]
    /\ received' \in [Events -> Nat] /\ \A f \in Events \ {e} : received'[f] = received[f]
    /\ config' \in BOOLEAN
    /\ sweep' \subseteq Events /\ \A f \in Events \ {e} : f \in sweep' <=> f \in sweep
    /\ retrying' \in 0 .. MaxEvents
    /\ \A f \in Events \ {e} : retrying' = f <=> retrying = f

LEMMA JobTurns ==
  ASSUME EventsTyped, NEW e \in Events, NEW tag \in Tags, NEW states,
         Turned(<<e, tag>>, states), Local(e)
  PROVE  /\ About(e)
         /\ hook'[<<e, tag>>].state \in states
         /\ \A other \in Tags \ {tag} : hook'[<<e, other>>] = hook[<<e, other>>]
  <1>1. PICK r \in HookType : r.state \in states /\ hook' = [hook EXCEPT ![<<e, tag>>] = r]
    BY DEF Turned
  <1>2. <<e, tag>> \in HookIds
    BY DEF HookIds
  <1>3. hook' \in [HookIds -> HookType] /\ hook'[<<e, tag>>] = r
    BY <1>1, <1>2 DEF EventsTyped
  <1>4. \A f \in Events, other \in Tags :
          f # e \/ other # tag => hook'[<<f, other>>] = hook[<<f, other>>]
    BY <1>1, <1>2 DEF EventsTyped, HookIds
  <1>5. EventsTyped'
    BY <1>3 DEF EventsTyped, Local
  <1> QED  BY <1>1, <1>3, <1>4, <1>5 DEF About, Same, Local

LEMMA JobsStay ==
  ASSUME EventsTyped, NEW e \in Events, Local(e), hook' = hook
  PROVE  About(e)
  BY DEF EventsTyped, About, Same, Local

(* A step of the dispatch worker.                                             *)
LEMMA WorkerKeeps ==
  ASSUME EventsInv, NEW e \in Events, NEW tag \in Tags,
         \/ HookStep(<<e, tag>>) \/ HookRefused(<<e, tag>>) \/ HookDies(<<e, tag>>)
         \/ HookUnheard(<<e, tag>>) \/ HookPruned(<<e, tag>>)
  PROVE  EventsInv'
  <1> DEFINE h == <<e, tag>>
  <1>1. EventsTyped /\ Backed(e) /\ Paid(e) /\ h \in HookIds /\ h[1] = e
    BY DEF EventsInv, HookIds
  <1>2. event[e] \in EventType /\ hook[h] \in HookType /\ received[e] \in Nat /\ e \in Nat
    BY <1>1 DEF EventsTyped, Events
  <1>3. Tags = {"first", "again"}
    BY DEF Tags
  <1>4. CASE HookUnknown(h)
    <2>1. Turned(h, {"done"}) /\ hook[h].state = "waiting" /\ ~Visible(e)
          /\ UNCHANGED <<event, config, sweep, retrying, received>>
      BY <1>1, <1>4, HookTurns DEF HookUnknown
    <2>2. About(e) /\ hook'[h].state = "done"
          /\ \A other \in Tags \ {tag} : hook'[<<e, other>>] = hook[<<e, other>>]
      BY <1>1, <2>1, JobTurns DEF EventsTyped, Local
    <2>3. Backed(e)'
      BY <1>1, <1>3, <2>1, <2>2 DEF Backed, Visible
    <2>4. Paid(e)'
      BY <1>1, <1>2, <1>3, <2>1, <2>2 DEF Paid, Owed, FirstOwed, Pending, Visible, EventType
    <2> QED  BY <2>2, <2>3, <2>4, AboutOne
  <1>5. CASE HookSkipped(h)
    <2> DEFINE row == [event[e] EXCEPT !.state = "sent", !.mute = TRUE]
    <2>1. Turned(h, {"done"}) /\ hook[h].state = "waiting" /\ Visible(e)
          /\ event' = [event EXCEPT ![e] = row]
          /\ UNCHANGED <<config, sweep, retrying, received>>
      BY <1>1, <1>5, HookTurns DEF HookSkipped
    <2>2. row \in EventType /\ row.state = "sent" /\ row.mute /\ row.resets = event[e].resets
          /\ row.unheard = event[e].unheard
      BY <1>2 DEF EventType
    <2> HIDE DEF row
    <2>3. event' \in [Events -> EventType] /\ event'[e] = row
          /\ \A f \in Events \ {e} : event'[f] = event[f]
      BY <1>1, <2>1, <2>2 DEF EventsTyped
    <2>4. About(e) /\ hook'[h].state = "done"
          /\ \A other \in Tags \ {tag} : hook'[<<e, other>>] = hook[<<e, other>>]
      BY <1>1, <2>1, <2>3, JobTurns DEF EventsTyped, Local
    <2>5. Backed(e)'
      BY <1>1, <1>3, <2>1, <2>2, <2>3, <2>4 DEF Backed, Visible
    <2>6. Paid(e)'
      BY <1>1, <1>2, <1>3, <2>1, <2>2, <2>3, <2>4 DEF Paid, Owed, FirstOwed, Pending, EventType
    <2> QED  BY <2>4, <2>5, <2>6, AboutOne
  <1>6. CASE HookSends(h)
    <2>1. Turned(h, {"sending"}) /\ hook[h].state = "waiting" /\ Visible(e)
          /\ UNCHANGED <<event, config, sweep, retrying, received>>
      BY <1>1, <1>6, HookTurns DEF HookSends
    <2>2. About(e) /\ hook'[h].state = "sending"
          /\ \A other \in Tags \ {tag} : hook'[<<e, other>>] = hook[<<e, other>>]
      BY <1>1, <2>1, JobTurns DEF EventsTyped, Local
    <2>3. Backed(e)'
      BY <1>1, <1>3, <2>1, <2>2 DEF Backed, Visible
    <2>4. Paid(e)'
      BY <1>1, <1>2, <1>3, <2>1, <2>2 DEF Paid, Owed, FirstOwed, Pending, Visible, EventType
    <2> QED  BY <2>2, <2>3, <2>4, AboutOne
  <1>7. CASE HookAccepted(h)
    <2>1. Turned(h, {"accepted"}) /\ hook[h].state = "sending"
          /\ received' = [received EXCEPT ![e] = received[e] + 1]
          /\ UNCHANGED <<event, config, sweep, retrying>>
      BY <1>1, <1>7, HookTurns DEF HookAccepted
    <2>2. received' \in [Events -> Nat] /\ received'[e] = received[e] + 1
          /\ \A f \in Events \ {e} : received'[f] = received[f]
      BY <1>1, <1>2, <2>1 DEF EventsTyped
    <2>3. About(e) /\ hook'[h].state = "accepted"
          /\ \A other \in Tags \ {tag} : hook'[<<e, other>>] = hook[<<e, other>>]
      BY <1>1, <2>1, <2>2, JobTurns DEF EventsTyped, Local
    <2>4. Backed(e)'
      BY <1>1, <1>2, <1>3, <2>1, <2>2, <2>3 DEF Backed, Visible
    <2>5. Paid(e)'
      BY <1>1, <1>2, <1>3, <2>1, <2>2, <2>3 DEF Paid, Owed, FirstOwed, Pending, EventType
    <2> QED  BY <2>3, <2>4, <2>5, AboutOne
  <1>8. CASE HookRefused(h)
    <2>1. Turned(h, {"waiting", "done"}) /\ hook[h].state = "sending"
          /\ UNCHANGED <<event, config, sweep, retrying, received>>
      BY <1>1, <1>8, HookTurns DEF HookRefused
    <2>2. About(e) /\ hook'[h].state \in {"waiting", "done"}
          /\ \A other \in Tags \ {tag} : hook'[<<e, other>>] = hook[<<e, other>>]
      BY <1>1, <2>1, JobTurns DEF EventsTyped, Local
    <2>3. Backed(e)'
      BY <1>1, <1>3, <2>1, <2>2 DEF Backed, Visible
    <2>4. Paid(e)'
      BY <1>1, <1>2, <1>3, <2>1, <2>2 DEF Paid, Owed, FirstOwed, Pending, EventType
    <2> QED  BY <2>2, <2>3, <2>4, AboutOne
  <1>9. CASE HookMarks(h)
    <2> DEFINE row == [event[e] EXCEPT !.state = "sent"]
    <2>1. Turned(h, {"done"}) /\ hook[h].state = "accepted"
          /\ event' = [event EXCEPT ![e] = row]
          /\ UNCHANGED <<config, sweep, retrying, received>>
      BY <1>1, <1>9, HookTurns DEF HookMarks
    <2>2. row \in EventType /\ row.state = "sent" /\ row.resets = event[e].resets
          /\ row.unheard = event[e].unheard
      BY <1>2 DEF EventType
    <2> HIDE DEF row
    <2>3. event' \in [Events -> EventType] /\ event'[e] = row
          /\ \A f \in Events \ {e} : event'[f] = event[f]
      BY <1>1, <2>1, <2>2 DEF EventsTyped
    <2>4. About(e) /\ hook'[h].state = "done"
          /\ \A other \in Tags \ {tag} : hook'[<<e, other>>] = hook[<<e, other>>]
      BY <1>1, <2>1, <2>3, JobTurns DEF EventsTyped, Local
    <2>5. Backed(e)'
      BY <1>1, <1>3, <2>1, <2>2, <2>3, <2>4 DEF Backed, Visible
    <2>6. Paid(e)'
      BY <1>1, <1>2, <1>3, <2>1, <2>2, <2>3, <2>4 DEF Paid, Owed, FirstOwed, Pending, EventType
    <2> QED  BY <2>4, <2>5, <2>6, AboutOne
  <1>10. CASE HookDies(h)
    <2> DEFINE row == [event[e] EXCEPT !.unheard = event[e].unheard + 1]
    <2>1. Turned(h, {"waiting", "done"}) /\ hook[h].state \in {"sending", "accepted"}
          /\ event' = [event EXCEPT ![e] = row]
          /\ UNCHANGED <<config, sweep, retrying, received>>
      BY <1>1, <1>10, HookTurns DEF HookDies
    <2>2. row \in EventType /\ row.state = event[e].state /\ row.mute = event[e].mute
          /\ row.resets = event[e].resets /\ row.unheard = event[e].unheard + 1
      BY <1>2 DEF EventType
    <2> HIDE DEF row
    <2>3. event' \in [Events -> EventType] /\ event'[e] = row
          /\ \A f \in Events \ {e} : event'[f] = event[f]
      BY <1>1, <2>1, <2>2 DEF EventsTyped
    <2>4. About(e) /\ hook'[h].state \in {"waiting", "done"}
          /\ \A other \in Tags \ {tag} : hook'[<<e, other>>] = hook[<<e, other>>]
      BY <1>1, <2>1, <2>3, JobTurns DEF EventsTyped, Local
    <2>5. Backed(e)'
      BY <1>1, <1>3, <2>1, <2>2, <2>3, <2>4 DEF Backed, Visible
    <2>6. Paid(e)'
      BY <1>1, <1>2, <1>3, <2>1, <2>2, <2>3, <2>4 DEF Paid, Owed, FirstOwed, Pending, EventType
    <2> QED  BY <2>4, <2>5, <2>6, AboutOne
  <1>11. CASE HookPruned(h)
    <2>1. Turned(h, {"none"}) /\ hook[h].state = "done" /\ sweep = {}
          /\ UNCHANGED <<event, config, sweep, retrying, received>>
      BY <1>1, <1>11, HookTurns DEF HookPruned
    <2>2. About(e) /\ hook'[h].state = "none"
          /\ \A other \in Tags \ {tag} : hook'[<<e, other>>] = hook[<<e, other>>]
      BY <1>1, <2>1, JobTurns DEF EventsTyped, Local
    <2>3. Backed(e)'
      BY <1>1, <1>3, <2>1, <2>2 DEF Backed, Visible
    <2>4. Paid(e)'
      BY <1>1, <1>2, <1>3, <2>1, <2>2 DEF Paid, Owed, FirstOwed, Pending, EventType
    <2> QED  BY <2>2, <2>3, <2>4, AboutOne
  <1>12. CASE HookUnheard(h)
    <2> DEFINE row == [event[e] EXCEPT !.unheard = event[e].unheard + 1]
    <2>1. Turned(h, {"waiting", "done"}) /\ hook[h].state = "sending"
          /\ event' = [event EXCEPT ![e] = row]
          /\ received' = [received EXCEPT ![e] = received[e] + 1]
          /\ UNCHANGED <<config, sweep, retrying>>
      BY <1>1, <1>12, HookTurns DEF HookUnheard
    <2>2. row \in EventType /\ row.state = event[e].state /\ row.mute = event[e].mute
          /\ row.resets = event[e].resets /\ row.unheard = event[e].unheard + 1
      BY <1>2 DEF EventType
    <2> HIDE DEF row
    <2>3. event' \in [Events -> EventType] /\ event'[e] = row
          /\ received' \in [Events -> Nat] /\ received'[e] = received[e] + 1
          /\ \A f \in Events \ {e} : event'[f] = event[f] /\ received'[f] = received[f]
      BY <1>1, <1>2, <2>1, <2>2 DEF EventsTyped
    <2>4. About(e) /\ hook'[h].state \in {"waiting", "done"}
          /\ \A other \in Tags \ {tag} : hook'[<<e, other>>] = hook[<<e, other>>]
      BY <1>1, <2>1, <2>3, JobTurns DEF EventsTyped, Local
    <2>5. Backed(e)'
      BY <1>1, <1>2, <1>3, <2>1, <2>2, <2>3, <2>4 DEF Backed, Visible
    <2>6. Paid(e)'
      BY <1>1, <1>2, <1>3, <2>1, <2>2, <2>3, <2>4 DEF Paid, Owed, FirstOwed, Pending, EventType
    <2> QED  BY <2>4, <2>5, <2>6, AboutOne
  <1> QED  BY <1>4, <1>5, <1>6, <1>7, <1>8, <1>9, <1>10, <1>11, <1>12 DEF HookStep

(* A step of the sweep or of a route.                                         *)
LEMMA RoutesKeep ==
  ASSUME EventsInv,
         \/ SweepReads \/ SweepFails \/ ConfigPut \/ RetryEnqueues
         \/ \E e \in Events : SweepEnqueues(e) \/ SweepOrphan(e) \/ RetryResets(e)
  PROVE  EventsInv'
  <1>1. EventsTyped /\ \A e \in Events : Backed(e) /\ Paid(e)
    BY DEF EventsInv
  <1>2. ASSUME NEW e \in Events
        PROVE  /\ event[e] \in EventType /\ received[e] \in Nat /\ e \in Nat /\ e # 0
               /\ \A tag \in Tags : <<e, tag>> \in HookIds /\ hook[<<e, tag>>] \in HookType
    BY <1>1, EventBounds DEF EventsTyped, Events, HookIds
  <1>3. Tags = {"first", "again"}
    BY DEF Tags
  <1>4. CASE SweepReads \/ SweepFails
    <2>1. UNCHANGED <<event, hook, config, retrying, received>> /\ sweep' \subseteq Events
          /\ \A e \in sweep' : event[e].state = "unsent"
      <3>1. CASE SweepReads
        BY <3>1 DEF SweepReads
      <3>2. CASE SweepFails
        BY <3>2 DEF SweepFails
      <3> QED  BY <1>4, <3>1, <3>2
    <2>2. EventsTyped'
      BY <1>1, <2>1 DEF EventsTyped
    <2>3. ASSUME NEW e \in Events PROVE (Backed(e) /\ Paid(e))'
      <3>1. Backed(e)'
        BY <1>1, <2>1 DEF Backed, Visible
      <3>2. Paid(e)'
        BY <1>1, <1>2, <1>3, <2>1 DEF Paid, Owed, FirstOwed, Pending, EventType
      <3> QED  BY <3>1, <3>2
    <2>4. \A e \in Events : (Backed(e) /\ Paid(e))'
      BY <2>3
    <2> QED  BY <2>2, <2>4 DEF EventsInv
  <1>5. CASE ConfigPut
    <2>1. UNCHANGED <<event, hook, sweep, retrying, received>> /\ config' \in BOOLEAN
      BY <1>1, <1>5 DEF ConfigPut, EventsTyped
    <2>2. \A e \in Events : (Backed(e) /\ Paid(e))'
      BY <1>1, <2>1 DEF Backed, Visible, Paid, Owed, FirstOwed, Pending
    <2> QED  BY <1>1, <2>1, <2>2 DEF EventsInv, EventsTyped
  <1>6. CASE RetryEnqueues
    <2> DEFINE e == retrying
    <2>1. e \in Events /\ retrying' = 0 /\ UNCHANGED <<event, config, sweep, received>>
      BY <1>1, <1>6, EventBounds DEF RetryEnqueues, EventsTyped, Events
    <2>2. Local(e)
      BY <1>1, <1>2, <2>1, EventBounds DEF Local, EventsTyped
    <2>3. \/ /\ Turned(<<e, "again">>, {"waiting"})
             /\ hook[<<e, "again">>].state \in {"none", "done"}
          \/ hook' = hook
      BY <1>1, <1>2, <1>3, <1>6, <2>1, HookTurns DEF RetryEnqueues
    <2>4. /\ About(e) /\ hook'[<<e, "first">>] = hook[<<e, "first">>]
          /\ \/ /\ hook'[<<e, "again">>].state = "waiting"
                /\ hook[<<e, "again">>].state \in {"none", "done"}
             \/ hook'[<<e, "again">>] = hook[<<e, "again">>]
      BY <1>1, <1>3, <2>1, <2>2, <2>3, JobTurns, JobsStay
    <2>5. PICK f \in Events : f = e
      BY <2>1
    <2>6. Backed(f)'
      BY <1>1, <1>3, <2>1, <2>4, <2>5 DEF Backed, Visible
    <2>7. Paid(f)'
      BY <1>1, <1>2, <1>3, <2>1, <2>4, <2>5 DEF Paid, Owed, FirstOwed, Pending, EventType
    <2> QED  BY <2>4, <2>5, <2>6, <2>7, AboutOne
  <1>7. ASSUME NEW e \in Events, SweepEnqueues(e) PROVE EventsInv'
    <2>1. e \in sweep /\ sweep' = sweep \ {e} /\ UNCHANGED <<event, config, retrying, received>>
      BY <1>7 DEF SweepEnqueues
    <2>2. Local(e)
      BY <1>1, <2>1 DEF Local, EventsTyped
    <2>3. \/ Turned(<<e, "first">>, {"waiting"}) /\ hook[<<e, "first">>].state = "none"
          \/ hook' = hook
      BY <1>1, <1>2, <1>3, <1>7, HookTurns DEF SweepEnqueues
    <2>4. /\ About(e) /\ hook'[<<e, "again">>] = hook[<<e, "again">>]
          /\ \/ /\ hook'[<<e, "first">>].state = "waiting"
                /\ hook[<<e, "first">>].state = "none"
             \/ hook'[<<e, "first">>] = hook[<<e, "first">>]
      BY <1>1, <1>3, <2>2, <2>3, JobTurns, JobsStay
    <2>5. Backed(e)'
      BY <1>1, <1>3, <2>1, <2>4 DEF Backed, Visible
    <2>6. Paid(e)'
      BY <1>1, <1>2, <1>3, <2>1, <2>4 DEF Paid, Owed, FirstOwed, Pending, EventType
    <2> QED  BY <2>4, <2>5, <2>6, AboutOne
  <1>8. ASSUME NEW e \in Events, SweepOrphan(e) PROVE EventsInv'
    <2> DEFINE row == [event[e] EXCEPT !.state = "sent", !.mute = TRUE]
    <2>1. e \in sweep /\ sweep' = sweep \ {e} /\ event' = [event EXCEPT ![e] = row]
          /\ UNCHANGED <<hook, config, retrying, received>>
      BY <1>8 DEF SweepOrphan
    <2>2. row \in EventType /\ row.state = "sent" /\ row.mute /\ row.resets = event[e].resets
          /\ row.unheard = event[e].unheard
      BY <1>2 DEF EventType
    <2> HIDE DEF row
    <2>3. Local(e) /\ event'[e] = row
      BY <1>1, <2>1, <2>2 DEF Local, EventsTyped
    <2>4. About(e)
      BY <1>1, <2>1, <2>3, JobsStay
    <2>5. Backed(e)'
      BY <1>1, <2>1, <2>2, <2>3 DEF Backed, Visible
    <2>6. Paid(e)'
      BY <1>1, <1>2, <1>3, <2>1, <2>2, <2>3 DEF Paid, Owed, FirstOwed, Pending, EventType
    <2> QED  BY <2>4, <2>5, <2>6, AboutOne
  <1>9. ASSUME NEW e \in Events, RetryResets(e) PROVE EventsInv'
    <2> DEFINE n == event[e].resets + 1
               row == [event[e] EXCEPT !.state = "unsent", !.resets = n]
    <2>1. retrying = 0 /\ retrying' = e /\ event' = [event EXCEPT ![e] = row] /\ Visible(e)
          /\ UNCHANGED <<hook, config, sweep, received>>
      BY <1>9 DEF RetryResets
    <2>2. n \in Nat /\ n = event[e].resets + 1
      BY <1>2 DEF EventType
    <2> HIDE DEF n
    <2>3. row \in EventType
      <3>1. /\ event[e] \in EventType /\ n \in Nat
            /\ "unsent" \in {"none", "draft", "undone", "unsent", "sent"}
        BY <1>2, <2>2
      <3> QED  BY ONLY <3>1 DEF EventType
    <2>4. row.state = "unsent" /\ row.resets = n /\ row.unheard = event[e].unheard
      BY <1>2 DEF EventType
    <2> HIDE DEF row
    <2>5. Local(e) /\ event'[e] = row
      BY <1>1, <1>2, <2>1, <2>3 DEF Local, EventsTyped, Events
    <2>6. About(e)
      BY <1>1, <2>1, <2>5, JobsStay
    <2>7. Backed(e)'
      BY <1>1, <2>1, <2>4, <2>5 DEF Backed, Visible
    <2>8. Paid(e)'
      BY <1>1, <1>2, <1>3, <2>1, <2>2, <2>4, <2>5 DEF Paid, Owed, FirstOwed, Pending, EventType
    <2> QED  BY <2>6, <2>7, <2>8, AboutOne
  <1> QED  BY <1>4, <1>5, <1>6, <1>7, <1>8, <1>9

(* What a transaction does to its event.                                      *)
Drafts(e, from, to) ==
    /\ e \in FreshEvents /\ from \in Levels /\ to \in Levels
    /\ event' = Drafted(e, from, to)
    /\ hook' = HookAdded(<<e, "first">>) \/ hook' = hook
    /\ UNCHANGED <<config, sweep, retrying, received>>
Settles(e, state) ==
    /\ e \in Events /\ event[e].state = "draft"
    /\ event' = [event EXCEPT ![e].state = state]
    /\ UNCHANGED <<hook, config, sweep, retrying, received>>

LEMMA DraftKeeps ==
  ASSUME EventsInv, NEW e, NEW from, NEW to, Drafts(e, from, to)
  PROVE  EventsInv'
  <1> DEFINE row == [event[e] EXCEPT !.state = "draft", !.from = from, !.to = to]
  <1>1. EventsTyped /\ e \in Events /\ Backed(e) /\ Paid(e) /\ event[e].state = "none"
    BY DEF EventsInv, Drafts, FreshEvents
  <1>2. /\ event[e] \in EventType /\ received[e] \in Nat
        /\ \A tag \in Tags : <<e, tag>> \in HookIds /\ hook[<<e, tag>>] \in HookType
    BY <1>1 DEF EventsTyped, HookIds
  <1>3. Tags = {"first", "again"}
    BY DEF Tags
  <1>4. event' = [event EXCEPT ![e] = row] /\ UNCHANGED <<config, sweep, retrying, received>>
    BY DEF Drafts, Drafted
  <1>5. row \in EventType /\ row.state = "draft" /\ row.mute = event[e].mute
        /\ row.resets = event[e].resets /\ row.unheard = event[e].unheard
    BY <1>2 DEF EventType, Drafts
  <1> HIDE DEF row
  <1>6. Local(e) /\ event'[e] = row
    BY <1>1, <1>4, <1>5 DEF Local, EventsTyped
  <1>7. \/ Turned(<<e, "first">>, {"waiting"}) /\ hook[<<e, "first">>].state = "none"
        \/ hook' = hook
    BY <1>1, <1>2, <1>3, HookTurns DEF Drafts
  <1>8. /\ About(e) /\ hook'[<<e, "again">>] = hook[<<e, "again">>]
        /\ \/ hook'[<<e, "first">>].state = "waiting" /\ hook[<<e, "first">>].state = "none"
           \/ hook'[<<e, "first">>] = hook[<<e, "first">>]
    BY <1>1, <1>3, <1>6, <1>7, JobTurns, JobsStay
  <1>9. Backed(e)'
    BY <1>1, <1>3, <1>4, <1>5, <1>6, <1>8 DEF Backed, Visible
  <1>10. Paid(e)'
    BY <1>1, <1>2, <1>3, <1>4, <1>5, <1>6, <1>8 DEF Paid, Owed, FirstOwed, Pending, EventType
  <1> QED  BY <1>1, <1>8, <1>9, <1>10, AboutOne

LEMMA SettleKeeps ==
  ASSUME EventsInv, NEW e, NEW state \in {"unsent", "undone"}, Settles(e, state)
  PROVE  EventsInv'
  <1> DEFINE row == [event[e] EXCEPT !.state = state]
  <1>1. EventsTyped /\ e \in Events /\ Backed(e) /\ Paid(e) /\ event[e].state = "draft"
    BY DEF EventsInv, Settles
  <1>2. event[e] \in EventType /\ received[e] \in Nat
    BY <1>1 DEF EventsTyped
  <1>3. Tags = {"first", "again"}
    BY DEF Tags
  <1>4. event' = [event EXCEPT ![e] = row] /\ UNCHANGED <<hook, config, sweep, retrying, received>>
    BY DEF Settles
  <1>5. row \in EventType /\ row.state = state /\ row.mute = event[e].mute
        /\ row.resets = event[e].resets /\ row.unheard = event[e].unheard
    BY <1>2 DEF EventType
  <1> HIDE DEF row
  <1>6. Local(e) /\ event'[e] = row
    BY <1>1, <1>4, <1>5 DEF Local, EventsTyped
  <1>7. About(e)
    BY <1>1, <1>4, <1>6, JobsStay
  <1>8. Backed(e)'
    BY <1>1, <1>3, <1>4, <1>5, <1>6 DEF Backed, Visible
  <1>9. Paid(e)'
    BY <1>1, <1>2, <1>3, <1>4, <1>5, <1>6 DEF Paid, Owed, FirstOwed, Pending, EventType
  <1> QED  BY <1>1, <1>7, <1>8, <1>9, AboutOne

-----------------------------------------------------------------------------
(* The level. A transaction that has written an event holds the row of        *)
(* prod_master, so at most one event is a draft, and it is the last.          *)

Numbered == \A e, f \in Events : e < f /\ event[e].state = "none" => event[f].state = "none"
DraftsHeld == \A e \in Events : event[e].state = "draft" => \E c \in Conns : tx[c].event = e
DraftIsLast == \A e, f \in Events : e < f /\ event[e].state = "draft" => event[f].state = "none"
HeldDrafts ==
    \A c \in Conns : tx[c].event # 0 =>
        /\ event[tx[c].event].state = "draft"
        /\ tx[c].ok => tx[c].level \in Levels /\ event[tx[c].event].to = tx[c].level
        /\ tx[c].kind = "consensus" => event[tx[c].event].from = level
LastShown(e) == Visible(e) /\ \A f \in Events : Visible(f) => f <= e
LevelShown ==
    \/ level = "bronze" /\ \A e \in Events : ~Visible(e)
    \/ \E e \in Events : LastShown(e) /\ level = event[e].to

LevelInv == Numbered /\ DraftsHeld /\ DraftIsLast /\ HeldDrafts /\ LevelShown

(* The steps, as the events and the level see them.                           *)
EventsQuiet == UNCHANGED <<event, hook, config, sweep, retrying, received>>
Carries(c) ==
    /\ tx'[c].event = tx[c].event
    /\ tx[c].event # 0 => /\ tx'[c].kind = tx[c].kind /\ tx'[c].level = tx[c].level
                          /\ tx'[c].ok => tx[c].ok
Quiet == EventsQuiet /\ level' = level /\ \A c \in Conns : Carries(c)
Draws(c, e, from, to) ==
    /\ Drafts(e, from, to) /\ level' = level
    /\ tx'[c].event = e /\ \A d \in Conns \ {c} : tx'[d] = tx[d]
    /\ tx'[c].ok => tx'[c].level = to
    /\ tx'[c].kind = "consensus" => from = level
Ends(c, state) ==
    /\ tx' = [tx EXCEPT ![c] = Idle]
    /\ event' = IF tx[c].event = 0 THEN event ELSE [event EXCEPT ![tx[c].event].state = state]
    /\ UNCHANGED <<hook, config, sweep, retrying, received>>

Shape == TxShape /\ MasterAlone /\ NobodyClashes

LEMMA QuietLevel ==
  ASSUME LevelInv, Quiet
  PROVE  LevelInv'
  <1>1. event' = event /\ level' = level
    BY DEF Quiet, EventsQuiet
  <1>2. (Numbered /\ DraftIsLast)'
    BY <1>1 DEF LevelInv, Numbered, DraftIsLast
  <1>3. DraftsHeld'
    BY <1>1 DEF LevelInv, DraftsHeld, Quiet, Carries
  <1>4. HeldDrafts'
    BY <1>1 DEF LevelInv, HeldDrafts, Quiet, Carries
  <1>5. LevelShown'
    BY <1>1 DEF LevelInv, LevelShown, LastShown, Visible
  <1> QED  BY <1>2, <1>3, <1>4, <1>5 DEF LevelInv

LEMMA DrawLevel ==
  ASSUME LevelInv, Shape, Shape', EventsTyped, NEW c \in Conns, tx[c].event = 0,
         NEW e, NEW from, NEW to, Draws(c, e, from, to), tx[c].master \/ MasterFree(c)
  PROVE  LevelInv'
  <1>1. /\ e \in Events /\ event[e].state = "none" /\ from \in Levels /\ to \in Levels
        /\ \A f \in Events : f < e => event[f].state # "none"
        /\ event' = Drafted(e, from, to) /\ level' = level
    BY EventBounds DEF Draws, Drafts, FreshEvents, Events
  <1>2. event[e] \in EventType /\ \A f \in Events : f \in Nat /\ f # 0
    BY <1>1, EventBounds DEF EventsTyped, Events
  <1>3. /\ event'[e].state = "draft" /\ event'[e].from = from /\ event'[e].to = to
        /\ \A f \in Events \ {e} : event'[f] = event[f]
    BY <1>1, <1>2 DEF Drafted, EventsTyped, EventType
  <1>4. tx'[c].event = e /\ \A d \in Conns \ {c} : tx'[d] = tx[d]
    BY DEF Draws
  <1>5. \A d \in Conns : tx[d].event = 0
    <2>1. \A d \in Conns : tx[d].event # 0 => tx[d].master
      BY DEF Shape, TxShape, Fits
    <2> QED  BY <2>1 DEF Shape, MasterAlone, MasterFree
  <1>6. \A f \in Events : event[f].state # "draft"
    BY <1>5, <1>2 DEF LevelInv, DraftsHeld
  <1>7. \A f \in Events : e < f => event[f].state = "none"
    BY <1>1 DEF LevelInv, Numbered
  <1>8. Numbered'
    BY <1>1, <1>2, <1>3, <1>7 DEF LevelInv, Numbered
  <1>9. DraftsHeld'
    BY <1>3, <1>4, <1>6 DEF DraftsHeld
  <1>10. DraftIsLast'
    BY <1>2, <1>3, <1>6, <1>7 DEF DraftIsLast
  <1>11. HeldDrafts'
    <2>1. \A d \in Conns \ {c} : tx'[d].event = 0
      BY <1>4, <1>5
    <2>2. /\ tx'[c].ok => tx'[c].level \in Levels /\ event'[e].to = tx'[c].level
          /\ tx'[c].kind = "consensus" => event'[e].from = level'
      BY <1>1, <1>3 DEF Draws
    <2> QED  BY <1>3, <1>4, <2>1, <2>2 DEF HeldDrafts
  <1>12. LevelShown'
    <2>1. \A f \in Events : (Visible(f))' <=> Visible(f)
      BY <1>1, <1>3 DEF Visible
    <2>2. ~Visible(e)
      BY <1>1 DEF Visible
    <2>3. \A f \in Events : Visible(f) => event'[f].to = event[f].to
      BY <1>3, <2>2
    <2> QED  BY <1>1, <2>1, <2>3 DEF LevelInv, LevelShown, LastShown
  <1> QED  BY <1>8, <1>9, <1>10, <1>11, <1>12 DEF LevelInv

LEMMA EndLevel ==
  ASSUME LevelInv, Shape, EventsTyped, NEW c \in Conns,
         NEW state \in {"unsent", "undone"}, Ends(c, state),
         state = "unsent" => tx[c].pc = "commit"
                             /\ level' = (IF tx[c].level = "none" THEN level ELSE tx[c].level),
         state = "undone" => level' = level
  PROVE  LevelInv'
  <1>1. /\ tx[c] \in TxType /\ Fits(tx[c]) /\ Idle.event = 0
        /\ tx'[c] = Idle /\ \A d \in Conns \ {c} : tx'[d] = tx[d]
    BY DEF Shape, TxShape, Ends, Idle
  <1>2. \A e \in Events : e \in Nat /\ e # 0 /\ event[e] \in EventType
    BY EventBounds DEF EventsTyped, Events
  <1>3. CASE tx[c].event = 0
    <2>1. event' = event
      BY <1>3 DEF Ends
    <2>2. level' = level
      BY <1>1, <1>3 DEF Fits, TxType
    <2>3. (Numbered /\ DraftIsLast)'
      BY <2>1 DEF LevelInv, Numbered, DraftIsLast
    <2>4. DraftsHeld'
      BY <1>1, <1>2, <1>3, <2>1 DEF LevelInv, DraftsHeld
    <2>5. HeldDrafts'
      BY <1>1, <2>1, <2>2 DEF LevelInv, HeldDrafts
    <2>6. LevelShown'
      BY <2>1, <2>2 DEF LevelInv, LevelShown, LastShown, Visible
    <2> QED  BY <2>3, <2>4, <2>5, <2>6 DEF LevelInv
  <1>4. CASE tx[c].event # 0
    <2> DEFINE e == tx[c].event
    <2>1. e \in Events /\ event[e].state = "draft" /\ tx[c].master
      BY <1>1, <1>4, EventBounds DEF TxType, Events, Fits, LevelInv, HeldDrafts
    <2>2. /\ event'[e].state = state /\ event'[e].to = event[e].to
          /\ \A f \in Events \ {e} : event'[f] = event[f]
      BY <1>2, <1>4, <2>1 DEF Ends, EventsTyped, EventType
    <2>3. \A d \in Conns \ {c} : tx[d].event = 0
      BY <2>1 DEF Shape, TxShape, Fits, MasterAlone
    <2>4. \A f \in Events \ {e} : event[f].state # "draft"
      BY <1>2, <2>3 DEF LevelInv, DraftsHeld
    <2>5. \A f \in Events : e < f => event[f].state = "none"
      BY <2>1 DEF LevelInv, DraftIsLast
    <2> HIDE DEF e
    <2>6. Numbered'
      BY <2>1, <2>2 DEF LevelInv, Numbered
    <2>7. (DraftsHeld /\ DraftIsLast)'
      BY <2>2, <2>4 DEF DraftsHeld, DraftIsLast
    <2>8. HeldDrafts'
      BY <1>1, <2>3 DEF HeldDrafts
    <2>9. LevelShown'
      <3>1. CASE state = "unsent"
        <4>1. level' = event[e].to
          BY <1>1, <1>4, <3>1 DEF e, Fits, LevelInv, HeldDrafts, Levels
        <4>2. PICK f \in Events : f = e
          BY <2>1
        <4>3. LastShown(f)'
          BY <1>2, <2>2, <2>5, <3>1, <4>2 DEF LastShown, Visible
        <4> QED  BY <2>2, <4>1, <4>2, <4>3 DEF LevelShown
      <3>2. CASE state = "undone"
        <4>1. \A f \in Events : (Visible(f))' <=> Visible(f)
          BY <2>1, <2>2, <3>2 DEF Visible
        <4>2. \A f \in Events : event'[f].to = event[f].to
          BY <2>2
        <4> QED  BY <3>2, <4>1, <4>2 DEF LevelInv, LevelShown, LastShown
      <3> QED  BY <3>1, <3>2
    <2> QED  BY <2>6, <2>7, <2>8, <2>9 DEF LevelInv
  <1> QED  BY <1>3, <1>4

(* Delivery does not disturb it.                                              *)
Unmoved(e) ==
    /\ event'[e].from = event[e].from /\ event'[e].to = event[e].to
    /\ event'[e].state = event[e].state \/ (Visible(e) /\ (Visible(e))')

LEMMA DeliveryUnmoved ==
  ASSUME EventsInv, EventsNext
  PROVE  \A e \in Events : Unmoved(e)
  <1>1. EventsTyped /\ \A e \in Events : Backed(e)
    BY DEF EventsInv
  <1>2. CASE event' = event
    BY <1>2 DEF Unmoved
  <1>3. ASSUME NEW e \in Events, NEW row,
               row.from = event[e].from, row.to = event[e].to,
               row.state = event[e].state \/ (Visible(e) /\ row.state \in {"unsent", "sent"}),
               event' = [event EXCEPT ![e] = row]
        PROVE  \A f \in Events : Unmoved(f)
    <2>1. event'[e] = row /\ \A f \in Events \ {e} : event'[f] = event[f]
      BY <1>1, <1>3 DEF EventsTyped
    <2> QED  BY <1>3, <2>1 DEF Unmoved, Visible
  <1>4. \A e \in Events : event[e] \in EventType
    BY <1>1 DEF EventsTyped
  <1>5. ASSUME NEW h \in HookIds, HookStep(h) \/ HookDies(h) \/ HookUnheard(h)
        PROVE  \A f \in Events : Unmoved(f)
    <2>1. PICK e \in Events : h[1] = e
      BY DEF HookIds
    <2>2. CASE HookUnknown(h) \/ HookSends(h) \/ HookAccepted(h)
      BY <1>2, <2>2 DEF HookUnknown, HookSends, HookAccepted
    <2>3. CASE HookSkipped(h)
      <3> DEFINE row == [event[e] EXCEPT !.state = "sent", !.mute = TRUE]
      <3>1. Visible(e) /\ event' = [event EXCEPT ![e] = row]
        BY <2>1, <2>3 DEF HookSkipped
      <3>2. row.from = event[e].from /\ row.to = event[e].to /\ row.state = "sent"
        BY <1>4 DEF EventType
      <3> QED  BY <1>3, <3>1, <3>2
    <2>4. CASE HookMarks(h)
      <3> DEFINE row == [event[e] EXCEPT !.state = "sent"]
      <3>1. hook[h].state = "accepted" /\ event' = [event EXCEPT ![e] = row]
        BY <2>1, <2>4 DEF HookMarks
      <3>2. Visible(e)
        <4>1. PICK tag \in Tags : h = <<e, tag>>
          BY <2>1 DEF HookIds
        <4> QED  BY <1>1, <3>1, <4>1 DEF Backed
      <3>3. row.from = event[e].from /\ row.to = event[e].to /\ row.state = "sent"
        BY <1>4 DEF EventType
      <3> QED  BY <1>3, <3>1, <3>2, <3>3
    <2>5. CASE HookDies(h) \/ HookUnheard(h)
      <3> DEFINE row == [event[e] EXCEPT !.unheard = event[e].unheard + 1]
      <3>1. event' = [event EXCEPT ![e] = row]
        BY <2>1, <2>5 DEF HookDies, HookUnheard
      <3>2. row.from = event[e].from /\ row.to = event[e].to /\ row.state = event[e].state
        BY <1>4 DEF EventType
      <3> QED  BY <1>3, <3>1, <3>2
    <2> QED  BY <1>5, <2>2, <2>3, <2>4, <2>5 DEF HookStep
  <1>6. ASSUME NEW h \in HookIds, HookRefused(h) \/ HookPruned(h)
        PROVE  event' = event
    BY <1>6 DEF HookRefused, HookPruned
  <1>7. ASSUME \/ SweepReads \/ SweepFails \/ ConfigPut \/ RetryEnqueues
               \/ \E e \in Events : SweepEnqueues(e)
        PROVE  event' = event
    BY <1>7 DEF SweepReads, SweepFails, ConfigPut, RetryEnqueues, SweepEnqueues
  <1>8. ASSUME NEW e \in Events, SweepOrphan(e)
        PROVE  \A f \in Events : Unmoved(f)
    <2> DEFINE row == [event[e] EXCEPT !.state = "sent", !.mute = TRUE]
    <2>1. Visible(e) /\ event' = [event EXCEPT ![e] = row]
      BY <1>1, <1>8 DEF SweepOrphan, Backed
    <2>2. row.from = event[e].from /\ row.to = event[e].to /\ row.state = "sent"
      BY <1>4 DEF EventType
    <2> QED  BY <1>3, <2>1, <2>2
  <1>9. ASSUME NEW e \in Events, RetryResets(e)
        PROVE  \A f \in Events : Unmoved(f)
    <2> DEFINE row == [event[e] EXCEPT !.state = "unsent", !.resets = event[e].resets + 1]
    <2>1. Visible(e) /\ event' = [event EXCEPT ![e] = row]
      BY <1>9 DEF RetryResets
    <2>2. row.from = event[e].from /\ row.to = event[e].to /\ row.state = "unsent"
      BY <1>4 DEF EventType
    <2> QED  BY <1>3, <2>1, <2>2
  <1> QED  BY <1>2, <1>5, <1>6, <1>7, <1>8, <1>9 DEF EventsNext

LEMMA DeliveryLevel ==
  ASSUME LevelInv, EventsInv, Shape, EventsNext, UNCHANGED <<tx, level>>
  PROVE  LevelInv'
  <1>1. \A e \in Events : Unmoved(e)
    BY DeliveryUnmoved
  <1>2. \A e \in Events :
          /\ event'[e].from = event[e].from /\ event'[e].to = event[e].to
          /\ event'[e].state = "none" <=> event[e].state = "none"
          /\ event'[e].state = "draft" <=> event[e].state = "draft"
          /\ (Visible(e))' <=> Visible(e)
    BY <1>1 DEF Unmoved, Visible
  <1>3. (Numbered /\ DraftIsLast /\ DraftsHeld)'
    BY <1>2 DEF LevelInv, Numbered, DraftIsLast, DraftsHeld
  <1>4. \A c \in Conns : tx[c].event # 0 => tx[c].event \in Events
    BY EventBounds DEF Shape, TxShape, TxType, Events
  <1>5. HeldDrafts'
    BY <1>2, <1>4 DEF LevelInv, HeldDrafts
  <1>6. LevelShown'
    BY <1>2 DEF LevelInv, LevelShown, LastShown
  <1> QED  BY <1>3, <1>5, <1>6 DEF LevelInv

-----------------------------------------------------------------------------
(* Every step is one of these.                                                *)

LEMMA NextMoves ==
  ASSUME Shape, SnapsTyped, Next
  PROVE  Shape'
  <1>1. TxShape /\ level \in Levels
    BY DEF Shape, SnapsTyped
  <1>2. ASSUME NEW c \in Conns, \E t : Moves(c, t) PROVE Shape'
    BY <1>1, <1>2, MovesShape DEF Shape
  <1>3. CASE UNCHANGED tx
    BY <1>1, <1>3, MovesShape DEF Shape
  <1>4. ASSUME NEW j \in Jobs, Enqueue(j) PROVE UNCHANGED tx
    BY <1>4 DEF Enqueue
  <1>5. ASSUME NEW v \in Votes, VotesChange(v) PROVE UNCHANGED tx
    BY <1>5 DEF VotesChange
  <1>6. ASSUME NEW c \in Conns, NEW j \in Jobs, SkipJob(c, j) PROVE UNCHANGED tx
    BY <1>6 DEF SkipJob
  <1>7. ASSUME NEW c \in Conns,
               \/ \E j \in Jobs : TakeJob(c, j)
               \/ \E v \in Values : ResolveBegins(c, v)
               \/ \E l \in Asked : SetLevelBegins(c, l)
               \/ TxStep(c) \/ StatementFails(c) \/ ComputeThrows(c) \/ ConnDies(c)
        PROVE  \E t : Moves(c, t)
    BY <1>1, <1>7, BeginsMove, ReadsMove, EndsMove DEF TxStep
  <1> QED  BY <1>2, <1>3, <1>4, <1>5, <1>6, <1>7 DEF Next

LEMMA QuietMoves ==
  ASSUME TxShape, NEW c \in Conns, NEW t, tx' = [tx EXCEPT ![c] = t],
         t.event = tx[c].event,
         t.event # 0 => t.kind = tx[c].kind /\ t.level = tx[c].level /\ (t.ok => tx[c].ok),
         EventsQuiet, level' = level
  PROVE  Quiet
  <1>1. tx'[c] = t /\ \A d \in Conns \ {c} : tx'[d] = tx[d]
    BY DEF TxShape
  <1> QED  BY <1>1 DEF Quiet, Carries

LEMMA QuietSteps ==
  ASSUME TxShape, SnapsTyped, NEW c \in Conns,
         \/ \E j \in Jobs : TakeJob(c, j)
         \/ \E v \in Values : ResolveBegins(c, v)
         \/ \E l \in Asked : SetLevelBegins(c, l)
         \/ Compute(c) \/ Merge(c) \/ UpdateMaster(c) \/ ReadCurrent(c) \/ WriteSnapshot(c)
         \/ KeepLevel(c) \/ Unlock(c) \/ StatementFails(c) \/ ComputeThrows(c)
  PROVE  Quiet
  <1>1. tx[c] \in TxType /\ Fits(tx[c]) /\ Idle.event = 0
    BY DEF TxShape, Idle
  <1>2. ASSUME NEW j \in Jobs, TakeJob(c, j) PROVE Quiet
    <2>1. tx[c].event = 0 /\ [Idle EXCEPT !.kind = "consensus", !.pc = "compute", !.job = j].event = 0
      BY <1>1, <1>2 DEF TakeJob, Fits, Idle
    <2> QED  BY <1>2, <2>1, QuietMoves DEF TakeJob, EventsQuiet, eventVars
  <1>3. ASSUME NEW v \in Values, ResolveBegins(c, v) PROVE Quiet
    <2> DEFINE t == [Idle EXCEPT !.kind = "resolve", !.pc = "current", !.value = v, !.manual = TRUE]
    <2>1. tx[c].event = 0 /\ t.event = 0
      BY <1>1, <1>3 DEF ResolveBegins, Fits, Idle
    <2> QED  BY <1>3, <2>1, QuietMoves DEF ResolveBegins, EventsQuiet, eventVars
  <1>4. ASSUME NEW l \in Asked, SetLevelBegins(c, l) PROVE Quiet
    <2> DEFINE t == [Idle EXCEPT !.kind = "setlevel", !.pc = "level", !.merit = level, !.level = l]
    <2>1. tx[c].event = 0 /\ t.event = 0
      BY <1>1, <1>4 DEF SetLevelBegins, Fits, Idle
    <2> QED  BY <1>4, <2>1, QuietMoves DEF SetLevelBegins, EventsQuiet, eventVars
  <1>5. CASE Compute(c)
    <2>1. PICK v : tx' = [tx EXCEPT ![c] = [tx[c] EXCEPT !.value = v, !.merit = votes.merit, !.pc = "merge"]]
      BY <1>5 DEF Compute
    <2> DEFINE t == [tx[c] EXCEPT !.value = v, !.merit = votes.merit, !.pc = "merge"]
    <2>2. t.event = tx[c].event /\ t.kind = tx[c].kind /\ t.level = tx[c].level /\ t.ok = tx[c].ok
      BY <1>1 DEF TxType
    <2> QED  BY <1>5, <2>1, <2>2, QuietMoves DEF Compute, EventsQuiet, eventVars
  <1>6. CASE Merge(c)
    <2>1. PICK v : tx' = [tx EXCEPT ![c] = [tx[c] EXCEPT !.value = v, !.pc = "master"]]
      BY <1>6 DEF Merge
    <2> DEFINE t == [tx[c] EXCEPT !.value = v, !.pc = "master"]
    <2>2. t.event = tx[c].event /\ t.kind = tx[c].kind /\ t.level = tx[c].level /\ t.ok = tx[c].ok
      BY <1>1 DEF TxType
    <2> QED  BY <1>6, <2>1, <2>2, QuietMoves DEF Merge, EventsQuiet, eventVars
  <1>7. CASE UpdateMaster(c)
    <2> DEFINE t == [tx[c] EXCEPT !.master = TRUE, !.pc = "current"]
    <2>1. t.event = tx[c].event /\ t.kind = tx[c].kind /\ t.level = tx[c].level /\ t.ok = tx[c].ok
      BY <1>1 DEF TxType
    <2> QED  BY <1>7, <2>1, QuietMoves DEF UpdateMaster, EventsQuiet, eventVars
  <1>8. CASE ReadCurrent(c)
    <2>1. PICK i : tx' = [tx EXCEPT ![c] = [tx[c] EXCEPT !.cur = i, !.ver = VersionOf(i) + 1, !.pc = "snap"]]
      BY <1>8 DEF ReadCurrent
    <2> DEFINE t == [tx[c] EXCEPT !.cur = i, !.ver = VersionOf(i) + 1, !.pc = "snap"]
    <2>2. t.event = tx[c].event /\ t.kind = tx[c].kind /\ t.level = tx[c].level /\ t.ok = tx[c].ok
      BY <1>1 DEF TxType
    <2> QED  BY <1>8, <2>1, <2>2, QuietMoves DEF ReadCurrent, EventsQuiet, eventVars
  <1>9. CASE WriteSnapshot(c)
    <2>1. PICK p : tx' = [tx EXCEPT ![c] = [tx[c] EXCEPT !.row = TRUE, !.pc = p]]
      BY <1>9 DEF WriteSnapshot
    <2> DEFINE t == [tx[c] EXCEPT !.row = TRUE, !.pc = p]
    <2>2. t.event = tx[c].event /\ t.kind = tx[c].kind /\ t.level = tx[c].level /\ t.ok = tx[c].ok
      BY <1>1 DEF TxType
    <2> QED  BY <1>9, <2>1, <2>2, QuietMoves DEF WriteSnapshot, EventsQuiet, eventVars
  <1>10. CASE KeepLevel(c) \/ Unlock(c) \/ StatementFails(c)
    <2>1. PICK p : tx' = [tx EXCEPT ![c] = [tx[c] EXCEPT !.pc = p]]
      BY <1>10 DEF KeepLevel, Unlock, StatementFails, Goto
    <2> DEFINE t == [tx[c] EXCEPT !.pc = p]
    <2>2. t.event = tx[c].event /\ t.kind = tx[c].kind /\ t.level = tx[c].level /\ t.ok = tx[c].ok
      BY <1>1 DEF TxType
    <2>3. EventsQuiet /\ level' = level
      BY <1>10 DEF KeepLevel, Unlock, StatementFails, EventsQuiet, eventVars
    <2> QED  BY <2>1, <2>2, <2>3, QuietMoves
  <1>11. CASE ComputeThrows(c)
    <2> DEFINE t == [tx[c] EXCEPT !.pc = "unlock", !.ok = FALSE]
    <2>1. t.event = tx[c].event /\ t.kind = tx[c].kind /\ t.level = tx[c].level /\ ~t.ok
      BY <1>1 DEF TxType
    <2> QED  BY <1>11, <2>1, QuietMoves DEF ComputeThrows, EventsQuiet
  <1> QED  BY <1>2, <1>3, <1>4, <1>5, <1>6, <1>7, <1>8, <1>9, <1>10, <1>11

LEMMA DrawSteps ==
  ASSUME Shape, SnapsTyped, NEW c \in Conns, ChangeLevel(c) \/ SetLevel(c)
  PROVE  /\ tx[c].event = 0 /\ (tx[c].master \/ MasterFree(c))
         /\ \E e, from, to : Draws(c, e, from, to)
  <1>1. tx[c] \in TxType /\ Fits(tx[c]) /\ level \in Levels
    BY DEF Shape, TxShape, SnapsTyped
  <1>2. ASSUME NEW t, tx' = [tx EXCEPT ![c] = t]
        PROVE  tx'[c] = t /\ \A d \in Conns \ {c} : tx'[d] = tx[d]
    BY <1>2 DEF Shape, TxShape
  <1>3. CASE ChangeLevel(c)
    <2> DEFINE to == NextLevel(level, tx[c].merit)
    <2>1. At(c, "consensus", "level") /\ level' = level
          /\ UNCHANGED <<config, sweep, retrying, received>>
      BY <1>3 DEF ChangeLevel
    <2>2. tx[c].event = 0 /\ tx[c].master
      BY <1>1, <2>1 DEF At, Fits
    <2>3. to \in Levels
      BY <1>1 DEF NextLevel, TxType
    <2> HIDE DEF to
    <2>4. PICK e \in FreshEvents :
             /\ event' = Drafted(e, level, to)
             /\ \/ /\ hook' = HookAdded(<<e, "first">>)
                   /\ tx' = [tx EXCEPT ![c] = [tx[c] EXCEPT !.level = to, !.event = e, !.pc = "unlock"]]
                \/ /\ hook' = hook
                   /\ tx' = [tx EXCEPT ![c] = [tx[c] EXCEPT !.event = e, !.pc = "unlock", !.ok = FALSE]]
      BY <1>3 DEF ChangeLevel, to
    <2>5. Drafts(e, level, to)
      BY <1>1, <2>1, <2>3, <2>4 DEF Drafts
    <2>6. /\ tx'[c].event = e /\ (tx'[c].ok => tx'[c].level = to)
          /\ \A d \in Conns \ {c} : tx'[d] = tx[d]
      <3>1. ASSUME NEW t, tx' = [tx EXCEPT ![c] = t], t.event = e, t.ok => t.level = to
            PROVE  /\ tx'[c].event = e /\ (tx'[c].ok => tx'[c].level = to)
                   /\ \A d \in Conns \ {c} : tx'[d] = tx[d]
        BY <1>2, <3>1
      <3> DEFINE added == [tx[c] EXCEPT !.level = to, !.event = e, !.pc = "unlock"]
                 refused == [tx[c] EXCEPT !.event = e, !.pc = "unlock", !.ok = FALSE]
      <3>2. added.event = e /\ added.level = to /\ refused.event = e /\ ~refused.ok
        BY <1>1 DEF TxType
      <3>3. tx' = [tx EXCEPT ![c] = added] \/ tx' = [tx EXCEPT ![c] = refused]
        BY <2>4
      <3> HIDE DEF added, refused
      <3> QED  BY <3>1, <3>2, <3>3
    <2>7. Draws(c, e, level, to)
      BY <2>1, <2>5, <2>6 DEF Draws
    <2> QED  BY <2>2, <2>7
  <1>4. CASE SetLevel(c)
    <2>1. At(c, "setlevel", "level") /\ level' = level /\ MasterFree(c)
          /\ UNCHANGED <<config, sweep, retrying, received>>
      BY <1>4 DEF SetLevel
    <2>2. tx[c].event = 0 /\ tx[c].level \in Levels /\ tx[c].merit \in Levels
      BY <1>1, <2>1 DEF At, Fits, TxType
    <2>3. PICK e \in FreshEvents :
             /\ event' = Drafted(e, tx[c].merit, tx[c].level)
             /\ tx' = [tx EXCEPT ![c] = [tx[c] EXCEPT !.master = TRUE, !.event = e, !.pc = "commit"]]
             /\ hook' = HookAdded(<<e, "first">>) \/ hook' = hook
      BY <1>4 DEF SetLevel
    <2>4. Drafts(e, tx[c].merit, tx[c].level)
      BY <2>1, <2>2, <2>3 DEF Drafts
    <2> DEFINE t == [tx[c] EXCEPT !.master = TRUE, !.event = e, !.pc = "commit"]
    <2>5. t.event = e /\ t.level = tx[c].level /\ t.kind = "setlevel"
      BY <1>1, <2>1 DEF TxType, At
    <2>6. tx' = [tx EXCEPT ![c] = t]
      BY <2>3
    <2> HIDE DEF t
    <2>7. /\ tx'[c].event = e /\ tx'[c].level = tx[c].level /\ tx'[c].kind = "setlevel"
          /\ \A d \in Conns \ {c} : tx'[d] = tx[d]
      BY <1>2, <2>5, <2>6
    <2>8. Draws(c, e, tx[c].merit, tx[c].level)
      BY <2>1, <2>4, <2>7 DEF Draws
    <2> QED  BY <2>1, <2>2, <2>8
  <1> QED  BY <1>3, <1>4

LEMMA EndSteps ==
  ASSUME NEW c \in Conns
  PROVE  /\ Commit(c) => Ends(c, "unsent")
         /\ Rollback(c) \/ ConnDies(c) => Ends(c, "undone") /\ UNCHANGED <<level, snaps>>
  BY DEF Commit, Rollback, ConnDies, Ends, Undrafted

-----------------------------------------------------------------------------
(* The snapshots. Whoever has read the current row still finds it current     *)
(* when it commits, and a job that has merged has the corrected value.        *)

HasRead(t) == t.pc = "snap" \/ t.row
HasMerged(t) == t.kind = "consensus" /\ (t.pc \in {"master", "current", "snap"} \/ t.row)
Knows(c) ==
    HasRead(tx[c]) => tx[c].cur \in SomeCurrent /\ tx[c].ver = VersionOf(tx[c].cur) + 1
Kept(c) ==
    HasMerged(tx[c]) => \A i \in CurrentRows : snaps[i].manual => tx[c].value = snaps[i].value
SnapInv ==
    /\ CurrentRows = {} => snaps = << >>
    /\ OneCurrent
    /\ \A c \in Conns : Knows(c) /\ Kept(c)

(* A step by which c reads nothing new.                                       *)
Holds(c) ==
    /\ HasRead(tx'[c]) => HasRead(tx[c]) /\ tx'[c].cur = tx[c].cur /\ tx'[c].ver = tx[c].ver
    /\ HasMerged(tx'[c]) => HasMerged(tx[c]) /\ tx'[c].value = tx[c].value

LEMMA HoldsKeeps ==
  ASSUME SnapInv, UNCHANGED snaps, NEW c \in Conns, Holds(c)
  PROVE  (Knows(c) /\ Kept(c))'
  <1>1. Knows(c) /\ Kept(c)
    BY DEF SnapInv
  <1>2. SomeCurrent' = SomeCurrent /\ CurrentRows' = CurrentRows
    BY DEF SomeCurrent, CurrentRows
  <1>3. \A i : (VersionOf(i))' = VersionOf(i)
    BY DEF VersionOf
  <1>4. Knows(c)'
    <2>1. HasRead(tx'[c]) => tx'[c].cur \in SomeCurrent
                             /\ tx'[c].ver = VersionOf(tx'[c].cur) + 1
      BY <1>1 DEF Holds, Knows
    <2> QED  BY <1>2, <2>1 DEF Knows, HasRead, VersionOf
  <1>5. Kept(c)'
    BY <1>1, <1>2 DEF Holds, Kept, HasMerged
  <1> QED  BY <1>4, <1>5

LEMMA SnapMoves ==
  ASSUME TxShape, NEW c \in Conns, NEW t, tx' = [tx EXCEPT ![c] = t],
         HasRead(t) => HasRead(tx[c]) /\ t.cur = tx[c].cur /\ t.ver = tx[c].ver,
         HasMerged(t) => HasMerged(tx[c]) /\ t.value = tx[c].value
  PROVE  \A d \in Conns : Holds(d)
  <1>1. tx'[c] = t /\ \A d \in Conns \ {c} : tx'[d] = tx[d]
    BY DEF TxShape
  <1> QED  BY <1>1 DEF Holds

LEMMA SnapHolds ==
  ASSUME TxShape, NEW c \in Conns,
         \/ \E j \in Jobs : TakeJob(c, j)
         \/ \E v \in Values : ResolveBegins(c, v)
         \/ \E l \in Asked : SetLevelBegins(c, l)
         \/ Compute(c) \/ UpdateMaster(c) \/ WriteSnapshot(c)
         \/ KeepLevel(c) \/ ChangeLevel(c) \/ Unlock(c) \/ SetLevel(c)
         \/ StatementFails(c) \/ ComputeThrows(c)
         \/ Commit(c) \/ Rollback(c) \/ ConnDies(c)
  PROVE  \A d \in Conns : Holds(d)
  <1>1. tx[c] \in TxType /\ Fits(tx[c])
    BY DEF TxShape
  <1>2. ASSUME NEW j \in Jobs, TakeJob(c, j) PROVE \A d \in Conns : Holds(d)
    <2> DEFINE t == [Idle EXCEPT !.kind = "consensus", !.pc = "compute", !.job = j]
    <2>1. ~HasRead(t) /\ ~HasMerged(t)
      BY DEF Idle, HasRead, HasMerged
    <2> QED  BY <1>2, <2>1, SnapMoves DEF TakeJob
  <1>3. ASSUME NEW v \in Values, ResolveBegins(c, v) PROVE \A d \in Conns : Holds(d)
    <2> DEFINE t == [Idle EXCEPT !.kind = "resolve", !.pc = "current", !.value = v, !.manual = TRUE]
    <2>1. ~HasRead(t) /\ ~HasMerged(t)
      BY DEF Idle, HasRead, HasMerged
    <2> QED  BY <1>3, <2>1, SnapMoves DEF ResolveBegins
  <1>4. ASSUME NEW l \in Asked, SetLevelBegins(c, l) PROVE \A d \in Conns : Holds(d)
    <2> DEFINE t == [Idle EXCEPT !.kind = "setlevel", !.pc = "level", !.merit = level, !.level = l]
    <2>1. ~HasRead(t) /\ ~HasMerged(t)
      BY DEF Idle, HasRead, HasMerged
    <2> QED  BY <1>4, <2>1, SnapMoves DEF SetLevelBegins
  <1>5. CASE Commit(c) \/ Rollback(c) \/ ConnDies(c)
    <2>1. ~HasRead(Idle) /\ ~HasMerged(Idle)
      BY DEF Idle, HasRead, HasMerged
    <2> QED  BY <1>5, <2>1, SnapMoves DEF Commit, Rollback, ConnDies
  <1>6. CASE Compute(c)
    <2>1. PICK v : tx' = [tx EXCEPT ![c] = [tx[c] EXCEPT !.value = v, !.merit = votes.merit, !.pc = "merge"]]
      BY <1>6 DEF Compute
    <2> DEFINE t == [tx[c] EXCEPT !.value = v, !.merit = votes.merit, !.pc = "merge"]
    <2>2. ~HasRead(t) /\ ~HasMerged(t)
      BY <1>1, <1>6 DEF Compute, At, TxType, Fits, HasRead, HasMerged
    <2> QED  BY <2>1, <2>2, SnapMoves
  <1>7. CASE UpdateMaster(c)
    <2> DEFINE t == [tx[c] EXCEPT !.master = TRUE, !.pc = "current"]
    <2>1. ~HasRead(t) /\ HasMerged(tx[c]) /\ t.value = tx[c].value
      BY <1>1, <1>7 DEF UpdateMaster, At, TxType, Fits, HasRead, HasMerged
    <2> QED  BY <1>7, <2>1, SnapMoves DEF UpdateMaster
  <1>8. CASE WriteSnapshot(c)
    <2>1. PICK p \in {"level", "commit"} : tx' = [tx EXCEPT ![c] = [tx[c] EXCEPT !.row = TRUE, !.pc = p]]
      BY <1>8 DEF WriteSnapshot
    <2> DEFINE t == [tx[c] EXCEPT !.row = TRUE, !.pc = p]
    <2>2. tx[c].pc = "snap"
      BY <1>8 DEF WriteSnapshot
    <2>3. HasRead(tx[c]) /\ t.cur = tx[c].cur /\ t.ver = tx[c].ver
      BY <1>1, <2>2 DEF TxType, HasRead
    <2>4. (HasMerged(t) => HasMerged(tx[c])) /\ t.value = tx[c].value
      BY <1>1, <2>2 DEF TxType, HasMerged
    <2> QED  BY <2>1, <2>3, <2>4, SnapMoves
  <1>9. CASE KeepLevel(c) \/ Unlock(c) \/ StatementFails(c)
    <2>1. PICK p \in {"unlock", "commit", "rollback"} : tx' = [tx EXCEPT ![c] = [tx[c] EXCEPT !.pc = p]]
      BY <1>9 DEF KeepLevel, Unlock, StatementFails, Goto
    <2> DEFINE t == [tx[c] EXCEPT !.pc = p]
    <2>2. (HasRead(t) => HasRead(tx[c])) /\ t.cur = tx[c].cur /\ t.ver = tx[c].ver
      BY <1>1, <2>1 DEF TxType, HasRead
    <2>3. (HasMerged(t) => HasMerged(tx[c])) /\ t.value = tx[c].value
      BY <1>1, <2>1 DEF TxType, HasMerged
    <2> QED  BY <2>1, <2>2, <2>3, SnapMoves
  <1>10. CASE ComputeThrows(c)
    <2> DEFINE t == [tx[c] EXCEPT !.pc = "unlock", !.ok = FALSE]
    <2>1. (HasRead(t) => HasRead(tx[c])) /\ t.cur = tx[c].cur /\ t.ver = tx[c].ver
      BY <1>1 DEF TxType, HasRead
    <2>2. (HasMerged(t) => HasMerged(tx[c])) /\ t.value = tx[c].value
      BY <1>1 DEF TxType, HasMerged
    <2> QED  BY <1>10, <2>1, <2>2, SnapMoves DEF ComputeThrows
  <1>11. CASE ChangeLevel(c)
    <2>1. PICK l, e :
             \/ tx' = [tx EXCEPT ![c] = [tx[c] EXCEPT !.level = l, !.event = e, !.pc = "unlock"]]
             \/ tx' = [tx EXCEPT ![c] = [tx[c] EXCEPT !.event = e, !.pc = "unlock", !.ok = FALSE]]
      BY <1>11 DEF ChangeLevel
    <2> DEFINE added == [tx[c] EXCEPT !.level = l, !.event = e, !.pc = "unlock"]
               refused == [tx[c] EXCEPT !.event = e, !.pc = "unlock", !.ok = FALSE]
    <2>2. /\ (HasRead(added) => HasRead(tx[c])) /\ added.cur = tx[c].cur /\ added.ver = tx[c].ver
          /\ (HasRead(refused) => HasRead(tx[c])) /\ refused.cur = tx[c].cur /\ refused.ver = tx[c].ver
      BY <1>1 DEF TxType, HasRead
    <2>3. /\ (HasMerged(added) => HasMerged(tx[c])) /\ added.value = tx[c].value
          /\ (HasMerged(refused) => HasMerged(tx[c])) /\ refused.value = tx[c].value
      BY <1>1 DEF TxType, HasMerged
    <2>4. tx' = [tx EXCEPT ![c] = added] \/ tx' = [tx EXCEPT ![c] = refused]
      BY <2>1
    <2> HIDE DEF added, refused
    <2> QED  BY <2>2, <2>3, <2>4, SnapMoves
  <1>12. CASE SetLevel(c)
    <2>1. PICK e : tx' = [tx EXCEPT ![c] = [tx[c] EXCEPT !.master = TRUE, !.event = e, !.pc = "commit"]]
      BY <1>12 DEF SetLevel
    <2> DEFINE t == [tx[c] EXCEPT !.master = TRUE, !.event = e, !.pc = "commit"]
    <2>2. (HasRead(t) => HasRead(tx[c])) /\ t.cur = tx[c].cur /\ t.ver = tx[c].ver
      BY <1>1 DEF TxType, HasRead
    <2>3. (HasMerged(t) => HasMerged(tx[c])) /\ t.value = tx[c].value
      BY <1>1 DEF TxType, HasMerged
    <2> QED  BY <2>1, <2>2, <2>3, SnapMoves
  <1> QED  BY <1>2, <1>3, <1>4, <1>5, <1>6, <1>7, <1>8, <1>9, <1>10, <1>11, <1>12

(* The rows that a commit leaves.                                             *)
LEMMA RowsAfter ==
  ASSUME SnapsTyped, NEW c \in Conns, tx[c] \in TxType, tx[c].row, tx[c].ver # 0
  PROVE  LET n == Len(snaps) after == SnapsAfter(c) IN
         /\ n \in Nat /\ DOMAIN snaps = 1 .. n /\ DOMAIN after = 1 .. n + 1 /\ Len(after) = n + 1
         /\ after \in Seq(SnapType)
         /\ after[n + 1] = [version |-> tx[c].ver, value |-> tx[c].value, manual |-> tx[c].manual,
                            current |-> TRUE]
         /\ \A i \in 1 .. n : /\ after[i].version = snaps[i].version
                              /\ after[i].current <=> (snaps[i].current /\ i # tx[c].cur)
  <1> DEFINE n == Len(snaps)
             old == [i \in DOMAIN snaps |-> [snaps[i] EXCEPT !.current = snaps[i].current /\ i # tx[c].cur]]
             new == [version |-> tx[c].ver, value |-> tx[c].value, manual |-> tx[c].manual,
                     current |-> TRUE]
  <1>1. n \in Nat /\ DOMAIN snaps = 1 .. n /\ \A i \in 1 .. n : snaps[i] \in SnapType
    BY DEF SnapsTyped
  <1>2. new \in SnapType
    BY DEF TxType, SnapType
  <1>3. \A i \in 1 .. n : /\ [snaps[i] EXCEPT !.current = snaps[i].current /\ i # tx[c].cur] \in SnapType
                          /\ old[i] = [snaps[i] EXCEPT !.current = snaps[i].current /\ i # tx[c].cur]
    BY <1>1 DEF SnapType
  <1>4. old \in [1 .. n -> SnapType]
    BY <1>1, <1>3
  <1>5. old \in Seq(SnapType) /\ Len(old) = n
    BY <1>1, <1>4
  <1>6. \A i \in 1 .. n : /\ old[i].version = snaps[i].version
                          /\ old[i].current <=> (snaps[i].current /\ i # tx[c].cur)
    BY <1>1, <1>3 DEF SnapType
  <1>7. SnapsAfter(c) = Append(old, new)
    BY DEF SnapsAfter
  <1> HIDE DEF old, new
  <1>8. /\ Append(old, new) \in Seq(SnapType) /\ Len(Append(old, new)) = n + 1
        /\ Append(old, new)[n + 1] = new /\ \A i \in 1 .. n : Append(old, new)[i] = old[i]
    BY <1>1, <1>2, <1>5, AppendProperties
  <1>9. DOMAIN Append(old, new) = 1 .. n + 1
    BY <1>8
  <1> QED  BY <1>1, <1>6, <1>7, <1>8, <1>9 DEF new

LEMMA ReadSnap ==
  ASSUME TxShape, SnapsTyped, SnapInv, NEW c \in Conns, ReadCurrent(c) \/ Merge(c)
  PROVE  SnapInv'
  <1>1. tx[c] \in TxType /\ Fits(tx[c]) /\ Knows(c) /\ Kept(c) /\ snaps' = snaps
    BY DEF TxShape, SnapInv, ReadCurrent, Merge
  <1>2. /\ CurrentRows' = CurrentRows /\ SomeCurrent' = SomeCurrent
        /\ OneCurrent' /\ (CurrentRows' = {} => snaps' = << >>)
    BY <1>1 DEF SnapInv, CurrentRows, SomeCurrent, OneCurrent
  <1>3. ASSUME NEW t, tx' = [tx EXCEPT ![c] = t],
               HasRead(t) => t.cur \in SomeCurrent /\ t.ver = VersionOf(t.cur) + 1,
               HasMerged(t) => \A i \in CurrentRows : snaps[i].manual => t.value = snaps[i].value
        PROVE  SnapInv'
    <2>1. tx'[c] = t /\ \A d \in Conns \ {c} : tx'[d] = tx[d]
      BY <1>3 DEF TxShape
    <2>2. (Knows(c) /\ Kept(c))'
      BY <1>1, <1>2, <1>3, <2>1 DEF Knows, Kept, HasRead, HasMerged, VersionOf
    <2>3. ASSUME NEW d \in Conns \ {c} PROVE (Knows(d) /\ Kept(d))'
      BY <1>1, <2>1, HoldsKeeps DEF Holds
    <2> QED  BY <1>2, <2>2, <2>3 DEF SnapInv
  <1>4. CASE ReadCurrent(c)
    <2>1. PICK i \in SomeCurrent :
             tx' = [tx EXCEPT ![c] = [tx[c] EXCEPT !.cur = i, !.ver = VersionOf(i) + 1, !.pc = "snap"]]
      BY <1>4 DEF ReadCurrent
    <2> DEFINE v == VersionOf(i) + 1
               t == [tx[c] EXCEPT !.cur = i, !.ver = v, !.pc = "snap"]
    <2> HIDE DEF v
    <2>2. t.cur = i /\ t.ver = v /\ t.value = tx[c].value /\ t.kind = tx[c].kind
      BY <1>1 DEF TxType
    <2>3. tx[c].pc = "current"
      BY <1>4 DEF ReadCurrent
    <2>4. HasMerged(t) => HasMerged(tx[c])
      BY <2>2, <2>3 DEF HasMerged
    <2>5. tx' = [tx EXCEPT ![c] = t]
      BY <2>1 DEF v
    <2> HIDE DEF t
    <2> QED  BY <1>1, <1>3, <2>1, <2>2, <2>4, <2>5 DEF Kept, v
  <1>5. CASE Merge(c)
    <2>1. PICK i \in SomeCurrent :
             tx' = [tx EXCEPT ![c] = [tx[c] EXCEPT !.value = MergedValue(tx[c].value, i), !.pc = "master"]]
      BY <1>5 DEF Merge
    <2> DEFINE v == MergedValue(tx[c].value, i)
               t == [tx[c] EXCEPT !.value = v, !.pc = "master"]
    <2> HIDE DEF v
    <2>2. t.value = v /\ t.pc = "master" /\ t.row = tx[c].row
      BY <1>1 DEF TxType
    <2>3. ~HasRead(t)
      BY <1>1, <1>5, <2>2 DEF Merge, At, Fits, HasRead
    <2>4. ASSUME NEW k \in CurrentRows, snaps[k].manual PROVE v = snaps[k].value
      <3>1. i = k /\ i # 0
        BY <2>1, <2>4, SnapsAre DEF SomeCurrent, SnapInv, OneCurrent, CurrentRows
      <3> QED  BY <2>4, <3>1 DEF v, MergedValue, IsManual, ValueOf
    <2>5. tx' = [tx EXCEPT ![c] = t]
      BY <2>1 DEF v
    <2> HIDE DEF t
    <2> QED  BY <1>3, <2>2, <2>3, <2>4, <2>5
  <1> QED  BY <1>4, <1>5

LEMMA CommitSnap ==
  ASSUME "overlap" \notin Hazards, Shape, SnapsTyped, SnapInv, NEW c \in Conns, Commit(c)
  PROVE  SnapInv' /\ SnapsTyped'
  <1>1. /\ tx[c] \in TxType /\ Fits(tx[c]) /\ Knows(c) /\ snaps' = SnapsAfter(c) /\ level' \in Levels
        /\ votes' = votes /\ \A d \in Conns \ {c} : tx'[d] = tx[d]
    BY DEF Shape, TxShape, SnapInv, SnapsTyped, Commit, TxType
  <1>2. ~HasRead(tx'[c]) /\ ~HasMerged(tx'[c])
    <2>1. tx'[c] = Idle
      BY DEF Shape, TxShape, Commit
    <2> QED  BY <2>1 DEF Idle, HasRead, HasMerged
  <1>3. CASE ~tx[c].row
    <2>1. snaps' = snaps
      BY <1>1, <1>3 DEF SnapsAfter
    <2>2. \A d \in Conns : Holds(d)
      BY <1>1, <1>2 DEF Holds
    <2>3. \A d \in Conns : (Knows(d) /\ Kept(d))'
      BY <2>1, <2>2, HoldsKeeps
    <2>4. (OneCurrent /\ (CurrentRows = {} => snaps = << >>))'
      BY <2>1 DEF SnapInv, OneCurrent, CurrentRows
    <2>5. SnapsTyped'
      BY <1>1, <2>1 DEF SnapsTyped
    <2> QED  BY <2>3, <2>4, <2>5 DEF SnapInv
  <1>4. CASE tx[c].row
    <2> DEFINE n == Len(snaps)
    <2>1. tx[c].ver # 0 /\ tx[c].kind \in Writers /\ HasRead(tx[c])
      BY <1>1, <1>4 DEF Fits, HasRead
    <2>2. /\ n \in Nat /\ DOMAIN snaps = 1 .. n /\ DOMAIN snaps' = 1 .. n + 1
          /\ snaps' \in Seq(SnapType)
          /\ snaps'[n + 1] = [version |-> tx[c].ver, value |-> tx[c].value, manual |-> tx[c].manual,
                              current |-> TRUE]
          /\ \A i \in 1 .. n : /\ snaps'[i].version = snaps[i].version
                               /\ snaps'[i].current <=> (snaps[i].current /\ i # tx[c].cur)
      BY <1>1, <1>4, <2>1, RowsAfter
    <2>3. SnapsTyped'
      BY <1>1, <2>2 DEF SnapsTyped
    <2>4. tx[c].cur \in SomeCurrent /\ tx[c].ver = VersionOf(tx[c].cur) + 1
      BY <1>1, <2>1 DEF Knows
    <2>5. \A i \in 1 .. n : snaps[i] \in SnapType
      BY <2>2 DEF SnapsTyped
    <2>6. \A i \in 1 .. n : ~snaps'[i].current
      <3>1. ASSUME NEW i \in 1 .. n, snaps[i].current PROVE i = tx[c].cur
        <4>1. i \in CurrentRows
          BY <2>2, <3>1 DEF CurrentRows
        <4>2. tx[c].cur \in CurrentRows
          BY <2>4, <4>1 DEF SomeCurrent
        <4> QED  BY <4>1, <4>2 DEF CurrentRows, SnapInv, OneCurrent
      <3>2. ASSUME NEW i \in 1 .. n PROVE ~snaps'[i].current
        <4>1. snaps'[i].current <=> (snaps[i].current /\ i # tx[c].cur)
          BY <2>2
        <4> QED  BY <3>1, <4>1
      <3> QED  BY <3>2
    <2>7. \A i \in 1 .. n : snaps'[i].version < tx[c].ver
      <3>1. CASE CurrentRows = {}
        <4>1. n = 0
          BY <3>1 DEF SnapInv
        <4> QED  BY <4>1
      <3>2. CASE CurrentRows # {}
        <4>1. tx[c].cur \in CurrentRows /\ tx[c].cur \in 1 .. n
          BY <2>2, <2>4, <3>2 DEF SomeCurrent, CurrentRows
        <4>2. tx[c].ver = snaps[tx[c].cur].version + 1
          BY <2>2, <2>4, <4>1 DEF VersionOf
        <4>3. \A i \in 1 .. n : i # tx[c].cur => snaps[i].version < snaps[tx[c].cur].version
          BY <2>2, <4>1 DEF SnapInv, OneCurrent
        <4>4. ASSUME NEW i \in 1 .. n PROVE snaps[i].version \in Nat
          BY <2>5 DEF SnapType
        <4>5. ASSUME NEW i \in 1 .. n PROVE snaps'[i].version < tx[c].ver
          <5>1. snaps'[i].version = snaps[i].version
            BY <2>2
          <5>2. snaps[i].version \in Nat /\ snaps[tx[c].cur].version \in Nat
            BY <4>1, <4>4
          <5>3. snaps[i].version <= snaps[tx[c].cur].version
            BY <4>3, <5>2
          <5> QED  BY <4>2, <5>1, <5>2, <5>3
        <4> QED  BY <4>5
      <3> QED  BY <3>1, <3>2
    <2>8. CurrentRows' = {n + 1}
      BY <2>2, <2>6 DEF CurrentRows
    <2> HIDE DEF n
    <2>9. OneCurrent'
      BY <2>2, <2>6, <2>7, <2>8 DEF OneCurrent
    <2>10. ASSUME NEW d \in Conns \ {c} PROVE ~HasRead(tx[d])
      <3>1. HasRead(tx[d]) => tx[d].kind \in Writers
        BY DEF HasRead, Shape, TxShape, Fits
      <3>2. ~(tx[c].kind = "consensus" /\ tx[d].kind = "consensus" /\ HasRead(tx[d]))
        BY <2>1, <2>10 DEF HasRead, Shape, TxShape, Fits, MasterAlone
      <3>3. ~Clash(tx[c].kind, tx[d].kind)
        BY <2>10 DEF Shape, NobodyClashes
      <3> QED  BY <2>1, <3>1, <3>2, <3>3 DEF Writers, Clash
    <2>11. ASSUME NEW d \in Conns \ {c}, HasMerged(tx[d]) PROVE ~tx[c].manual
      <3>1. ~Clash(tx[c].kind, tx[d].kind)
        BY <2>11 DEF Shape, NobodyClashes
      <3> QED  BY <1>1, <2>1, <2>11, <3>1 DEF HasMerged, Writers, Clash, Fits
    <2>12. ASSUME NEW d \in Conns PROVE (Knows(d) /\ Kept(d))'
      <3>1. CASE d = c
        BY <1>2, <3>1 DEF Knows, Kept, HasRead, HasMerged
      <3>2. CASE d # c
        <4>1. tx'[d] = tx[d] /\ ~HasRead(tx'[d])
          BY <1>1, <2>10, <3>2
        <4>2. (Knows(d))'
          BY <4>1 DEF Knows, HasRead
        <4>3. HasMerged(tx'[d]) => ~snaps'[n + 1].manual
          BY <2>2, <2>11, <3>2, <4>1
        <4>4. (Kept(d))'
          BY <2>8, <4>3 DEF Kept, HasMerged
        <4> QED  BY <4>2, <4>4
      <3> QED  BY <3>1, <3>2
    <2> QED  BY <2>3, <2>8, <2>9, <2>12 DEF SnapInv
  <1> QED  BY <1>3, <1>4

-----------------------------------------------------------------------------
(* The rest of the types: a job that is at work has its session's lock, so    *)
(* that the lock is never given back more often than it was taken.            *)

Working(t) == t.kind = "consensus" /\ t.pc \notin {"idle", "commit", "rollback"}
LocksHeld == \A c \in Conns : Working(tx[c]) => advisory[c] > 0
CountsTyped ==
    /\ job \in [Jobs -> JobType]
    /\ advisory \in [Conns -> Nat] /\ LocksHeld
    /\ edits \in 0 .. MaxEdits
    /\ troubles \in 0 .. MaxHazards

LEMMA TroubleTyped ==
  ASSUME troubles \in 0 .. MaxHazards
  PROVE  /\ UNCHANGED troubles => troubles' \in 0 .. MaxHazards
         /\ \A kind : Trouble(kind) => troubles' \in 0 .. MaxHazards
  BY EventBounds DEF Trouble

LEMMA WorkMoves ==
  ASSUME TxShape, LocksHeld, NEW c \in Conns, NEW t, tx' = [tx EXCEPT ![c] = t],
         Working(t) => Working(tx[c]), UNCHANGED advisory
  PROVE  LocksHeld'
  <1>1. tx'[c] = t /\ \A d \in Conns \ {c} : tx'[d] = tx[d]
    BY DEF TxShape
  <1> QED  BY <1>1 DEF LocksHeld

\* Steps that leave the locks, the jobs and the edits alone.
LEMMA CountsStay ==
  ASSUME TxShape, CountsTyped, NEW c \in Conns,
         \/ Compute(c) \/ Merge(c) \/ UpdateMaster(c) \/ ReadCurrent(c) \/ WriteSnapshot(c)
         \/ KeepLevel(c) \/ ChangeLevel(c) \/ SetLevel(c) \/ StatementFails(c) \/ ComputeThrows(c)
  PROVE  CountsTyped'
  <1>1. tx[c] \in TxType /\ LocksHeld
    BY DEF TxShape, CountsTyped
  <1>2. UNCHANGED <<advisory, job, edits>>
    BY DEF Compute, Merge, UpdateMaster, ReadCurrent, WriteSnapshot, KeepLevel, ChangeLevel,
           SetLevel, StatementFails, ComputeThrows
  <1>3. UNCHANGED troubles \/ \E kind : Trouble(kind)
    BY DEF Compute, Merge, UpdateMaster, ReadCurrent, WriteSnapshot, KeepLevel, ChangeLevel,
           SetLevel, StatementFails, ComputeThrows, eventVars
  <1>4. ASSUME LocksHeld' PROVE CountsTyped'
    BY <1>2, <1>3, <1>4, TroubleTyped DEF CountsTyped
  <1>5. CASE Compute(c)
    <2>1. PICK v : tx' = [tx EXCEPT ![c] = [tx[c] EXCEPT !.value = v, !.merit = votes.merit, !.pc = "merge"]]
      BY <1>5 DEF Compute
    <2>2. Working(tx[c])
      BY <1>5 DEF Compute, At, Working
    <2> QED  BY <1>1, <1>2, <1>4, <2>1, <2>2, WorkMoves
  <1>6. CASE Merge(c)
    <2>1. PICK v : tx' = [tx EXCEPT ![c] = [tx[c] EXCEPT !.value = v, !.pc = "master"]]
      BY <1>6 DEF Merge
    <2>2. Working(tx[c])
      BY <1>6 DEF Merge, At, Working
    <2> QED  BY <1>1, <1>2, <1>4, <2>1, <2>2, WorkMoves
  <1>7. CASE UpdateMaster(c) \/ KeepLevel(c) \/ ChangeLevel(c) \/ ComputeThrows(c)
    <2>1. Working(tx[c])
      BY <1>7 DEF UpdateMaster, KeepLevel, ChangeLevel, ComputeThrows, At, Working
    <2>2. \E t : tx' = [tx EXCEPT ![c] = t]
      BY <1>7 DEF UpdateMaster, KeepLevel, ChangeLevel, ComputeThrows, Goto
    <2> QED  BY <1>1, <1>2, <1>4, <2>1, <2>2, WorkMoves
  <1>8. CASE ReadCurrent(c)
    <2>1. PICK i : tx' = [tx EXCEPT ![c] = [tx[c] EXCEPT !.cur = i, !.ver = VersionOf(i) + 1, !.pc = "snap"]]
      BY <1>8 DEF ReadCurrent
    <2> DEFINE t == [tx[c] EXCEPT !.cur = i, !.ver = VersionOf(i) + 1, !.pc = "snap"]
    <2>2. t.kind = tx[c].kind /\ tx[c].pc = "current"
      BY <1>1, <1>8 DEF ReadCurrent, TxType
    <2>3. Working(t) => Working(tx[c])
      BY <2>2 DEF Working
    <2> QED  BY <1>1, <1>2, <1>4, <2>1, <2>3, WorkMoves
  <1>9. CASE WriteSnapshot(c)
    <2>1. PICK p : tx' = [tx EXCEPT ![c] = [tx[c] EXCEPT !.row = TRUE, !.pc = p]]
      BY <1>9 DEF WriteSnapshot
    <2> DEFINE t == [tx[c] EXCEPT !.row = TRUE, !.pc = p]
    <2>2. t.kind = tx[c].kind /\ tx[c].pc = "snap"
      BY <1>1, <1>9 DEF WriteSnapshot, TxType
    <2>3. Working(t) => Working(tx[c])
      BY <2>2 DEF Working
    <2> QED  BY <1>1, <1>2, <1>4, <2>1, <2>3, WorkMoves
  <1>10. CASE SetLevel(c)
    <2>1. PICK e : tx' = [tx EXCEPT ![c] = [tx[c] EXCEPT !.master = TRUE, !.event = e, !.pc = "commit"]]
      BY <1>10 DEF SetLevel
    <2> DEFINE t == [tx[c] EXCEPT !.master = TRUE, !.event = e, !.pc = "commit"]
    <2>2. t.pc = "commit"
      BY <1>1 DEF TxType
    <2>3. ~Working(t)
      BY <2>2 DEF Working
    <2> QED  BY <1>1, <1>2, <1>4, <2>1, <2>3, WorkMoves
  <1>11. CASE StatementFails(c)
    <2> DEFINE t == [tx[c] EXCEPT !.pc = "rollback"]
    <2>1. ~Working(t)
      BY <1>1 DEF TxType, Working
    <2> QED  BY <1>1, <1>2, <1>4, <1>11, <2>1, WorkMoves DEF StatementFails, Goto
  <1> QED  BY <1>5, <1>6, <1>7, <1>8, <1>9, <1>10, <1>11

LEMMA JobEnds ==
  ASSUME job \in [Jobs -> JobType], NEW c \in Conns, tx[c].job \in Jobs
  PROVE  JobDone(c) \/ JobFailed(c) => job' \in [Jobs -> JobType]
  <1> DEFINE j == tx[c].job
  <1>1. job[j] \in JobType
    OBVIOUS
  <1>2. [job[j] EXCEPT !.state = "done"] \in JobType
    BY <1>1 DEF JobType
  <1>3. job[j].tries + 1 < JobAttempts => [state |-> "waiting", tries |-> job[j].tries + 1] \in JobType
    BY <1>1, ConsensusBounds DEF JobType
  <1>4. [state |-> "done", tries |-> job[j].tries] \in JobType
    BY <1>1 DEF JobType
  <1>5. ASSUME JobDone(c) PROVE job' \in [Jobs -> JobType]
    BY <1>2, <1>5 DEF JobDone
  <1>6. ASSUME JobFailed(c) PROVE job' \in [Jobs -> JobType]
    BY <1>3, <1>4, <1>6 DEF JobFailed
  <1> QED  BY <1>5, <1>6

LEMMA CountsMove ==
  ASSUME TxShape, CountsTyped, NEW c \in Conns,
         \/ \E j \in Jobs : TakeJob(c, j) \/ SkipJob(c, j)
         \/ \E v \in Values : ResolveBegins(c, v)
         \/ \E l \in Asked : SetLevelBegins(c, l)
         \/ Unlock(c) \/ Commit(c) \/ Rollback(c) \/ ConnDies(c)
  PROVE  CountsTyped'
  <1>1. /\ tx[c] \in TxType /\ Fits(tx[c]) /\ LocksHeld /\ advisory \in [Conns -> Nat]
        /\ job \in [Jobs -> JobType] /\ edits \in 0 .. MaxEdits /\ troubles \in 0 .. MaxHazards
        /\ \A d \in Conns : advisory[d] \in Nat
    BY DEF TxShape, CountsTyped
  <1>2. \A j \in Jobs, s \in {"active", "done"} : [job EXCEPT ![j].state = s] \in [Jobs -> JobType]
    BY <1>1 DEF JobType
  <1>3. \A t : tx' = [tx EXCEPT ![c] = t] => tx'[c] = t /\ \A d \in Conns \ {c} : tx'[d] = tx[d]
    BY DEF TxShape
  <1>4. edits < MaxEdits => edits + 1 \in 0 .. MaxEdits
    BY <1>1, ConsensusBounds
  <1>5. ASSUME NEW j \in Jobs, TakeJob(c, j) PROVE CountsTyped'
    <2>1. advisory' = [advisory EXCEPT ![c] = advisory[c] + 1] /\ UNCHANGED <<edits, troubles>>
          /\ job' = [job EXCEPT ![j].state = "active"]
          /\ \A d \in Conns \ {c} : tx'[d] = tx[d]
      BY <1>3, <1>5 DEF TakeJob, eventVars
    <2>2. advisory' \in [Conns -> Nat] /\ advisory'[c] > 0
          /\ \A d \in Conns \ {c} : advisory'[d] = advisory[d]
      BY <1>1, <2>1
    <2>3. LocksHeld'
      BY <1>1, <2>1, <2>2 DEF LocksHeld
    <2> QED  BY <1>1, <1>2, <2>1, <2>2, <2>3 DEF CountsTyped
  <1>6. ASSUME NEW j \in Jobs, SkipJob(c, j) PROVE CountsTyped'
    BY <1>1, <1>2, <1>6 DEF SkipJob, eventVars, CountsTyped, LocksHeld
  <1>7. ASSUME NEW v \in Values, ResolveBegins(c, v) PROVE CountsTyped'
    <2> DEFINE t == [Idle EXCEPT !.kind = "resolve", !.pc = "current", !.value = v, !.manual = TRUE]
    <2>1. ~Working(t)
      BY DEF Idle, Working
    <2>2. LocksHeld'
      BY <1>1, <1>7, <2>1, WorkMoves DEF ResolveBegins
    <2> QED  BY <1>1, <1>4, <1>7, <2>2 DEF ResolveBegins, eventVars, CountsTyped
  <1>8. ASSUME NEW l \in Asked, SetLevelBegins(c, l) PROVE CountsTyped'
    <2> DEFINE t == [Idle EXCEPT !.kind = "setlevel", !.pc = "level", !.merit = level, !.level = l]
    <2>1. ~Working(t)
      BY DEF Idle, Working
    <2>2. LocksHeld'
      BY <1>1, <1>8, <2>1, WorkMoves DEF SetLevelBegins
    <2> QED  BY <1>1, <1>4, <1>8, <2>2 DEF SetLevelBegins, eventVars, CountsTyped
  <1>9. CASE Unlock(c)
    <2>1. advisory' = [advisory EXCEPT ![c] = advisory[c] - 1] /\ UNCHANGED <<job, edits, troubles>>
          /\ At(c, "consensus", "unlock")
      BY <1>9 DEF Unlock, eventVars
    <2>2. advisory[c] > 0
      BY <1>1, <2>1 DEF LocksHeld, Working, At
    <2>3. advisory' \in [Conns -> Nat] /\ \A d \in Conns \ {c} : advisory'[d] = advisory[d]
      BY <1>1, <2>1, <2>2
    <2>4. PICK p \in {"commit", "rollback"} : tx' = [tx EXCEPT ![c] = [tx[c] EXCEPT !.pc = p]]
      BY <1>9 DEF Unlock, Goto
    <2> DEFINE t == [tx[c] EXCEPT !.pc = p]
    <2>5. ~Working(t)
      BY <1>1, <2>4 DEF Working, TxType
    <2> HIDE DEF t
    <2>6. tx'[c] = t /\ \A d \in Conns \ {c} : tx'[d] = tx[d]
      BY <1>3, <2>4 DEF t
    <2>7. LocksHeld'
      BY <1>1, <2>3, <2>5, <2>6 DEF LocksHeld
    <2> QED  BY <1>1, <2>1, <2>3, <2>7 DEF CountsTyped
  <1>10. CASE Commit(c) \/ Rollback(c) \/ ConnDies(c)
    <2>1. ~Working(Idle) /\ tx' = [tx EXCEPT ![c] = Idle] /\ UNCHANGED edits
      BY <1>10 DEF Idle, Working, Commit, Rollback, ConnDies
    <2>2. tx[c].kind = "consensus" => tx[c].job \in Jobs
      BY <1>1 DEF Fits
    <2>3. job' = job \/ (tx[c].kind = "consensus" /\ (JobDone(c) \/ JobFailed(c)))
      BY <1>10 DEF Commit, Rollback, ConnDies
    <2>4. job' \in [Jobs -> JobType]
      BY <1>1, <2>2, <2>3, JobEnds
    <2>5. troubles' \in 0 .. MaxHazards
      BY <1>1, <1>10, TroubleTyped DEF Commit, Rollback, ConnDies
    <2>6. advisory' \in [Conns -> Nat] /\ \A d \in Conns \ {c} : advisory'[d] = advisory[d]
      BY <1>1, <1>10 DEF Commit, Rollback, ConnDies
    <2>7. LocksHeld'
      BY <1>1, <1>3, <2>1, <2>6 DEF LocksHeld
    <2> QED  BY <2>1, <2>4, <2>5, <2>6, <2>7 DEF CountsTyped
  <1> QED  BY <1>5, <1>6, <1>7, <1>8, <1>9, <1>10

-----------------------------------------------------------------------------
(* All together.                                                              *)

Base == Shape /\ SnapsTyped /\ CountsTyped /\ EventsInv /\ LevelInv

LEMMA BaseInit == Init => Base
  <1> SUFFICES ASSUME Init PROVE Base
    OBVIOUS
  <1>1. \A c \in Conns : tx[c] = Idle
    BY DEF Init
  <1>2. Shape
    <2>1. TxShape
      BY <1>1, IdleFits DEF Init, TxShape
    <2>2. MasterAlone
      BY <1>1 DEF MasterAlone, Idle
    <2>3. NobodyClashes
      BY <1>1 DEF NobodyClashes, Clash, Idle
    <2> QED  BY <2>1, <2>2, <2>3 DEF Shape
  <1>3. SnapsTyped
    <2>1. << >> \in Seq(SnapType)
      OBVIOUS
    <2>2. [value |-> "conflict", merit |-> "bronze"] \in [value : Values \cup {None, "conflict"}, merit : Levels]
      BY DEF Levels
    <2>3. votes \in VoteType
      BY <2>2 DEF Init, VoteType
    <2> QED  BY <2>1, <2>3 DEF Init, SnapsTyped, Levels
  <1>4. CountsTyped
    <2>1. [state |-> "none", tries |-> 0] \in JobType
      BY ConsensusBounds DEF JobType
    <2>2. LocksHeld
      BY <1>1 DEF LocksHeld, Working, Idle
    <2> QED  BY <2>1, <2>2, EventBounds, ConsensusBounds DEF Init, EventsInit, CountsTyped
  <1>5. EventsInv
    <2> DEFINE row == [state |-> "none", from |-> "none", to |-> "none", mute |-> FALSE,
                       resets |-> 0, unheard |-> 0]
    <2>1. row \in EventType
      BY DEF EventType
    <2>2. [state |-> "none", tries |-> 0] \in HookType
      BY EventBounds DEF HookType
    <2>3. EventsTyped
      BY <2>1, <2>2, EventBounds DEF Init, EventsInit, EventsTyped
    <2>4. ASSUME NEW e \in Events PROVE Backed(e) /\ Paid(e)
      <3>1. /\ event[e].state = "none" /\ event[e].resets = 0 /\ event[e].unheard = 0
            /\ received[e] = 0 /\ sweep = {} /\ retrying = 0 /\ e # 0
        BY EventBounds DEF Init, EventsInit, Events
      <3>2. \A tag \in Tags : hook[<<e, tag>>].state = "none"
        BY DEF Init, EventsInit, HookIds
      <3> QED  BY <3>1, <3>2 DEF Backed, Paid, Owed, FirstOwed, Pending, Tags
    <2> QED  BY <2>3, <2>4 DEF EventsInv
  <1>6. LevelInv
    <2>1. \A e \in Events : event[e].state = "none"
      BY DEF Init, EventsInit
    <2>2. \A c \in Conns : tx[c].event = 0
      BY <1>1 DEF Idle
    <2>3. level = "bronze"
      BY DEF Init
    <2> QED  BY <2>1, <2>2, <2>3 DEF LevelInv, Numbered, DraftsHeld, DraftIsLast, HeldDrafts,
                LevelShown, Visible
  <1> QED  BY <1>2, <1>3, <1>4, <1>5, <1>6 DEF Base

LEMMA SnapsStay ==
  ASSUME Shape, SnapsTyped, Next
  PROVE  \/ UNCHANGED snaps
         \/ \E c \in Conns : Commit(c)
  <1>1. ASSUME NEW c \in Conns, TxStep(c), ~Commit(c) PROVE UNCHANGED snaps
    BY <1>1 DEF TxStep, Compute, Merge, UpdateMaster, ReadCurrent, WriteSnapshot, KeepLevel,
                ChangeLevel, Unlock, SetLevel, Rollback
  <1>2. ASSUME NEW c \in Conns,
               \/ \E j \in Jobs : TakeJob(c, j) \/ SkipJob(c, j)
               \/ \E v \in Values : ResolveBegins(c, v)
               \/ \E l \in Asked : SetLevelBegins(c, l)
               \/ StatementFails(c) \/ ComputeThrows(c) \/ ConnDies(c)
        PROVE  UNCHANGED snaps
    BY <1>2 DEF TakeJob, SkipJob, ResolveBegins, SetLevelBegins, StatementFails, ComputeThrows, ConnDies
  <1>3. ASSUME \/ \E j \in Jobs : Enqueue(j)
               \/ \E v \in Votes : VotesChange(v)
        PROVE  UNCHANGED snaps
    BY <1>3 DEF Enqueue, VotesChange
  <1> QED  BY <1>1, <1>2, <1>3 DEF Next

LEMMA TypesNext ==
  ASSUME Shape, SnapsTyped, Next
  PROVE  SnapsTyped'
  <1>1. ASSUME NEW c \in Conns, Commit(c) PROVE SnapsTyped'
    <2>1. tx[c] \in TxType /\ Fits(tx[c])
      BY DEF Shape, TxShape
    <2>2. level' \in Levels /\ votes' = votes /\ snaps' = SnapsAfter(c)
      BY <1>1, <2>1 DEF Commit, TxType, SnapsTyped
    <2>3. SnapsAfter(c) \in Seq(SnapType)
      BY <2>1, RowsAfter DEF SnapsAfter, SnapsTyped, Fits
    <2> QED  BY <2>2, <2>3 DEF SnapsTyped
  <1>2. ASSUME ~\E c \in Conns : Commit(c) PROVE SnapsTyped'
    <2>1. snaps' = snaps
      BY <1>2, SnapsStay
    <2>2. level' = level
      <3>1. ASSUME NEW c \in Conns, TxStep(c) PROVE level' = level
        BY <1>2, <3>1 DEF TxStep, Compute, Merge, UpdateMaster, ReadCurrent, WriteSnapshot, KeepLevel,
                    ChangeLevel, Unlock, SetLevel, Rollback
      <3>2. ASSUME NEW c \in Conns,
                   \/ \E j \in Jobs : TakeJob(c, j) \/ SkipJob(c, j)
                   \/ \E v \in Values : ResolveBegins(c, v)
                   \/ \E l \in Asked : SetLevelBegins(c, l)
                   \/ StatementFails(c) \/ ComputeThrows(c) \/ ConnDies(c)
            PROVE  level' = level
        BY <3>2 DEF TakeJob, SkipJob, ResolveBegins, SetLevelBegins, StatementFails, ComputeThrows,
                    ConnDies
      <3>3. ASSUME \/ \E j \in Jobs : Enqueue(j)
                   \/ \E v \in Votes : VotesChange(v)
            PROVE  level' = level
        BY <3>3 DEF Enqueue, VotesChange
      <3> QED  BY <3>1, <3>2, <3>3 DEF Next
    <2>3. votes' \in VoteType
      <3>1. ASSUME NEW v \in Votes, VotesChange(v) PROVE votes' \in VoteType
        BY <3>1, ConsensusBounds DEF VotesChange, Votes, VoteType, Levels
      <3>2. ASSUME ~\E v \in Votes : VotesChange(v) PROVE votes' = votes
        <4>1. ASSUME NEW c \in Conns, TxStep(c) PROVE votes' = votes
          BY <1>2, <4>1 DEF TxStep, Compute, Merge, UpdateMaster, ReadCurrent, WriteSnapshot, KeepLevel,
                      ChangeLevel, Unlock, SetLevel, Rollback
        <4>2. ASSUME NEW c \in Conns,
                     \/ \E j \in Jobs : TakeJob(c, j) \/ SkipJob(c, j)
                     \/ \E v \in Values : ResolveBegins(c, v)
                     \/ \E l \in Asked : SetLevelBegins(c, l)
                     \/ StatementFails(c) \/ ComputeThrows(c) \/ ConnDies(c)
              PROVE  votes' = votes
          BY <4>2 DEF TakeJob, SkipJob, ResolveBegins, SetLevelBegins, StatementFails, ComputeThrows,
                      ConnDies
        <4>3. ASSUME NEW j \in Jobs, Enqueue(j) PROVE votes' = votes
          BY <4>3 DEF Enqueue
        <4> QED  BY <3>2, <4>1, <4>2, <4>3 DEF Next
      <3> QED  BY <3>1, <3>2 DEF SnapsTyped
    <2> QED  BY <2>1, <2>2, <2>3 DEF SnapsTyped
  <1> QED  BY <1>1, <1>2

LEMMA CountsNext ==
  ASSUME Shape, CountsTyped, Next
  PROVE  CountsTyped'
  <1>1. TxShape
    BY DEF Shape
  <1>2. ASSUME NEW j \in Jobs, Enqueue(j) PROVE CountsTyped'
    <2>1. job' \in [Jobs -> JobType]
      BY <1>2 DEF Enqueue, CountsTyped, JobType
    <2> QED  BY <1>2, <2>1 DEF Enqueue, CountsTyped, LocksHeld, eventVars
  <1>3. ASSUME NEW v \in Votes, VotesChange(v) PROVE CountsTyped'
    BY <1>3, ConsensusBounds DEF VotesChange, CountsTyped, LocksHeld, eventVars
  <1>4. ASSUME NEW c \in Conns,
               \/ \E j \in Jobs : TakeJob(c, j) \/ SkipJob(c, j)
               \/ \E v \in Values : ResolveBegins(c, v)
               \/ \E l \in Asked : SetLevelBegins(c, l)
               \/ TxStep(c) \/ StatementFails(c) \/ ComputeThrows(c) \/ ConnDies(c)
        PROVE  CountsTyped'
    BY <1>1, <1>4, CountsStay, CountsMove DEF TxStep
  <1>5. CASE EventsNext /\ UNCHANGED <<votes, snaps, level, advisory, job, tx, edits>>
    <2>1. UNCHANGED troubles \/ \E kind : Trouble(kind)
      BY <1>5 DEF EventsNext, HookStep, HookUnknown, HookSkipped, HookSends, HookAccepted, HookMarks,
                  HookRefused, HookUnheard, HookDies, HookPruned, SweepReads, SweepFails, SweepEnqueues,
                  SweepOrphan, RetryResets, ConfigPut, RetryEnqueues
    <2> QED  BY <1>5, <2>1, TroubleTyped DEF CountsTyped, LocksHeld
  <1> QED  BY <1>2, <1>3, <1>4, <1>5 DEF Next

LEMMA QuietEvents ==
  ASSUME EventsInv, EventsQuiet
  PROVE  EventsInv'
  <1>1. EventsTyped'
    BY DEF EventsInv, EventsQuiet, EventsTyped
  <1>2. ASSUME NEW e \in Events PROVE (Backed(e) /\ Paid(e))'
    BY DEF EventsInv, EventsQuiet, Backed, Visible, Paid, Owed, FirstOwed, Pending
  <1> QED  BY <1>1, <1>2 DEF EventsInv

LEMMA DeliveryNext ==
  ASSUME Base, Shape', Next
  PROVE  EventsInv' /\ LevelInv'
  <1>1. Shape /\ TxShape /\ SnapsTyped /\ EventsInv /\ EventsTyped /\ LevelInv
    BY DEF Base, Shape, EventsInv
  <1>2. ASSUME Quiet PROVE EventsInv' /\ LevelInv'
    BY <1>1, <1>2, QuietEvents, QuietLevel DEF Quiet
  <1>3. ASSUME NEW j \in Jobs, Enqueue(j) PROVE Quiet
    BY <1>3 DEF Enqueue, Quiet, EventsQuiet, Carries, eventVars
  <1>4. ASSUME NEW v \in Votes, VotesChange(v) PROVE Quiet
    BY <1>4 DEF VotesChange, Quiet, EventsQuiet, Carries, eventVars
  <1>5. ASSUME NEW c \in Conns, NEW j \in Jobs, SkipJob(c, j) PROVE Quiet
    BY <1>5 DEF SkipJob, Quiet, EventsQuiet, Carries, eventVars
  <1>6. ASSUME NEW c \in Conns, ChangeLevel(c) \/ SetLevel(c) PROVE EventsInv' /\ LevelInv'
    <2>1. tx[c].event = 0 /\ (tx[c].master \/ MasterFree(c)) /\ \E e, from, to : Draws(c, e, from, to)
      BY <1>1, <1>6, DrawSteps
    <2>2. PICK e, from, to : Draws(c, e, from, to)
      BY <2>1
    <2>3. EventsInv'
      BY <1>1, <2>2, DraftKeeps DEF Draws
    <2>4. LevelInv'
      BY <1>1, <2>1, <2>2, DrawLevel
    <2> QED  BY <2>3, <2>4
  <1>7. ASSUME NEW c \in Conns, NEW state \in {"unsent", "undone"}, Ends(c, state) PROVE EventsInv'
    <2>1. CASE tx[c].event = 0
      BY <1>1, <1>7, <2>1, QuietEvents DEF Ends, EventsQuiet
    <2>2. CASE tx[c].event # 0
      <3>1. tx[c].event \in Events /\ event[tx[c].event].state = "draft"
        BY <1>1, <2>2, EventBounds DEF TxShape, TxType, Events, LevelInv, HeldDrafts
      <3>2. PICK e \in Events : e = tx[c].event
        BY <3>1
      <3>3. Settles(e, state)
        BY <1>7, <2>2, <3>1, <3>2 DEF Settles, Ends
      <3> QED  BY <1>1, <3>3, SettleKeeps
    <2> QED  BY <2>1, <2>2
  <1>8. ASSUME NEW c \in Conns, Commit(c) PROVE EventsInv' /\ LevelInv'
    <2>1. Ends(c, "unsent") /\ tx[c].pc = "commit"
          /\ level' = (IF tx[c].level = "none" THEN level ELSE tx[c].level)
      BY <1>8, EndSteps DEF Commit
    <2> QED  BY <1>1, <1>7, <2>1, EndLevel
  <1>9. ASSUME NEW c \in Conns, Rollback(c) \/ ConnDies(c) PROVE EventsInv' /\ LevelInv'
    <2>1. Ends(c, "undone") /\ level' = level
      BY <1>9, EndSteps
    <2> QED  BY <1>1, <1>7, <2>1, EndLevel
  <1>10. CASE EventsNext /\ UNCHANGED <<votes, snaps, level, advisory, job, tx, edits>>
    <2>1. EventsInv'
      <3>1. ASSUME NEW h \in HookIds,
                   \/ HookStep(h) \/ HookRefused(h) \/ HookUnheard(h) \/ HookDies(h)
                   \/ HookPruned(h)
            PROVE  EventsInv'
        <4>1. PICK e \in Events : \E tag \in Tags : h = <<e, tag>>
          BY DEF HookIds
        <4>2. PICK tag \in Tags : h = <<e, tag>>
          BY <4>1
        <4> QED  BY <1>1, <3>1, <4>2, WorkerKeeps
      <3> QED  BY <1>1, <1>10, <3>1, RoutesKeep DEF EventsNext
    <2>2. LevelInv'
      BY <1>1, <1>10, DeliveryLevel
    <2> QED  BY <2>1, <2>2
  <1>11. ASSUME NEW c \in Conns,
               \/ \E j \in Jobs : TakeJob(c, j)
               \/ \E v \in Values : ResolveBegins(c, v)
               \/ \E l \in Asked : SetLevelBegins(c, l)
               \/ Compute(c) \/ Merge(c) \/ UpdateMaster(c) \/ ReadCurrent(c) \/ WriteSnapshot(c)
               \/ KeepLevel(c) \/ Unlock(c) \/ StatementFails(c) \/ ComputeThrows(c)
         PROVE  Quiet
    BY <1>1, <1>11, QuietSteps
  <1> QED  BY <1>2, <1>3, <1>4, <1>5, <1>6, <1>8, <1>9, <1>10, <1>11 DEF Next, TxStep

LEMMA BaseNext == Base /\ [Next]_vars => Base'
  <1>1. ASSUME Base, Next PROVE Base'
    <2>1. Shape'
      BY <1>1, NextMoves DEF Base
    <2>2. SnapsTyped' /\ CountsTyped'
      BY <1>1, TypesNext, CountsNext DEF Base
    <2>3. EventsInv' /\ LevelInv'
      BY <1>1, <2>1, DeliveryNext
    <2> QED  BY <2>1, <2>2, <2>3 DEF Base
  <1>2. ASSUME Base, UNCHANGED vars PROVE Base'
    <2>1. Shape'
      BY <1>2, MovesShape DEF Base, Shape, vars
    <2>2. SnapsTyped' /\ CountsTyped'
      BY <1>2 DEF Base, SnapsTyped, CountsTyped, LocksHeld, vars, eventVars
    <2>3. EventsQuiet /\ Quiet
      BY <1>2 DEF EventsQuiet, Quiet, Carries, vars, eventVars
    <2>4. EventsInv' /\ LevelInv'
      BY <1>2, <2>3, QuietEvents, QuietLevel DEF Base
    <2> QED  BY <2>1, <2>2, <2>4 DEF Base
  <1> QED  BY <1>1, <1>2

LEMMA BaseInvariant == Spec => []Base
  BY BaseInit, BaseNext, PTL DEF Spec

(* Every variable keeps its type; in particular no session gives the          *)
(* product's lock back more often than it took it.                            *)
THEOREM TypesHold == Spec => []TypeOK
  <1>1. Base => TypeOK
    BY DEF Base, Shape, TxShape, SnapsTyped, CountsTyped, EventsInv, EventsTyped, TypeOK,
           SnapType, JobType, HookType, VoteType
  <1> QED  BY BaseInvariant, <1>1, PTL

(* An event marked as sent was accepted by the endpoint, or there was nobody  *)
(* to send it to, whatever died, was refused, pruned or retried.              *)
THEOREM SentMeansAccepted == Spec => []SentWasAccepted
  <1>1. Base => SentWasAccepted
    BY DEF Base, EventsInv, Backed, SentWasAccepted
  <1> QED  BY BaseInvariant, <1>1, PTL

(* The endpoint accepts an event once, but for unheard of workers and retries  *)
(* by users: every acceptance still to come has been paid for.                *)
THEOREM EventsAcceptedOnce == Spec => []AcceptedOnce
  <1>1. ASSUME Base, NEW e \in Events
        PROVE  received[e] <= 1 + 2 * event[e].resets + event[e].unheard
    <2>1. received[e] \in Nat /\ Owed(e) \in Nat /\ Paid(e)
      BY <1>1 DEF Base, EventsInv, EventsTyped, Owed
    <2>2. event[e].resets \in Nat /\ event[e].unheard \in Nat
      BY <1>1 DEF Base, EventsInv, EventsTyped, EventType
    <2> QED  BY <2>1, <2>2 DEF Paid
  <1>2. Base => AcceptedOnce
    BY <1>1 DEF AcceptedOnce
  <1> QED  BY BaseInvariant, <1>2, PTL

(* The level of the product is the one the last visible event announced:      *)
(* whoever has written an event holds the row of the product to its commit.   *)
THEOREM LevelAnnounced == Spec => []LevelIsLastEvent
  <1>1. ASSUME Base PROVE LevelIsLastEvent
    <2> DEFINE seen == {e \in Events : Visible(e)}
               last == CHOOSE e \in seen : \A f \in seen : f <= e
    <2>1. CASE level = "bronze" /\ \A e \in Events : ~Visible(e)
      BY <2>1 DEF LevelIsLastEvent
    <2>2. ASSUME NEW e \in Events, LastShown(e), level = event[e].to PROVE LevelIsLastEvent
      <3>1. e \in seen /\ \A f \in seen : f <= e
        BY <2>2 DEF LastShown
      <3>2. last \in seen /\ \A f \in seen : f <= last
        BY <3>1
      <3>3. e \in Int /\ last \in Int
        BY <3>2 DEF Events
      <3>4. last = e
        BY <3>1, <3>2, <3>3
      <3>5. seen # {} /\ level = event[last].to
        BY <2>2, <3>1, <3>4
      <3> QED  BY <3>5 DEF LevelIsLastEvent
    <2> QED  BY <1>1, <2>1, <2>2 DEF Base, LevelInv, LevelShown
  <1> QED  BY BaseInvariant, <1>1, PTL

(* The event of a consensus job starts from the level its commit replaces.    *)
THEOREM EventsChain == Spec => EventFromLevel
  <1>1. Base /\ [Next]_vars =>
          [\A c \in Conns :
             At(c, "consensus", "commit") /\ tx[c].event # 0 /\ tx'[c].pc = "idle"
               => event[tx[c].event].from = level]_vars
    BY DEF Base, LevelInv, HeldDrafts, At
  <1> QED  BY BaseInvariant, <1>1, PTL DEF Spec, EventFromLevel

-----------------------------------------------------------------------------
(* The snapshots, when a resolve does not overlap another writer.             *)

LEMMA SnapNext ==
  ASSUME "overlap" \notin Hazards, Base, SnapInv, Next
  PROVE  SnapInv'
  <1>1. Shape /\ TxShape /\ SnapsTyped
    BY DEF Base, Shape
  <1>2. ASSUME UNCHANGED snaps, \A c \in Conns : Holds(c) PROVE SnapInv'
    <2>1. \A c \in Conns : (Knows(c) /\ Kept(c))'
      BY <1>2, HoldsKeeps
    <2>2. (OneCurrent /\ (CurrentRows = {} => snaps = << >>))'
      BY <1>2 DEF SnapInv, OneCurrent, CurrentRows
    <2> QED  BY <2>1, <2>2 DEF SnapInv
  <1>3. ASSUME UNCHANGED <<snaps, tx>> PROVE SnapInv'
    BY <1>2, <1>3 DEF Holds
  <1>4. ASSUME NEW c \in Conns,
               \/ \E j \in Jobs : TakeJob(c, j)
               \/ \E v \in Values : ResolveBegins(c, v)
               \/ \E l \in Asked : SetLevelBegins(c, l)
               \/ Compute(c) \/ UpdateMaster(c) \/ WriteSnapshot(c)
               \/ KeepLevel(c) \/ ChangeLevel(c) \/ Unlock(c) \/ SetLevel(c)
               \/ StatementFails(c) \/ ComputeThrows(c) \/ Rollback(c) \/ ConnDies(c)
        PROVE  SnapInv'
    <2>1. \A d \in Conns : Holds(d)
      BY <1>1, <1>4, SnapHolds
    <2>2. UNCHANGED snaps
      BY <1>4 DEF TakeJob, ResolveBegins, SetLevelBegins, Compute, UpdateMaster, WriteSnapshot,
                  KeepLevel, ChangeLevel, Unlock, SetLevel, StatementFails, ComputeThrows, Rollback,
                  ConnDies
    <2> QED  BY <1>2, <2>1, <2>2
  <1>5. ASSUME NEW c \in Conns, ReadCurrent(c) \/ Merge(c) \/ Commit(c) PROVE SnapInv'
    BY <1>1, <1>5, ReadSnap, CommitSnap
  <1>6. ASSUME \/ \E j \in Jobs : Enqueue(j)
               \/ \E v \in Votes : VotesChange(v)
               \/ \E c \in Conns, j \in Jobs : SkipJob(c, j)
        PROVE  UNCHANGED <<snaps, tx>>
    BY <1>6 DEF Enqueue, VotesChange, SkipJob
  <1> QED  BY <1>3, <1>4, <1>5, <1>6 DEF Next, TxStep

LEMMA SnapInvariant == "overlap" \notin Hazards /\ Spec => []SnapInv
  <1> SUFFICES ASSUME "overlap" \notin Hazards PROVE Spec => []SnapInv
    OBVIOUS
  <1>1. Init => SnapInv
    <2> SUFFICES ASSUME Init PROVE SnapInv
      OBVIOUS
    <2>1. CurrentRows = {} /\ \A c \in Conns : tx[c] = Idle
      BY DEF Init, CurrentRows
    <2> QED  BY <2>1 DEF Init, SnapInv, OneCurrent, Knows, Kept, HasRead, HasMerged, Idle
  <1>2. Base /\ SnapInv /\ [Next]_vars => SnapInv'
    <2>1. ASSUME SnapInv, UNCHANGED vars PROVE SnapInv'
      BY <2>1 DEF SnapInv, OneCurrent, CurrentRows, SomeCurrent, Knows, Kept, HasRead, HasMerged,
                  VersionOf, vars
    <2> QED  BY <2>1, SnapNext
  <1> QED  BY BaseInvariant, <1>1, <1>2, PTL DEF Spec

(* Without an overlapping resolve, a product has at most one current snapshot *)
(* and it has the highest version: the row lock of prod_master serialises the *)
(* jobs that the advisory lock, given back before the commit, does not.       *)
THEOREM SnapshotsSerialised == "overlap" \notin Hazards /\ Spec => []OneCurrent
  <1>1. SnapInv => OneCurrent
    BY DEF SnapInv
  <1> QED  BY SnapInvariant, <1>1, PTL

(* Without an overlapping resolve, the snapshot a job writes over a manual    *)
(* correction has the corrected value.                                        *)
THEOREM CorrectionSurvives == "overlap" \notin Hazards /\ Spec => ManualSurvivesMerge
  <1> DEFINE Survives ==
        \A i \in CurrentRows :
          snaps[i].manual /\ Len(snaps') > Len(snaps) /\ ~snaps'[Len(snaps')].manual
            => snaps'[Len(snaps')].value = snaps[i].value
  <1>1. ASSUME Base, SnapInv, Next PROVE Survives
    <2>1. CASE UNCHANGED snaps
      <3>1. Len(snaps) \in Nat
        BY <1>1 DEF Base, SnapsTyped
      <3> QED  BY <2>1, <3>1
    <2>2. ASSUME NEW c \in Conns, Commit(c), ~UNCHANGED snaps PROVE Survives
      <3>1. tx[c] \in TxType /\ Fits(tx[c]) /\ Kept(c) /\ snaps' = SnapsAfter(c) /\ tx[c].row
        BY <1>1, <2>2 DEF Base, Shape, TxShape, SnapInv, Commit, SnapsAfter
      <3>2. tx[c].ver # 0 /\ tx[c].kind \in Writers
        BY <3>1 DEF Fits
      <3>3. /\ Len(snaps') = Len(snaps) + 1
            /\ snaps'[Len(snaps) + 1] = [version |-> tx[c].ver, value |-> tx[c].value,
                                         manual |-> tx[c].manual, current |-> TRUE]
        BY <1>1, <3>1, <3>2, RowsAfter DEF Base
      <3>4. ~tx[c].manual => HasMerged(tx[c])
        BY <3>1, <3>2 DEF Fits, HasMerged, Writers
      <3> QED  BY <3>1, <3>3, <3>4 DEF Kept
    <2> QED  BY <1>1, <2>1, <2>2, SnapsStay DEF Base
  <1>2. Base /\ SnapInv /\ [Next]_vars => [Survives]_vars
    BY <1>1
  <1> QED  BY BaseInvariant, SnapInvariant, <1>2, PTL DEF Spec, ManualSurvivesMerge

=============================================================================
