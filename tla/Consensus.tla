------------------------------ MODULE Consensus -------------------------------
(* One product and one attribute its sources may disagree on: the consensus   *)
(* jobs that merge the votes of the confirmed matches into a new snapshot and *)
(* set the quality level, and the two routes by which an admin resolves the   *)
(* conflict or sets the level.  Each is one PostgreSQL transaction (READ      *)
(* COMMITTED) on a pooled connection; a step is one of its statements, as the *)
(* others interleave with them, and what it wrote is seen at its commit.      *)
(* Row locks are held to the end of the transaction, the advisory lock by the *)
(* session, whatever becomes of the transaction.                              *)
EXTENDS QualityEvents, Sequences

CONSTANTS
    Conns,          \* connections of the pool
    Jobs,           \* consensus jobs: every trigger enqueues one of its own
    JobAttempts,    \* attempts of a job (3)
    Values,         \* values of the attribute
    Merits,         \* levels that the matches may merit
    Asked,          \* levels that an admin may set
    None,           \* no value, no job
    MaxEdits        \* bound on requests of the routes and changes of the matches

ASSUME ConsensusBounds ==
    /\ JobAttempts \in Nat \ {0} /\ MaxEdits \in Nat
    /\ Merits \subseteq {"bronze", "silver", "golden"}
    /\ Asked \subseteq {"review_needed", "bronze", "silver", "golden"}
    /\ None \notin Values \cup Jobs
    /\ Hazards \subseteq {"refuse", "unheard", "hookdies", "prune", "orphan", "config", "retry",
                          "sqlfails", "throws", "conndies", "overlap"}

VARIABLES
    votes,      \* value the confirmed matches agree on, and the level they merit
    snaps,      \* rows of prod_specs_normalized, in order of insertion
    level,      \* data_quality_level of the product
    advisory,   \* advisory[c]: how often session c holds the product's lock
    job,        \* job[j]: a consensus job
    tx,         \* tx[c]: the transaction on c and its local variables
    edits       \* requests and changes so far

vars == <<votes, snaps, level, advisory, job, tx, edits, eventVars>>

Levels == {"review_needed", "bronze", "silver", "golden"}
Rank == [l \in Levels |-> CASE l = "review_needed" -> 0 [] l = "bronze" -> 1
                            [] l = "silver" -> 2 [] l = "golden" -> 3]
Votes == [value : Values \cup {None, "conflict"}, merit : Merits]

Idle == [pc |-> "idle", kind |-> "none", job |-> None, value |-> None, manual |-> FALSE,
         merit |-> "bronze", level |-> "none", master |-> FALSE, cur |-> 0, ver |-> 0,
         row |-> FALSE, event |-> 0, ok |-> TRUE]

Init ==
    /\ votes = [value |-> "conflict", merit |-> "bronze"]
    /\ snaps = << >>
    /\ level = "bronze"
    /\ advisory = [c \in Conns |-> 0]
    /\ job = [j \in Jobs |-> [state |-> "none", tries |-> 0]]
    /\ tx = [c \in Conns |-> Idle]
    /\ edits = 0
    /\ EventsInit

-----------------------------------------------------------------------------
(* Helpers.                                                                   *)

At(c, kind, pc) == tx[c].kind = kind /\ tx[c].pc = pc
Goto(c, pc) == tx' = [tx EXCEPT ![c].pc = pc]
Open(c) == tx[c].pc # "idle"

CurrentRows == {i \in DOMAIN snaps : snaps[i].current}

\* SELECT ... WHERE is_current = true LIMIT 1: one of the current rows, or none.
SomeCurrent == IF CurrentRows = {} THEN {0} ELSE CurrentRows
ValueOf(i) == IF i = 0 THEN None ELSE snaps[i].value

\* (Faulty variant, for mutation: the mark of a manual correction is not found.)
IsManualNever(i) == FALSE

\* checkManualCorrections.
IsManual(i) == i # 0 /\ snaps[i].manual
VersionOf(i) == IF i = 0 THEN 0 ELSE snaps[i].version

\* An UPDATE of the product's row in prod_master waits for whoever updated it.
MasterFree(c) == \A d \in Conns \ {c} : ~tx[d].master
\* So does the UPDATE that clears is_current of snapshot i.
SnapFree(c, i) == \A d \in Conns \ {c} : ~(tx[d].row /\ tx[d].cur = i)

\* Two writers of snapshots that are not both consensus jobs meet only under
\* the hazard "overlap": see the README.
NoOverlap(kind) ==
    \/ "overlap" \in Hazards
    \/ \A d \in Conns : Open(d) => {tx[d].kind, kind} \notin {{"consensus", "resolve"}, {"resolve"}}

\* The oldest unused event id.
FreshEvents == {e \in Events : event[e].state = "none" /\ \A f \in 1 .. e - 1 : event[f].state # "none"}

\* logQualityEvent within a transaction.
Drafted(e, from, to) ==
    [event EXCEPT ![e] = [@ EXCEPT !.state = "draft", !.from = from, !.to = to]]

JobDone(c) == job' = [job EXCEPT ![tx[c].job].state = "done"]

JobFailed(c) ==
    LET j == tx[c].job IN
    job' = [job EXCEPT ![j] = IF job[j].tries + 1 < JobAttempts
                              THEN [state |-> "waiting", tries |-> job[j].tries + 1]
                              ELSE [state |-> "done", tries |-> job[j].tries]]

\* evaluatePromotion: never out of review_needed.
Promoted(l, merit) == l # "review_needed" /\ Rank[merit] > Rank[l]
\* evaluateDemotion: never from bronze or review_needed.
Demoted(l, merit) == l \in {"silver", "golden"} /\ Rank[merit] < Rank[l]
NextLevel(l, merit) == IF Promoted(l, merit) \/ Demoted(l, merit) THEN merit ELSE l

\* mergeWithExistingSpecs: the agreed value, unless a human edited the current one.
MergedValue(agreed, i) == IF agreed # None /\ ~IsManual(i) THEN agreed ELSE ValueOf(i)

-----------------------------------------------------------------------------
(* The consensus worker.                                                      *)

\* Extractions, reviews, syncs and the consensus routes.
Enqueue(j) ==
    /\ job[j].state = "none"
    /\ job' = [job EXCEPT ![j].state = "waiting"]
    /\ UNCHANGED <<votes, snaps, level, advisory, tx, edits, eventVars>>

\* A match is confirmed, extracted, rejected or deleted.
VotesChange(v) ==
    /\ edits < MaxEdits
    /\ v # votes
    /\ votes' = v
    /\ edits' = edits + 1
    /\ UNCHANGED <<snaps, level, advisory, job, tx, eventVars>>

LockBusy(c) == \E d \in Conns \ {c} : advisory[d] > 0

\* BEGIN and pg_try_advisory_lock; a session that already holds the lock (see
\* StatementFails) gets it once more.
TakeJob(c, j) ==
    /\ tx[c].pc = "idle"
    /\ job[j].state = "waiting"
    /\ ~LockBusy(c)
    /\ NoOverlap("consensus")
    /\ tx' = [tx EXCEPT ![c] = [Idle EXCEPT !.kind = "consensus", !.pc = "compute", !.job = j]]
    /\ job' = [job EXCEPT ![j].state = "active"]
    /\ advisory' = [advisory EXCEPT ![c] = @ + 1]
    /\ UNCHANGED <<votes, snaps, level, edits, eventVars>>

\* The lock is busy: the job completes without doing anything.
SkipJob(c, j) ==
    /\ tx[c].pc = "idle"
    /\ job[j].state = "waiting"
    /\ LockBusy(c)
    /\ job' = [job EXCEPT ![j].state = "done"]
    /\ UNCHANGED <<votes, snaps, level, advisory, tx, edits, eventVars>>

\* computeConsensus: the votes are read on another connection; a value that a
\* human has edited is taken out again.
Compute(c) ==
    /\ At(c, "consensus", "compute")
    /\ \E i \in SomeCurrent :
        tx' = [tx EXCEPT ![c] = [@ EXCEPT
            !.value = IF votes.value \in Values /\ ~IsManual(i) THEN votes.value ELSE None,
            !.merit = votes.merit,
            !.pc = "merge"]]
    /\ UNCHANGED <<votes, snaps, level, advisory, job, edits, eventVars>>

\* mergeWithExistingSpecs.
Merge(c) ==
    /\ At(c, "consensus", "merge")
    /\ \E i \in SomeCurrent :
        tx' = [tx EXCEPT ![c] = [@ EXCEPT !.value = MergedValue(tx[c].value, i), !.pc = "master"]]
    /\ UNCHANGED <<votes, snaps, level, advisory, job, edits, eventVars>>

\* (Faulty variant, for mutation: the snapshot is written first.)
UpdateMasterUnlocked(c) ==
    /\ At(c, "consensus", "master")
    /\ Goto(c, "current")
    /\ UNCHANGED <<votes, snaps, level, advisory, job, edits, eventVars>>

\* UPDATE prod_master: from here on this transaction is alone with the product.
UpdateMaster(c) ==
    /\ At(c, "consensus", "master")
    /\ MasterFree(c)
    /\ tx' = [tx EXCEPT ![c] = [@ EXCEPT !.master = TRUE, !.pc = "current"]]
    /\ UNCHANGED <<votes, snaps, level, advisory, job, edits, eventVars>>

\* upsertProdSpecsSnapshot and resolve: the id and version of the current row, ...
ReadCurrent(c) ==
    /\ tx[c].pc = "current"
    /\ \E i \in SomeCurrent :
        tx' = [tx EXCEPT ![c] = [@ EXCEPT !.cur = i, !.ver = VersionOf(i) + 1, !.pc = "snap"]]
    /\ UNCHANGED <<votes, snaps, level, advisory, job, edits, eventVars>>

\* ... which is cleared and followed by a new row.
WriteSnapshot(c) ==
    /\ tx[c].pc = "snap"
    /\ SnapFree(c, tx[c].cur)
    /\ tx' = [tx EXCEPT ![c] = [@ EXCEPT
                !.row = TRUE, !.pc = IF tx[c].kind = "consensus" THEN "level" ELSE "commit"]]
    /\ UNCHANGED <<votes, snaps, level, advisory, job, edits, eventVars>>

\* applyQualityLevelChange finds nothing to change.
KeepLevel(c) ==
    /\ At(c, "consensus", "level")
    /\ NextLevel(level, tx[c].merit) = level
    /\ Goto(c, "unlock")
    /\ UNCHANGED <<votes, snaps, level, advisory, job, edits, eventVars>>

\* applyQualityLevelChange: level and event, and the dispatch job, added before
\* the commit; if Redis refuses it, the whole transaction is undone.
ChangeLevel(c) ==
    /\ At(c, "consensus", "level")
    /\ NextLevel(level, tx[c].merit) # level
    /\ \E e \in FreshEvents :
        /\ event' = Drafted(e, level, NextLevel(level, tx[c].merit))
        /\ \/ /\ hook' = HookAdded(<<e, "first">>)
              /\ tx' = [tx EXCEPT ![c] = [@ EXCEPT !.level = NextLevel(level, tx[c].merit),
                                                   !.event = e, !.pc = "unlock"]]
              /\ UNCHANGED troubles
           \/ /\ Trouble("refuse")
              /\ tx' = [tx EXCEPT ![c] = [@ EXCEPT !.event = e, !.pc = "unlock", !.ok = FALSE]]
              /\ UNCHANGED hook
    /\ UNCHANGED <<votes, snaps, level, advisory, job, edits, config, sweep, retrying, received>>

\* pg_advisory_unlock in the finally block, before the COMMIT or ROLLBACK.
Unlock(c) ==
    /\ At(c, "consensus", "unlock")
    /\ advisory' = [advisory EXCEPT ![c] = @ - 1]
    /\ Goto(c, IF tx[c].ok THEN "commit" ELSE "rollback")
    /\ UNCHANGED <<votes, snaps, level, job, edits, eventVars>>

-----------------------------------------------------------------------------
(* The routes.                                                                *)

\* POST /products/:id/conflicts/:field/resolve: the field must be in conflict;
\* the edited copy of the current row is prepared here.
ResolveBegins(c, v) ==
    /\ tx[c].pc = "idle"
    /\ edits < MaxEdits
    /\ votes.value = "conflict"
    /\ NoOverlap("resolve")
    /\ tx' = [tx EXCEPT ![c] = [Idle EXCEPT !.kind = "resolve", !.pc = "current",
                                            !.value = v, !.manual = TRUE]]
    /\ edits' = edits + 1
    /\ UNCHANGED <<votes, snaps, level, advisory, job, eventVars>>

\* POST /products/:id/quality-level reads the level, without a lock, ...
SetLevelBegins(c, l) ==
    /\ tx[c].pc = "idle"
    /\ edits < MaxEdits
    /\ l # level
    /\ tx' = [tx EXCEPT ![c] = [Idle EXCEPT !.kind = "setlevel", !.pc = "level",
                                            !.merit = level, !.level = l]]
    /\ edits' = edits + 1
    /\ UNCHANGED <<votes, snaps, level, advisory, job, eventVars>>

\* (Faulty variant, for mutation: the level is written without a row lock.)
SetLevelUnlocked(c) ==
    /\ At(c, "setlevel", "level")
    /\ \E e \in FreshEvents :
        /\ event' = Drafted(e, tx[c].merit, tx[c].level)
        /\ tx' = [tx EXCEPT ![c] = [@ EXCEPT !.event = e, !.pc = "commit"]]
        /\ hook' = HookAdded(<<e, "first">>)
    /\ UNCHANGED <<votes, snaps, level, advisory, job, edits, config, sweep, retrying,
                   received, troubles>>

\* ... and updates it, with an event from the level it read and a dispatch job
\* nobody waits for: if Redis refuses, only the sweep will find the event.
SetLevel(c) ==
    /\ At(c, "setlevel", "level")
    /\ MasterFree(c)
    /\ \E e \in FreshEvents :
        /\ event' = Drafted(e, tx[c].merit, tx[c].level)
        /\ tx' = [tx EXCEPT ![c] = [@ EXCEPT !.master = TRUE, !.event = e, !.pc = "commit"]]
        /\ \/ hook' = HookAdded(<<e, "first">>) /\ UNCHANGED troubles
           \/ Trouble("refuse") /\ UNCHANGED hook
    /\ UNCHANGED <<votes, snaps, level, advisory, job, edits, config, sweep, retrying, received>>

-----------------------------------------------------------------------------
(* The end of a transaction (withTenantContext).                              *)

\* The rows of snaps once c commits: the row it read is cleared, its own added.
SnapsAfter(c) ==
    IF ~tx[c].row THEN snaps
    ELSE Append([i \in DOMAIN snaps |-> [snaps[i] EXCEPT !.current = @ /\ i # tx[c].cur]],
                [version |-> tx[c].ver, value |-> tx[c].value, manual |-> tx[c].manual,
                 current |-> TRUE])

Commit(c) ==
    /\ tx[c].pc = "commit"
    /\ snaps' = SnapsAfter(c)
    /\ level' = IF tx[c].level = "none" THEN level ELSE tx[c].level
    /\ event' = IF tx[c].event = 0 THEN event
                ELSE [event EXCEPT ![tx[c].event].state = "unsent"]
    /\ IF tx[c].kind = "consensus" THEN JobDone(c) ELSE UNCHANGED job
    /\ tx' = [tx EXCEPT ![c] = Idle]
    /\ UNCHANGED <<votes, advisory, edits, hook, config, sweep, retrying, received, troubles>>

\* (Faulty variant, for mutation: the event is logged on another connection.)
UndraftedNever(c) ==
    IF tx[c].event = 0 THEN event ELSE [event EXCEPT ![tx[c].event].state = "unsent"]

\* The draft of c's event is undone.
Undrafted(c) ==
    IF tx[c].event = 0 THEN event ELSE [event EXCEPT ![tx[c].event].state = "undone"]

Rollback(c) ==
    /\ tx[c].pc = "rollback"
    /\ event' = Undrafted(c)
    /\ IF tx[c].kind = "consensus" THEN JobFailed(c) ELSE UNCHANGED job
    /\ tx' = [tx EXCEPT ![c] = Idle]
    /\ UNCHANGED <<votes, snaps, level, advisory, edits, hook, config, sweep, retrying,
                   received, troubles>>

\* A statement fails: PostgreSQL refuses all that follow but the ROLLBACK, the
\* unlock of the finally block too, and the pooled session keeps the lock.
StatementFails(c) ==
    /\ tx[c].pc \in {"compute", "merge", "master", "current", "snap", "level"}
    /\ Trouble("sqlfails")
    /\ Goto(c, "rollback")
    /\ UNCHANGED <<votes, snaps, level, advisory, job, edits, event, hook, config, sweep,
                   retrying, received>>

\* The read of the votes, which is on another connection, fails: the finally
\* block can unlock.
ComputeThrows(c) ==
    /\ At(c, "consensus", "compute")
    /\ Trouble("throws")
    /\ tx' = [tx EXCEPT ![c] = [@ EXCEPT !.pc = "unlock", !.ok = FALSE]]
    /\ UNCHANGED <<votes, snaps, level, advisory, job, edits, event, hook, config, sweep,
                   retrying, received>>

\* The connection, or the process, dies: the session ends with all its locks.
ConnDies(c) ==
    /\ Open(c)
    /\ Trouble("conndies")
    /\ event' = Undrafted(c)
    /\ IF tx[c].kind = "consensus" THEN JobFailed(c) ELSE UNCHANGED job
    /\ tx' = [tx EXCEPT ![c] = Idle]
    /\ advisory' = [advisory EXCEPT ![c] = 0]
    /\ UNCHANGED <<votes, snaps, level, edits, hook, config, sweep, retrying, received>>

-----------------------------------------------------------------------------
TxStep(c) ==
    \/ Compute(c) \/ Merge(c) \/ UpdateMaster(c) \/ ReadCurrent(c) \/ WriteSnapshot(c)
    \/ KeepLevel(c) \/ ChangeLevel(c) \/ Unlock(c) \/ SetLevel(c)
    \/ Commit(c) \/ Rollback(c)

Next ==
    \/ \E j \in Jobs : Enqueue(j)
    \/ \E v \in Votes : VotesChange(v)
    \/ \E c \in Conns :
        \/ \E j \in Jobs : TakeJob(c, j) \/ SkipJob(c, j)
        \/ \E v \in Values : ResolveBegins(c, v)
        \/ \E l \in Asked : SetLevelBegins(c, l)
        \/ TxStep(c) \/ StatementFails(c) \/ ComputeThrows(c) \/ ConnDies(c)
    \/ EventsNext /\ UNCHANGED <<votes, snaps, level, advisory, job, tx, edits>>

Spec == Init /\ [][Next]_vars

-----------------------------------------------------------------------------
\* The type of every variable.
EventType == [state : {"none", "draft", "undone", "unsent", "sent"},
              from : {"none"} \cup Levels, to : {"none"} \cup Levels,
              mute : BOOLEAN, resets : Nat, unheard : Nat]
TxType == [pc : {"idle", "compute", "merge", "master", "current", "snap", "level",
                 "unlock", "commit", "rollback"},
           kind : {"none", "consensus", "resolve", "setlevel"}, job : Jobs \cup {None},
           value : Values \cup {None}, manual : BOOLEAN, merit : Levels,
           level : {"none"} \cup Levels, master : BOOLEAN, cur : Nat, ver : Nat,
           row : BOOLEAN, event : 0 .. MaxEvents, ok : BOOLEAN]
TypeOK ==
    /\ votes \in [value : Values \cup {None, "conflict"}, merit : Levels]
    /\ snaps \in Seq([version : Nat \ {0}, value : Values \cup {None},
                      manual : BOOLEAN, current : BOOLEAN])
    /\ level \in Levels
    /\ advisory \in [Conns -> Nat]
    /\ job \in [Jobs -> [state : {"none", "waiting", "active", "done"},
                         tries : 0 .. JobAttempts - 1]]
    /\ tx \in [Conns -> TxType]
    /\ edits \in 0 .. MaxEdits
    /\ event \in [Events -> EventType]
    /\ hook \in [HookIds -> [state : {"none", "waiting", "sending", "accepted", "done"},
                             tries : 0 .. HookAttempts - 1]]
    /\ config \in BOOLEAN
    /\ sweep \subseteq Events
    /\ retrying \in 0 .. MaxEvents
    /\ received \in [Events -> Nat]
    /\ troubles \in 0 .. MaxHazards

(* A product has at most one current snapshot, and it has the highest         *)
(* version, although no index says so and the advisory lock is given back     *)
(* before the commit: the row lock of prod_master, taken before the current   *)
(* row is read, is what serialises the consensus jobs.                        *)
OneCurrent ==
    \A i \in CurrentRows, k \in DOMAIN snaps :
        k # i => ~snaps[k].current /\ snaps[k].version < snaps[i].version

(* The level of the product is the one its last committed event announced:    *)
(* an event is visible exactly when the change it reports is.                 *)
LevelIsLastEvent ==
    LET seen == {e \in Events : Visible(e)}
        last == CHOOSE e \in seen : \A f \in seen : f <= e
    IN  level = IF seen = {} THEN "bronze" ELSE event[last].to

(* The event of a consensus job starts from the level that its commit         *)
(* replaces: nobody changes the level between the SELECT and the COMMIT.      *)
EventFromLevel ==
    [][\A c \in Conns :
          At(c, "consensus", "commit") /\ tx[c].event # 0 /\ tx'[c].pc = "idle"
            => event[tx[c].event].from = level]_vars

(* A consensus job that follows a manual correction keeps the corrected       *)
(* value, whatever the matches agree on by then.                              *)
ManualSurvivesMerge ==
    [][\A i \in CurrentRows :
          snaps[i].manual /\ Len(snaps') > Len(snaps) /\ ~snaps'[Len(snaps')].manual
            => snaps'[Len(snaps')].value = snaps[i].value]_vars
=============================================================================
