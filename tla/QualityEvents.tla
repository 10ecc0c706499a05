--------------------------- MODULE QualityEvents ------------------------------
(* Delivery of the quality events of a product to the webhook of its shop:    *)
(* the rows of prod_quality_events, the dispatch jobs, the sweep that adds    *)
(* jobs for unsent events, the settings and the retry route.  Events are      *)
(* created by the transactions of module Consensus: one exists as a draft     *)
(* until its transaction commits, and its job may run before that.            *)
EXTENDS Integers, FiniteSets

CONSTANTS
    MaxEvents,      \* bound on the events that are created
    HookAttempts,   \* attempts of a dispatch job (3)
    Hazards,        \* what the environment does, beyond the straight path
    MaxHazards      \* bound on those steps

Events == 1 .. MaxEvents

\* Ids of dispatch jobs: qw:<event>, and a fresh one for a retry by the user.
Tags == {"first", "again"}
HookIds == Events \X Tags

ASSUME EventBounds ==
    /\ MaxEvents \in Nat /\ MaxHazards \in Nat
    /\ HookAttempts \in Nat \ {0}

VARIABLES
    event,      \* event[e]: the row of prod_quality_events
    hook,       \* hook[h]: the dispatch job under id h
    config,     \* is the shop's webhook enabled, with a URL and subscribed?
    sweep,      \* events the running sweep has read and not dealt with
    retrying,   \* event the retry route has reset and not enqueued, or 0
    received,   \* received[e]: how often the endpoint accepted e
    troubles    \* hazards so far

eventVars == <<event, hook, config, sweep, retrying, received, troubles>>

EventsInit ==
    /\ event = [e \in Events |-> [state |-> "none", from |-> "none", to |-> "none",
                                  mute |-> FALSE, resets |-> 0, unheard |-> 0]]
    /\ hook = [h \in HookIds |-> [state |-> "none", tries |-> 0]]
    /\ config = TRUE
    /\ sweep = {}
    /\ retrying = 0
    /\ received = [e \in Events |-> 0]
    /\ troubles = 0

Trouble(kind) ==
    /\ kind \in Hazards
    /\ troubles < MaxHazards
    /\ troubles' = troubles + 1

\* A committed row, as every other transaction sees it.
Visible(e) == event[e].state \in {"unsent", "sent"}

\* (Faulty variant, for mutation: finished jobs do not keep their ids.)
HookAddedAgain(h) ==
    IF hook[h].state \in {"none", "done"}
    THEN [hook EXCEPT ![h] = [state |-> "waiting", tries |-> 0]]
    ELSE hook

\* enqueueQualityWebhookJob, enqueueQualityWebhookRetryJob: an id that BullMQ
\* still keeps is not added again, and every retry has an id of its own.
HookAdded(h) ==
    IF hook[h].state = "none" \/ (h[2] = "again" /\ hook[h].state = "done")
    THEN [hook EXCEPT ![h] = [state |-> "waiting", tries |-> 0]]
    ELSE hook

HookDone(h) == hook' = [hook EXCEPT ![h].state = "done"]

HookFailed(h) ==
    hook' = [hook EXCEPT ![h] =
        IF hook[h].tries + 1 < HookAttempts
        THEN [state |-> "waiting", tries |-> hook[h].tries + 1]
        ELSE [state |-> "done", tries |-> hook[h].tries]]

-----------------------------------------------------------------------------
(* The dispatch worker: one transaction per attempt.                          *)

\* The event is not committed (or rolled back): the job completes.
HookUnknown(h) ==
    /\ hook[h].state = "waiting"
    /\ ~Visible(h[1])
    /\ HookDone(h)
    /\ UNCHANGED <<event, config, sweep, retrying, received, troubles>>

\* Nobody is to be told: the event is marked sent.
HookSkipped(h) ==
    /\ hook[h].state = "waiting"
    /\ Visible(h[1])
    /\ ~config
    /\ event' = [event EXCEPT ![h[1]] = [@ EXCEPT !.state = "sent", !.mute = TRUE]]
    /\ HookDone(h)
    /\ UNCHANGED <<config, sweep, retrying, received, troubles>>

\* The event and the settings are read, the request goes out.
HookSends(h) ==
    /\ hook[h].state = "waiting"
    /\ Visible(h[1])
    /\ config
    /\ hook' = [hook EXCEPT ![h].state = "sending"]
    /\ UNCHANGED <<event, config, sweep, retrying, received, troubles>>

\* The endpoint accepts; the delivery is logged in the same transaction.
HookAccepted(h) ==
    /\ hook[h].state = "sending"
    /\ received' = [received EXCEPT ![h[1]] = @ + 1]
    /\ hook' = [hook EXCEPT ![h].state = "accepted"]
    /\ UNCHANGED <<event, config, sweep, retrying, troubles>>

\* (Faulty variant, for mutation: a refused event is marked sent as well.)
HookRefusedMarks(h) ==
    /\ hook[h].state = "sending"
    /\ Trouble("refuse")
    /\ HookFailed(h)
    /\ event' = [event EXCEPT ![h[1]].state = "sent"]
    /\ UNCHANGED <<config, sweep, retrying, received>>

\* The endpoint does not accept, or cannot be reached: the throw rolls the delivery
\* log back with the transaction.
HookRefused(h) ==
    /\ hook[h].state = "sending"
    /\ Trouble("refuse")
    /\ HookFailed(h)
    /\ UNCHANGED <<event, config, sweep, retrying, received>>

\* It accepted, but the answer timed out or the connection broke: to the worker
\* that is a failure like any other.
HookUnheard(h) ==
    /\ hook[h].state = "sending"
    /\ Trouble("unheard")
    /\ received' = [received EXCEPT ![h[1]] = @ + 1]
    /\ HookFailed(h)
    /\ event' = [event EXCEPT ![h[1]].unheard = @ + 1]
    /\ UNCHANGED <<config, sweep, retrying>>

\* markEventWebhookSent and the commit.
HookMarks(h) ==
    /\ hook[h].state = "accepted"
    /\ event' = [event EXCEPT ![h[1]].state = "sent"]
    /\ HookDone(h)
    /\ UNCHANGED <<config, sweep, retrying, received, troubles>>

\* The worker dies, or its transaction fails, with the request under way.
HookDies(h) ==
    /\ hook[h].state \in {"sending", "accepted"}
    /\ Trouble("hookdies")
    /\ HookFailed(h)
    /\ event' = [event EXCEPT ![h[1]].unheard = @ + 1]
    /\ UNCHANGED <<config, sweep, retrying, received>>

\* BullMQ drops a finished job once enough newer ones have finished; a sweep of
\* at most 100 events is over long before that.
HookPruned(h) ==
    /\ hook[h].state = "done"
    /\ sweep = {}
    /\ Trouble("prune")
    /\ hook' = [hook EXCEPT ![h] = [state |-> "none", tries |-> 0]]
    /\ UNCHANGED <<event, config, sweep, retrying, received>>

-----------------------------------------------------------------------------
(* The sweep and the routes.                                                  *)

\* getPendingWebhookEvents.
SweepReads ==
    /\ sweep = {}
    /\ sweep' = {e \in Events : event[e].state = "unsent"}
    /\ sweep' # {}
    /\ UNCHANGED <<event, hook, config, retrying, received, troubles>>

SweepEnqueues(e) ==
    /\ e \in sweep
    /\ sweep' = sweep \ {e}
    /\ hook' = HookAdded(<<e, "first">>)
    /\ UNCHANGED <<event, config, retrying, received, troubles>>

\* The queue refuses an event, and the sweep throws: the next one reads again.
SweepFails ==
    /\ sweep # {}
    /\ Trouble("refuse")
    /\ sweep' = {}
    /\ UNCHANGED <<event, hook, config, retrying, received>>

\* The product has no shop any more: its event is marked sent.
SweepOrphan(e) ==
    /\ e \in sweep
    /\ Trouble("orphan")
    /\ sweep' = sweep \ {e}
    /\ event' = [event EXCEPT ![e] = [@ EXCEPT !.state = "sent", !.mute = TRUE]]
    /\ UNCHANGED <<hook, config, retrying, received>>

\* PUT /pim/webhooks/config.
ConfigPut ==
    /\ Trouble("config")
    /\ config' = ~config
    /\ UNCHANGED <<event, hook, sweep, retrying, received>>

\* POST /pim/webhooks/deliveries/:eventId/retry resets the row, ...
RetryResets(e) ==
    /\ retrying = 0
    /\ Visible(e)
    /\ Trouble("retry")
    /\ retrying' = e
    /\ event' = [event EXCEPT ![e] = [@ EXCEPT !.state = "unsent", !.resets = event[e].resets + 1]]
    /\ UNCHANGED <<hook, config, sweep, received>>

\* ... and enqueues a job of its own; or it dies, or Redis refuses.
RetryEnqueues ==
    /\ retrying # 0
    /\ retrying' = 0
    /\ \/ hook' = HookAdded(<<retrying, "again">>) /\ UNCHANGED troubles
       \/ Trouble("refuse") /\ UNCHANGED hook
    /\ UNCHANGED <<event, config, sweep, received>>

HookStep(h) ==
    \/ HookUnknown(h) \/ HookSkipped(h) \/ HookSends(h)
    \/ HookAccepted(h) \/ HookMarks(h)

EventsNext ==
    \/ \E h \in HookIds : HookStep(h) \/ HookRefused(h) \/ HookUnheard(h) \/ HookDies(h)
                         \/ HookPruned(h)
    \/ SweepReads \/ SweepFails
    \/ \E e \in Events : SweepEnqueues(e) \/ SweepOrphan(e) \/ RetryResets(e)
    \/ ConfigPut
    \/ RetryEnqueues

-----------------------------------------------------------------------------
(* An event marked as sent was accepted by the endpoint, unless there was     *)
(* nobody to send it to.                                                      *)
SentWasAccepted ==
    \A e \in Events :
        event[e].state = "sent" => received[e] > 0 \/ event[e].mute

(* The endpoint accepts an event once, and again only after an attempt that   *)
(* nobody heard the answer of (the worker died, the answer timed out), or     *)
(* after a user asked for it (twice then: the retry's job, and the sweep's    *)
(* once the first job is pruned).  The dispatch job does not look whether the *)
(* event was sent already, and the sweep reads it before the job has marked   *)
(* it: what keeps a second job away is the id of the first.                   *)
AcceptedOnce ==
    \A e \in Events : received[e] <= 1 + 2 * event[e].resets + event[e].unheard
=============================================================================
