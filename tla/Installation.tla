---------------------------- MODULE Installation ----------------------------
(***************************************************************************)
(* What the application knows of one shop, against what Shopify knows: the *)
(* OAuth callback that stores a token, the app/uninstalled webhook that    *)
(* wipes it (request handler, Redis keys, BullMQ job, handler), and the    *)
(* checks that notice a token that no longer works.                        *)
(*                                                                         *)
(* Installations are numbered; installation n has token n and, if it ends  *)
(* with its webhooks registered, the webhook n. Only the token of the      *)
(* running installation works.                                             *)
(*                                                                         *)
(* Abstracted: HMACs, cookies and queries; encryption; scopes; the rows of *)
(* webhook_events; all other topics, whose handlers only drop caches; the  *)
(* list of subscriptions, of which app/uninstalled is kept. shops and      *)
(* shopify_tokens are written by the same transactions and are one row.    *)
(***************************************************************************)
EXTENDS Naturals, FiniteSets

CONSTANTS
    States,           \* values of oauth_states.state, numbered
    Callbacks,        \* requests to /auth/callback under way at once, numbered
    Requests,         \* requests to /webhooks under way at once, numbered
    Checks,           \* token checks and API calls under way at once
    MaxInstallations, \* bound: installations of the shop
    MaxAttempts,      \* attempts of a webhook job
    None,
    Events,           \* the faults of a run
    MaxEvents         \* bound: faults of a run

ASSUME BoundsAssumption ==
    MaxInstallations \in Nat /\ MaxAttempts \in Nat \ {0} /\ MaxEvents \in Nat

VARIABLES
    shopify,   \* what Shopify knows: running, the last installation, subscribed
    row,       \* the shop's row
    oauth,     \* oauth[s]: the row of oauth_states
    saves,     \* saves[s]: history, tokens stored under s
    callback,  \* callback[c]
    hook,      \* hook[n]: the webhook of installation n at Shopify
    request,   \* request[h]: a delivery
    payload,   \* payload[n]: the key webhook:payload:...
    marked,    \* marked[n]: the key webhook:processed:...
    job,       \* job[n]: the job whose id is the webhook's
    wipes,     \* wipes[n]: history, how often n was handled
    check,     \* check[k]: a call with the shop's token
    events     \* number of faults so far

oauthVars == <<oauth, saves, callback>>
hookVars == <<hook, request, payload, marked, job, wipes>>
vars == <<shopify, row, oauthVars, hookVars, check, events>>

Installations == 1 .. MaxInstallations
NoToken == 0

Event(kind) ==
    /\ kind \in Events
    /\ events < MaxEvents
    /\ events' = events + 1

Works(token) == shopify.running /\ token = shopify.last

----------------------------------------------------------------------------
(* OAuth (auth.start.ts, auth.callback.ts, shopify-oauth.ts).              *)

Quiet == [pc |-> "idle", state |-> None, token |-> NoToken]

AuthStart(s) ==
    /\ oauth[s] = "none"
    /\ \A r \in States : oauth[r] = "none" => s <= r
    /\ oauth' = [oauth EXCEPT ![s] = "open"]
    /\ UNCHANGED <<shopify, row, saves, callback, hookVars, check, events>>

StateExpires(s) ==
    /\ oauth[s] = "open"
    /\ Event("stateexpires")
    /\ oauth' = [oauth EXCEPT ![s] = "expired"]
    /\ UNCHANGED <<shopify, row, saves, callback, hookVars, check>>

(* The browser calls back, perhaps twice; the state is open when it is     *)
(* looked up, and Shopify grants the installation, with a token of its own *)
(* unless the app is installed already. A callback that Shopify refuses,   *)
(* or whose process dies, stops where it is: nothing makes one go on.      *)
Granted == IF shopify.running THEN shopify.last ELSE shopify.last + 1

Exchange(c, s) ==
    /\ callback[c].pc = "idle"
    /\ \A d \in Callbacks : callback[d].pc = "idle" => c <= d
    /\ oauth[s] = "open"
    /\ Granted <= MaxInstallations
    /\ shopify' = [shopify EXCEPT !.running = TRUE, !.last = Granted]
    /\ callback' = [callback EXCEPT ![c] = [pc |-> "save", state |-> s, token |-> Granted]]
    /\ UNCHANGED <<row, oauth, saves, hookVars, check, events>>

(* In one transaction the state is marked used, if it is still open, and   *)
(* the credentials are stored. Nothing touches the flag needs_reauth.      *)
(* Faulty variant: a state may be used again until it expires.             *)
MayUseAgain(s) == oauth[s] # "expired"

MayUse(s) == oauth[s] = "open"

(* Faulty variant: a reinstall leaves uninstalled_at as it is.             *)
StoredUninstalled(token) == [row EXCEPT !.known = TRUE, !.token = token]

Stored(token) == [row EXCEPT !.known = TRUE, !.token = token, !.uninstalled = FALSE]

(* Then, best effort, reconcileWebhooks: with a token that works, Shopify  *)
(* knows where to post. An uninstall before it is one more way to fail.    *)
Registered(token) ==
    {[shopify EXCEPT !.subscribed = @ \/ (done /\ Works(token))] : done \in BOOLEAN}

Save(c) ==
    LET s == callback[c].state IN
    /\ callback[c].pc = "save"
    /\ callback' = [callback EXCEPT ![c] = Quiet]
    /\ \/ /\ MayUse(s)
          /\ oauth' = [oauth EXCEPT ![s] = "used"]
          /\ saves' = [saves EXCEPT ![s] = @ + 1]
          /\ row' = Stored(callback[c].token)
          /\ shopify' \in Registered(callback[c].token)
       \/ /\ ~MayUse(s)
          /\ UNCHANGED <<shopify, oauth, saves, row>>
    /\ UNCHANGED <<hookVars, check, events>>

----------------------------------------------------------------------------
(* Shopify: the merchant uninstalls; the webhook is posted until it is     *)
(* answered, and now and then once more.                                   *)

Uninstall ==
    /\ shopify.running
    /\ shopify' = [shopify EXCEPT !.running = FALSE, !.subscribed = FALSE]
    /\ hook' = IF shopify.subscribed THEN [hook EXCEPT ![shopify.last] = "sent"] ELSE hook
    /\ UNCHANGED <<row, oauthVars, request, payload, marked, job, wipes, check, events>>

NoDelivery == [pc |-> "idle", hook |-> 0]

Deliver(h, n) ==
    /\ request[h].pc = "idle"
    /\ \A g \in Requests : request[g].pc = "idle" => h <= g
    /\ \/ hook[n] = "sent" /\ UNCHANGED events
       \/ hook[n] \in {"answered", "lost"} /\ Event("twice")
    /\ request' = [request EXCEPT ![h] = [pc |-> "dedupe", hook |-> n]]
    /\ UNCHANGED <<shopify, row, oauthVars, hook, payload, marked, job, wipes, check>>

(* Whether Shopify hears 200; a webhook that was lost stays so.            *)
Answered(n) == [hook EXCEPT ![n] = IF @ = "sent" THEN "answered" ELSE @]

Lost(ns) == [n \in Installations |-> IF n \in ns THEN "lost" ELSE hook[n]]

----------------------------------------------------------------------------
(* The request handler (routes/webhooks.ts).                               *)

(* Faulty variant: the check marks the webhook as well.                    *)
DedupeMarks(h) ==
    LET n == request[h].hook IN
    /\ request[h].pc = "dedupe"
    /\ marked' = [marked EXCEPT ![n] = TRUE]
    /\ payload' = [payload EXCEPT ![n] = @ \/ ~marked[n]]
    /\ hook' = IF marked[n] THEN Answered(n) ELSE hook
    /\ request' = [request EXCEPT ![h] =
                      IF marked[n] THEN NoDelivery ELSE [@ EXCEPT !.pc = "enqueue"]]
    /\ UNCHANGED <<shopify, row, oauthVars, job, wipes, check, events>>

(* A mark ends it here; else the payload is stored under its own key. A    *)
(* Redis error while a mark is read or set counts as one that has lapsed.  *)
Dedupe(h) ==
    LET n == request[h].hook IN
    /\ request[h].pc = "dedupe"
    /\ IF marked[n]
       THEN /\ hook' = Answered(n)
            /\ request' = [request EXCEPT ![h] = NoDelivery]
            /\ UNCHANGED payload
       ELSE /\ payload' = [payload EXCEPT ![n] = TRUE]
            /\ request' = [request EXCEPT ![h] = [@ EXCEPT !.pc = "enqueue"]]
            /\ UNCHANGED hook
    /\ UNCHANGED <<shopify, row, oauthVars, marked, job, wipes, check, events>>

NoJob == [state |-> "none", attempt |-> 0, excused |-> 0]

(* The job's id is the webhook's: a job that is still there, kept ones     *)
(* included, makes the add do nothing.                                     *)
(* Faulty variant: a kept job gives way to a new one.                      *)
AddedAgain(j) ==
    IF j.state \in {"none", "kept"} THEN [j EXCEPT !.state = "waiting", !.attempt = 1] ELSE j

Added(j) == IF j.state = "none" THEN [j EXCEPT !.state = "waiting", !.attempt = 1] ELSE j

Enqueue(h) ==
    /\ request[h].pc = "enqueue"
    /\ job' = [job EXCEPT ![request[h].hook] = Added(@)]
    /\ request' = [request EXCEPT ![h] = [@ EXCEPT !.pc = "mark"]]
    /\ UNCHANGED <<shopify, row, oauthVars, hook, payload, marked, wipes, check, events>>

Mark(h) ==
    LET n == request[h].hook IN
    /\ request[h].pc = "mark"
    /\ marked' = [marked EXCEPT ![n] = TRUE]
    /\ hook' = Answered(n)
    /\ request' = [request EXCEPT ![h] = NoDelivery]
    /\ UNCHANGED <<shopify, row, oauthVars, payload, job, wipes, check, events>>

(* The process dies, Redis fails, or Shopify has stopped waiting.          *)
RequestFails(h) ==
    /\ request[h].pc # "idle"
    /\ Event("crash")
    /\ request' = [request EXCEPT ![h] = NoDelivery]
    /\ UNCHANGED <<shopify, row, oauthVars, hook, payload, marked, job, wipes, check>>

----------------------------------------------------------------------------
(* The job (processors/webhooks/worker.ts, app-uninstalled.handler.ts).    *)

Kept(j) == [j EXCEPT !.state = "kept", !.attempt = 0]

Failed(j) ==
    IF j.attempt < MaxAttempts THEN [j EXCEPT !.state = "waiting", !.attempt = @ + 1] ELSE Kept(j)

(* A job without its payload throws, to its last attempt.                  *)
Load(n) ==
    /\ job[n].state = "waiting"
    /\ IF payload[n]
       THEN /\ job' = [job EXCEPT ![n] = [@ EXCEPT !.state = "handle"]]
            /\ UNCHANGED hook
       ELSE /\ job' = [job EXCEPT ![n] = Failed(@)]
            /\ hook' = IF job[n].attempt < MaxAttempts THEN hook ELSE Lost({n})
    /\ UNCHANGED <<shopify, row, oauthVars, request, payload, marked, wipes, check, events>>

(* handleAppUninstalled: whatever installation the row is of.              *)
Wipe(n) ==
    /\ job[n].state = "handle"
    /\ row' = [row EXCEPT !.token = NoToken, !.uninstalled = TRUE]
    /\ wipes' = [wipes EXCEPT ![n] = @ + 1]
    /\ job' = [job EXCEPT ![n] = [@ EXCEPT !.state = "clean"]]
    /\ UNCHANGED <<shopify, oauthVars, hook, request, payload, marked, check, events>>

(* cleanupWebhookJobsForShopDomain removes whatever waits for the shop.    *)
Waiting == {n \in Installations : job[n].state = "waiting"}

Clean(n) ==
    /\ job[n].state = "clean"
    /\ job' = [m \in Installations |->
                  IF m = n THEN Kept(job[m])
                  ELSE IF m \in Waiting THEN [job[m] EXCEPT !.state = "none"]
                  ELSE job[m]]
    /\ hook' = Lost(Waiting)
    /\ UNCHANGED <<shopify, row, oauthVars, request, payload, marked, wipes, check, events>>

(* History: an attempt that dies after its wipe.                           *)
Excused(j) == IF j.state = "clean" THEN [j EXCEPT !.excused = @ + 1] ELSE j

JobFails(n) ==
    /\ job[n].state \in {"handle", "clean"}
    /\ Event("crash")
    /\ job' = [job EXCEPT ![n] = Failed(Excused(@))]
    /\ hook' = IF job[n].attempt < MaxAttempts THEN hook ELSE Lost({n})
    /\ UNCHANGED <<shopify, row, oauthVars, request, payload, marked, wipes, check>>

(* Redis keys that lapse after five minutes, and a kept job that lapses.   *)
Lapses(n) ==
    /\ \/ payload[n] /\ Event("payload")
          /\ payload' = [payload EXCEPT ![n] = FALSE] /\ UNCHANGED <<marked, job>>
       \/ marked[n] /\ Event("mark")
          /\ marked' = [marked EXCEPT ![n] = FALSE] /\ UNCHANGED <<payload, job>>
       \/ job[n].state = "kept" /\ Event("forget")
          /\ job' = [job EXCEPT ![n] = [NoJob EXCEPT !.excused = job[n].excused + 1]]
          /\ UNCHANGED <<payload, marked>>
    /\ UNCHANGED <<shopify, row, oauthVars, hook, request, wipes, check>>

----------------------------------------------------------------------------
(* Calls with the token: API calls (withTokenRetry), at any time, and the  *)
(* periodic check (token-health.worker.ts). All leave a flagged shop alone. *)
(* A check lists the fifty shops that were updated longest ago, and one    *)
(* that is found well keeps its place: whether this shop is ever picked    *)
(* depends on the others, and on the schedule (1000 rounds from each start *)
(* of the worker).                                                         *)

Resting == [pc |-> "idle", token |-> NoToken]

Suspects == row.known /\ ~row.flagged /\ ~row.uninstalled

Pick(k) ==
    /\ check[k].pc = "idle"
    /\ Suspects
    /\ check' = [check EXCEPT ![k] = [pc |-> "ask", token |-> row.token]]
    /\ UNCHANGED <<shopify, row, oauthVars, hookVars, events>>

(* A token that is missing or that Shopify rejects earns the flag: the one *)
(* the row had when the shop was listed, or the one it has by now. A token *)
(* that died stays dead, so the flag may as well come with the answer.     *)
Ask(k) ==
    /\ check[k].pc = "ask"
    /\ \E token \in {check[k].token, row.token} :
        row' = [row EXCEPT !.flagged = @ \/ ~Works(token)]
    /\ check' = [check EXCEPT ![k] = Resting]
    /\ UNCHANGED <<shopify, oauthVars, hookVars, events>>

(* The network, or an answer that says nothing of the token.               *)
AskFails(k) ==
    /\ check[k].pc = "ask"
    /\ check' = [check EXCEPT ![k] = Resting]
    /\ UNCHANGED <<shopify, row, oauthVars, hookVars, events>>

----------------------------------------------------------------------------
Init ==
    /\ shopify = [running |-> FALSE, last |-> 0, subscribed |-> FALSE]
    /\ row = [known |-> FALSE, token |-> NoToken, uninstalled |-> FALSE, flagged |-> FALSE]
    /\ oauth = [s \in States |-> "none"]
    /\ saves = [s \in States |-> 0]
    /\ callback = [c \in Callbacks |-> Quiet]
    /\ hook = [n \in Installations |-> "none"]
    /\ request = [h \in Requests |-> NoDelivery]
    /\ payload = [n \in Installations |-> FALSE]
    /\ marked = [n \in Installations |-> FALSE]
    /\ job = [n \in Installations |-> NoJob]
    /\ wipes = [n \in Installations |-> 0]
    /\ check = [k \in Checks |-> Resting]
    /\ events = 0

Next ==
    \/ \E s \in States : AuthStart(s) \/ StateExpires(s)
    \/ \E c \in Callbacks : Save(c) \/ \E s \in States : Exchange(c, s)
    \/ Uninstall
    \/ \E h \in Requests :
        \/ Dedupe(h) \/ Enqueue(h) \/ Mark(h) \/ RequestFails(h)
        \/ \E n \in Installations : Deliver(h, n)
    \/ \E n \in Installations : Load(n) \/ Wipe(n) \/ Clean(n) \/ JobFails(n) \/ Lapses(n)
    \/ \E k \in Checks : Pick(k) \/ Ask(k) \/ AskFails(k)

Spec == Init /\ [][Next]_vars

(* A check that keeps being made gets Shopify's answer some day. That it is *)
(* made is not assumed here. Nothing is asked of callbacks, webhooks or    *)
(* jobs: whatever becomes of them, the check is enough.                    *)
Fairness == \A k \in Checks : SF_vars(Ask(k))

FairSpec == Spec /\ Fairness

----------------------------------------------------------------------------
(* Properties.                                                             *)

(* Types of the two views, the OAuth states, the deliveries and the jobs.  *)
TypeOK ==
    /\ shopify \in [running : BOOLEAN, last : 0 .. MaxInstallations, subscribed : BOOLEAN]
    /\ row \in [known : BOOLEAN, token : 0 .. MaxInstallations, uninstalled : BOOLEAN,
                flagged : BOOLEAN]
    /\ oauth \in [States -> {"none", "open", "used", "expired"}]
    /\ \A c \in Callbacks :
        callback[c] \in [pc : {"idle", "save"},
                         state : States \union {None}, token : 0 .. MaxInstallations]
    /\ hook \in [Installations -> {"none", "sent", "answered", "lost"}]
    /\ \A h \in Requests :
        request[h] \in [pc : {"idle", "dedupe", "enqueue", "mark"},
                        hook : 0 .. MaxInstallations]
    /\ payload \in [Installations -> BOOLEAN] /\ marked \in [Installations -> BOOLEAN]
    /\ \A n \in Installations :
        job[n] \in [state : {"none", "waiting", "handle", "clean", "kept"},
                    attempt : 0 .. MaxAttempts, excused : 0 .. MaxEvents]
    /\ \A k \in Checks :
        check[k] \in [pc : {"idle", "ask"}, token : 0 .. MaxInstallations]
    /\ events \in 0 .. MaxEvents

(* However often the browser calls back with a state, at most one token is *)
(* stored under it.                                                        *)
StateUsedOnce == \A s \in States : saves[s] <= 1

(* An uninstall wipes the shop once, although two deliveries may both pass *)
(* the duplicate check: except for an attempt that died after its wipe, or *)
(* a delivery that comes after every trace of the first has lapsed.        *)
WipedOnce == \A n \in Installations : wipes[n] <= 1 + job[n].excused

(* The checks go on and come to this shop while it is not flagged. Nothing *)
(* in the code sees to it: behind fifty shops that stay well, or once the  *)
(* schedule is used up, it is never picked, and only API calls are left.   *)
ChecksReachShop == \A k \in Checks : WF_vars(Pick(k))

(* If the checks come to the shop, a stored token that Shopify no longer   *)
(* honours is noticed: the shop is wiped or flagged, whatever became of    *)
(* the webhook, unless the merchant installs again.                        *)
DeadToken == row.token # NoToken /\ ~Works(row.token)

DeadTokenNoticed ==
    ChecksReachShop => (DeadToken ~> (row.token = NoToken \/ row.flagged \/ Works(row.token)))

(* A webhook that Shopify heard 200 for, and will not send again, has been *)
(* handled or has a job that will handle it, unless it was lost to one of  *)
(* three things: its payload lapsed, its attempts ran out, or the handler  *)
(* of another uninstall removed its job.                                   *)
AnswerIsKept ==
    \A n \in Installations :
        hook[n] = "answered" => wipes[n] > 0 \/ job[n].state \in {"waiting", "handle"}
============================================================================
