------------------------------ MODULE Matches ------------------------------
(***************************************************************************)
(* The external matches of one product (table prod_similarity_matches):    *)
(* the search that finds them, their triage by similarity, the audit by a  *)
(* model, the admin's decisions, the extraction of specifications from the *)
(* page, and the trigger of the consensus that counts them.                *)
(*                                                                         *)
(* Three workers and the HTTP routes write the same rows, each in its own  *)
(* transactions, and hand over to one another through BullMQ jobs whose id *)
(* is made from the row: a job that ended is kept (removeOnComplete 500),  *)
(* and adding it again does nothing. Those ids have a colon ("BullMQ       *)
(* validates that custom jobIds cannot contain ':'", queue-manager.ts), so *)
(* an add may as well be refused, and throw.                               *)
(*                                                                         *)
(* Abstracted: the similarity score is its triage band; a search result is *)
(* its url; the LIMIT 50 of the two listings; titles, prices, reasons and  *)
(* dates; the extraction session row. The consensus itself is the module   *)
(* Consensus; here it reads the votes some time after it was triggered.    *)
(***************************************************************************)
EXTENDS ScrapeQueue

CONSTANTS
    Rows,         \* ids of prod_similarity_matches
    Admins,       \* requests that may be under way at once
    MaxSearches,  \* bound: search jobs of the product
    MaxAttempts   \* attempts of a job (three in similarity-queues.ts)

ASSUME JobsAssumption == MaxSearches \in Nat /\ MaxAttempts \in Nat \ {0}

VARIABLES
    rows,         \* rows[r]: a match
    searches,     \* search jobs that wait
    search,       \* the processor of similarity-search
    audit,        \* audit[r]: the job ai-audit:<r>
    extract,      \* extract[r]: the job pim-extract:<r>
    admin,        \* admin[a]: a request
    due,          \* a consensus job of the product waits
    seen,         \* the votes the last consensus counted
    unextracted,  \* history: confirmed rows whose hand-over to extraction was lost
    uncounted,    \* history: votes whose hand-over to consensus was lost
    overlapped    \* history: urls that two were about to insert at once

pipelineVars == <<rows, searches, search, audit, extract, admin, due, seen,
                  unextracted, uncounted, overlapped>>
vars == <<sweepVars, events, pipelineVars>>

----------------------------------------------------------------------------
(* Rows.                                                                   *)

Confidence == {"pending", "confirmed", "rejected", "uncertain"}
Triages == {"auto_approve", "ai_audit", "hitl_required"}

Blank == [url |-> None, conf |-> "none", triage |-> "none", specs |-> FALSE, primary |-> FALSE]

Present(r) == rows[r].conf \in Confidence
Fresh == {r \in Rows : rows[r].conf = "none"}

(* createMatchWithTriage: below the lowest threshold there is no row.      *)
Match(u, triage) ==
    [url |-> u, conf |-> IF triage = "auto_approve" THEN "confirmed" ELSE "pending",
     triage |-> triage, specs |-> FALSE, primary |-> FALSE]

(* validateConfidenceTransition                                            *)
MayBecome(from) ==
    {from} \union
    CASE from = "pending"   -> {"confirmed", "rejected", "uncertain"}
      [] from = "uncertain" -> {"confirmed", "rejected"}
      [] OTHER              -> {}

SetConf(r, c) == rows' = [rows EXCEPT ![r] = [@ EXCEPT !.conf = c]]

(* What the consensus engine counts: getConfirmedMatchesWithSources.       *)
Votes == {r \in Rows : rows[r].conf = "confirmed" /\ rows[r].specs}

(* The rows that the transaction of a primary request has locked.          *)
Unlocked(r) == \A a \in Admins : r \notin admin[a].held

----------------------------------------------------------------------------
(* Jobs. A job that exists, kept ones included, makes an add do nothing.   *)

NoJob == [state |-> "none", attempt |-> 0, verdict |-> "none", owes |-> FALSE, ran |-> FALSE]

Added(job) ==
    IF job.state = "none" THEN [job EXCEPT !.state = "waiting", !.attempt = 1] ELSE job

Goes(job, state) == [job EXCEPT !.state = state]

Ended(job) == [NoJob EXCEPT !.state = "kept", !.ran = TRUE]

Exhausted(job) == job.attempt >= MaxAttempts

Failed(job) ==
    IF Exhausted(job) THEN Ended(job)
    ELSE [job EXCEPT !.state = "waiting", !.attempt = @ + 1, !.verdict = "none"]

AddExtraction(r) == extract' = [extract EXCEPT ![r] = Added(@)]

(* Work ends halfway: its process dies, a statement throws, or the queue   *)
(* refuses the job that it adds.                                           *)
Breaks(adds) == Event("crash") \/ (adds /\ Event("refuse"))

----------------------------------------------------------------------------
(* The search (search-and-match.worker.ts). Its concurrency is one.        *)

NoSearch == [pc |-> "idle", attempt |-> 0, todo |-> <<>>, url |-> None,
             audits |-> FALSE, autos |-> FALSE, list |-> {}]

(* The product, the budget and the search engine; results whose triage is  *)
(* "rejected" are left out. No product, no budget or no result: it ends.   *)
SearchStart ==
    /\ \/ search.pc = "idle" /\ searches > 0 /\ searches' = searches - 1
       \/ search.pc = "retry" /\ UNCHANGED searches
    /\ \E found \in SUBSET Urls : \E triage \in [found -> Triages] :
        /\ Cardinality(found) <= Cardinality(Fresh)
        /\ search' = [NoSearch EXCEPT !.pc = "rows", !.attempt = search.attempt + 1,
                                      !.todo = triage]
    /\ UNCHANGED <<sweepVars, events, rows, audit, extract, admin, due, seen,
                   unextracted, uncounted, overlapped>>

(* createMatch looks the url up, over all products, and inserts in a       *)
(* second statement; a url that has a row counts as a duplicate.           *)
(* Faulty variant: a rejected match does not count.                        *)
KnownUnrejected(u) ==
    \E r \in Rows : Present(r) /\ rows[r].url = u /\ rows[r].conf # "rejected"

KnownUrl(u) == \E r \in Rows : Present(r) /\ rows[r].url = u

(* Who is between its look-up of a url and its insert.                     *)
Inserting(u) ==
    \/ search.pc = "insert" /\ search.url = u
    \/ \E a \in Admins : admin[a].pc = "insert" /\ admin[a].url = u

Meets(u) == IF Inserting(u) THEN overlapped \union {u} ELSE overlapped

Without(todo, u) == [v \in DOMAIN todo \ {u} |-> todo[v]]

LookUp ==
    /\ search.pc = "rows"
    /\ \E u \in DOMAIN search.todo :
        \/ /\ KnownUrl(u)
           /\ search' = [search EXCEPT !.todo = Without(@, u)]
           /\ UNCHANGED overlapped
        \/ /\ ~KnownUrl(u)
           /\ search' = [search EXCEPT !.pc = "insert", !.url = u]
           /\ overlapped' = Meets(u)
    /\ UNCHANGED <<sweepVars, events, rows, searches, audit, extract, admin, due, seen,
                   unextracted, uncounted>>

Insert ==
    /\ search.pc = "insert"
    /\ \E r \in Fresh :
        LET triage == search.todo[search.url] IN
        /\ rows' = [rows EXCEPT ![r] = Match(search.url, triage)]
        /\ search' = [search EXCEPT !.pc = "rows", !.url = None,
                                    !.todo = Without(@, search.url),
                                    !.audits = @ \/ triage = "ai_audit",
                                    !.autos = @ \/ triage = "auto_approve"]
    /\ UNCHANGED <<sweepVars, events, searches, audit, extract, admin, due, seen,
                   unextracted, uncounted, overlapped>>

(* Both listings look at all rows of the product, but only when this       *)
(* attempt created one of their kind.                                      *)
AuditList == {r \in Rows : rows[r].conf = "pending" /\ rows[r].triage = "ai_audit"}
AutoList == {r \in Rows : /\ rows[r].conf = "confirmed"
                          /\ ~rows[r].specs
                          /\ rows[r].triage = "auto_approve"}

ListAudits ==
    /\ search.pc = "rows" /\ DOMAIN search.todo = {}
    /\ search' = [search EXCEPT !.pc = "audits", !.list = IF search.audits THEN AuditList ELSE {}]
    /\ UNCHANGED <<sweepVars, events, rows, searches, audit, extract, admin, due, seen,
                   unextracted, uncounted, overlapped>>

AddAudit ==
    /\ search.pc = "audits"
    /\ \E r \in search.list :
        /\ audit' = [audit EXCEPT ![r] = Added(@)]
        /\ search' = [search EXCEPT !.list = @ \ {r}]
    /\ UNCHANGED <<sweepVars, events, rows, searches, extract, admin, due, seen,
                   unextracted, uncounted, overlapped>>

ListAutos ==
    /\ search.pc = "audits" /\ search.list = {}
    /\ search' = IF search.autos /\ AutoList # {}
                 THEN [search EXCEPT !.pc = "autos", !.list = AutoList]
                 ELSE NoSearch
    /\ UNCHANGED <<sweepVars, events, rows, searches, audit, extract, admin, due, seen,
                   unextracted, uncounted, overlapped>>

AddAuto ==
    /\ search.pc = "autos"
    /\ \E r \in search.list :
        /\ AddExtraction(r)
        /\ search' = IF search.list = {r} THEN NoSearch ELSE [search EXCEPT !.list = @ \ {r}]
    /\ UNCHANGED <<sweepVars, events, rows, searches, audit, admin, due, seen,
                   unextracted, uncounted, overlapped>>

(* The rows that the attempt created stay, and for the next one they are   *)
(* duplicates, which it does not hand over.                                *)
Unqueued == {r \in Rows : /\ rows[r].conf = "confirmed"
                          /\ ~rows[r].specs
                          /\ extract[r].state = "none"}

SearchFails ==
    /\ search.pc \notin {"idle", "retry"}
    /\ Breaks(search.list # {})
    /\ search' = IF search.attempt >= MaxAttempts THEN NoSearch
                 ELSE [NoSearch EXCEPT !.pc = "retry", !.attempt = search.attempt]
    /\ unextracted' = unextracted \union Unqueued
    /\ UNCHANGED <<sweepVars, rows, searches, audit, extract, admin, due, seen, uncounted,
                   overlapped>>

SearchNext ==
    \/ SearchStart \/ LookUp \/ Insert \/ ListAudits \/ AddAudit \/ ListAutos
    \/ AddAuto \/ SearchFails

----------------------------------------------------------------------------
(* The audit by the model (ai-audit.worker.ts).                            *)

Decided == [approve |-> "confirmed", reject |-> "rejected", escalate |-> "pending"]

(* An approved match is queued for extraction before it is confirmed.      *)
AuditAsk(r) ==
    /\ audit[r].state = "waiting"
    /\ Present(r)
    /\ \E v \in DOMAIN Decided :
        /\ audit' = [audit EXCEPT ![r] = [@ EXCEPT !.verdict = v, !.state = "write"]]
        /\ IF v = "approve" THEN AddExtraction(r) ELSE UNCHANGED extract
    /\ UNCHANGED <<sweepVars, events, rows, searches, search, admin, due, seen,
                   unextracted, uncounted, overlapped>>

(* The row is gone, or the shop has no key for the model.                  *)
AuditSkips(r) ==
    /\ audit[r].state = "waiting"
    /\ \/ ~Present(r) /\ UNCHANGED events
       \/ Present(r) /\ Event("nokey")
    /\ audit' = [audit EXCEPT ![r] = Ended(@)]
    /\ UNCHANGED <<sweepVars, rows, searches, search, extract, admin, due, seen,
                   unextracted, uncounted, overlapped>>

(* The decision overwrites whatever the row says by now. Nobody triggers   *)
(* the consensus when the extraction has been here already.                *)
AuditWrite(r) ==
    /\ audit[r].state = "write"
    /\ Unlocked(r)
    /\ IF Present(r) THEN SetConf(r, Decided[audit[r].verdict]) ELSE UNCHANGED rows
    /\ audit' = [audit EXCEPT ![r] = Ended(@)]
    /\ uncounted' = IF audit[r].verdict = "approve" /\ rows[r].specs /\ rows[r].conf # "confirmed"
                    THEN uncounted \union {r} ELSE uncounted
    /\ UNCHANGED <<sweepVars, events, searches, search, extract, admin, due, seen,
                   unextracted, overlapped>>

AuditFails(r) ==
    /\ audit[r].state \in {"waiting", "write"}
    /\ Breaks(audit[r].state = "waiting")
    /\ audit' = [audit EXCEPT ![r] = Failed(@)]
    /\ UNCHANGED <<sweepVars, rows, searches, search, extract, admin, due, seen,
                   unextracted, uncounted, overlapped>>

AuditNext ==
    \E r \in Rows : AuditAsk(r) \/ AuditSkips(r) \/ AuditWrite(r) \/ AuditFails(r)
----------------------------------------------------------------------------
(* The extraction of specifications (extraction.worker.ts).                *)

ExtractLoad(r) ==
    /\ extract[r].state = "waiting"
    /\ extract' = [extract EXCEPT ![r] =
                      IF ~Present(r) THEN Ended(@)
                      ELSE Goes(@, IF rows[r].url \in harvest THEN "ask" ELSE "fetch")]
    /\ UNCHANGED <<sweepVars, events, rows, searches, search, audit, admin, due, seen,
                   unextracted, uncounted, overlapped>>

(* The page arrives and is stored, or scraping is off or not allowed, or   *)
(* the page goes to the sweep, with one attempt counted unless it was only *)
(* rate limited.                                                           *)
Fetched(r) ==
    /\ extract[r].state = "fetch"
    /\ harvest' = harvest \union {rows[r].url}
    /\ extract' = [extract EXCEPT ![r] = Goes(@, "ask")]
    /\ UNCHANGED <<pages, sweep, events, rows, searches, search, audit, admin, due, seen,
                   unextracted, uncounted, overlapped>>

NotFetched(r) ==
    /\ extract[r].state = "fetch"
    /\ Event("nopage")
    /\ \/ UNCHANGED pages
       \/ /\ Present(r)
          /\ Len(pages) < MaxPages
          /\ \E attempts \in {0, 1} : pages' = Queued(rows[r].url, attempts)
    /\ extract' = [extract EXCEPT ![r] = Ended(@)]
    /\ UNCHANGED <<harvest, sweep, rows, searches, search, audit, admin, due, seen,
                   unextracted, uncounted, overlapped>>

(* A job that ends although it owes a trigger from an earlier attempt      *)
(* leaves its vote uncounted.                                              *)
Leaves(r) == IF extract[r].owes THEN uncounted \union {r} ELSE uncounted

(* The model reads the page, a session records what it found, and the row  *)
(* gets the specifications; or it finds nothing, or the shop has no key.   *)
Specified(r) ==
    /\ extract[r].state = "ask"
    /\ Unlocked(r)
    /\ rows' = IF Present(r) THEN [rows EXCEPT ![r] = [@ EXCEPT !.specs = TRUE]] ELSE rows
    /\ extract' = [extract EXCEPT ![r] = [@ EXCEPT !.state = "trigger", !.owes = TRUE]]
    /\ UNCHANGED <<sweepVars, events, searches, search, audit, admin, due, seen,
                   unextracted, uncounted, overlapped>>

NothingFound(r) ==
    /\ extract[r].state = "ask"
    /\ Event("nodata")
    /\ extract' = [extract EXCEPT ![r] = Ended(@)]
    /\ uncounted' = Leaves(r)
    /\ UNCHANGED <<sweepVars, rows, searches, search, audit, admin, due, seen, unextracted,
                   overlapped>>

ExtractTriggers(r) ==
    /\ extract[r].state = "trigger"
    /\ due' = TRUE
    /\ extract' = [extract EXCEPT ![r] = Ended(@)]
    /\ UNCHANGED <<sweepVars, events, rows, searches, search, audit, admin, seen,
                   unextracted, uncounted, overlapped>>

ExtractFails(r) ==
    /\ extract[r].state \in {"waiting", "fetch", "ask", "trigger"}
    /\ Event("crash")
    /\ extract' = [extract EXCEPT ![r] = Failed(@)]
    /\ uncounted' = IF Exhausted(extract[r]) THEN Leaves(r) ELSE uncounted
    /\ UNCHANGED <<sweepVars, rows, searches, search, audit, admin, due, seen, unextracted,
                   overlapped>>

ExtractNext ==
    \E r \in Rows :
        \/ ExtractLoad(r) \/ Fetched(r) \/ NotFetched(r) \/ Specified(r)
        \/ NothingFound(r) \/ ExtractTriggers(r) \/ ExtractFails(r)

----------------------------------------------------------------------------
(* The admin's requests (routes/similarity-matches.ts, routes/products.ts).*)

NoRequest == [pc |-> "idle", row |-> None, conf |-> "none", held |-> {},
              url |-> None, triage |-> "none"]

Asks(a, op) ==
    /\ admin[a].pc = "idle"
    /\ Event(op)

Becomes(a, pc, r) == admin' = [admin EXCEPT ![a] = [@ EXCEPT !.pc = pc, !.row = r]]

Answered(a) == admin' = [admin EXCEPT ![a] = NoRequest]

(* POST /similarity-matches: the same look-up and insert as the search's,  *)
(* and the hand-over of what is to be audited. Nothing sends a match that  *)
(* it approves to extraction.                                              *)
CreateLookUp(a, u) ==
    /\ Asks(a, "create")
    /\ ~KnownUrl(u)
    /\ \E triage \in Triages :
        admin' = [admin EXCEPT ![a] = [@ EXCEPT !.pc = "insert", !.url = u, !.triage = triage]]
    /\ overlapped' = Meets(u)
    /\ UNCHANGED <<sweepVars, rows, searches, search, audit, extract, due, seen,
                   unextracted, uncounted>>

CreateInsert(a, r) ==
    /\ admin[a].pc = "insert"
    /\ r \in Fresh
    /\ rows' = [rows EXCEPT ![r] = Match(admin[a].url, admin[a].triage)]
    /\ IF admin[a].triage = "ai_audit" THEN Becomes(a, "audit", r) ELSE Answered(a)
    /\ unextracted' = IF admin[a].triage = "auto_approve" THEN unextracted \union {r}
                                                          ELSE unextracted
    /\ UNCHANGED <<sweepVars, events, searches, search, audit, extract, due, seen, uncounted,
                   overlapped>>

HandsOverAudit(a) ==
    /\ admin[a].pc = "audit"
    /\ audit' = [audit EXCEPT ![admin[a].row] = Added(@)]
    /\ Answered(a)
    /\ UNCHANGED <<sweepVars, events, rows, searches, search, extract, due, seen,
                   unextracted, uncounted, overlapped>>

(* PATCH /confidence: the transition is checked in one transaction and     *)
(* written, unconditionally, in the next, which also says whether the row  *)
(* has specifications.                                                     *)
PatchRead(a, r) ==
    /\ Asks(a, "patch")
    /\ Present(r)
    /\ \E c \in MayBecome(rows[r].conf) :
        admin' = [admin EXCEPT ![a] = [@ EXCEPT !.pc = "patch", !.row = r, !.conf = c]]
    /\ UNCHANGED <<sweepVars, rows, searches, search, audit, extract, due, seen,
                   unextracted, uncounted, overlapped>>

(* Faulty variants: one hand-over whatever the row has.                    *)
AfterConfirmCounts(r) == "consensus"
AfterConfirmExtracts(r) == "extraction"

AfterConfirm(r) == IF rows[r].specs THEN "consensus" ELSE "extraction"

PatchWrite(a) ==
    /\ admin[a].pc = "patch"
    /\ Unlocked(admin[a].row)
    /\ IF Present(admin[a].row)
       THEN /\ SetConf(admin[a].row, admin[a].conf)
            /\ IF admin[a].conf = "confirmed"
               THEN Becomes(a, AfterConfirm(admin[a].row), admin[a].row)
               ELSE Answered(a)
       ELSE Answered(a) /\ UNCHANGED rows
    /\ UNCHANGED <<sweepVars, events, searches, search, audit, extract, due, seen,
                   unextracted, uncounted, overlapped>>

(* The hand-over comes after the commit.                                   *)
HandsOverExtraction(a) ==
    /\ admin[a].pc = "extraction"
    /\ AddExtraction(admin[a].row)
    /\ Answered(a)
    /\ UNCHANGED <<sweepVars, events, rows, searches, search, audit, due, seen,
                   unextracted, uncounted, overlapped>>

HandsOverConsensus(a) ==
    /\ admin[a].pc = "consensus"
    /\ due' = TRUE
    /\ Answered(a)
    /\ UNCHANGED <<sweepVars, events, rows, searches, search, audit, extract, seen,
                   unextracted, uncounted, overlapped>>

(* POST /products/review/:id/confirm and /reject look at nothing; confirm  *)
(* triggers the consensus and never the extraction.                        *)
ReviewConfirm(a, r) ==
    /\ Asks(a, "review")
    /\ Present(r) /\ Unlocked(r)
    /\ SetConf(r, "confirmed")
    /\ Becomes(a, "consensus", r)
    /\ unextracted' = IF rows[r].specs THEN unextracted ELSE unextracted \union {r}
    /\ UNCHANGED <<sweepVars, searches, search, audit, extract, due, seen, uncounted,
                   overlapped>>

ReviewReject(a, r) ==
    /\ Asks(a, "review")
    /\ Present(r) /\ Unlocked(r)
    /\ SetConf(r, "rejected")
    /\ UNCHANGED <<sweepVars, searches, search, audit, extract, admin, due, seen,
                   unextracted, uncounted, overlapped>>

(* PATCH /primary: one transaction that reads the row, clears all rows of  *)
(* the product and sets this one. The clear locks every row until the      *)
(* commit, which is when the others see the result.                        *)
PrimaryRead(a, r) ==
    /\ Asks(a, "primary")
    /\ rows[r].conf = "confirmed"
    /\ Becomes(a, "clear", r)
    /\ UNCHANGED <<sweepVars, rows, searches, search, audit, extract, due, seen,
                   unextracted, uncounted, overlapped>>

(* Faulty variant: only the primary row is cleared, and locked.            *)
ClearedPrimary == {r \in Rows : Present(r) /\ rows[r].primary}

Cleared == {r \in Rows : Present(r)}

PrimaryClear(a) ==
    /\ admin[a].pc = "clear"
    /\ \A r \in Cleared : Unlocked(r)
    /\ admin' = [admin EXCEPT ![a] = [@ EXCEPT !.pc = "set", !.held = Cleared]]
    /\ UNCHANGED <<sweepVars, events, rows, searches, search, audit, extract, due, seen,
                   unextracted, uncounted, overlapped>>

PrimarySet(a) ==
    /\ admin[a].pc = "set"
    /\ \A b \in Admins \ {a} : admin[a].row \notin admin[b].held
    /\ rows' = [r \in Rows |->
                   IF r = admin[a].row /\ Present(r) THEN [rows[r] EXCEPT !.primary = TRUE]
                   ELSE IF r \in admin[a].held THEN [rows[r] EXCEPT !.primary = FALSE]
                   ELSE rows[r]]
    /\ Answered(a)
    /\ UNCHANGED <<sweepVars, events, searches, search, audit, extract, due, seen,
                   unextracted, uncounted, overlapped>>

(* POST /extract: the job is added, or refused.                            *)
ExtractRequest(a, r) ==
    /\ Asks(a, "extract")
    /\ Present(r)
    /\ AddExtraction(r) \/ UNCHANGED extract
    /\ UNCHANGED <<sweepVars, rows, searches, search, audit, admin, due, seen,
                   unextracted, uncounted, overlapped>>

Delete(a, r) ==
    /\ Asks(a, "delete")
    /\ Present(r) /\ Unlocked(r)
    /\ rows' = [rows EXCEPT ![r] = [Blank EXCEPT !.url = rows[r].url, !.conf = "gone"]]
    /\ UNCHANGED <<sweepVars, searches, search, audit, extract, admin, due, seen,
                   unextracted, uncounted, overlapped>>

(* The API process dies: its transaction is rolled back, or its hand-over  *)
(* is lost; or that is refused, after the commit of what it hands over.    *)
AdminFails(a) ==
    /\ admin[a].pc # "idle"
    /\ Breaks(admin[a].pc \in {"extraction", "audit"})
    /\ Answered(a)
    /\ unextracted' = IF admin[a].pc = "extraction" THEN unextracted \union {admin[a].row}
                                                    ELSE unextracted
    /\ uncounted' = IF admin[a].pc = "consensus" THEN uncounted \union {admin[a].row}
                                                 ELSE uncounted
    /\ UNCHANGED <<sweepVars, rows, searches, search, audit, extract, due, seen, overlapped>>

AdminNext ==
    \E a \in Admins :
        \/ HandsOverAudit(a)
        \/ PatchWrite(a) \/ HandsOverExtraction(a) \/ HandsOverConsensus(a)
        \/ PrimaryClear(a) \/ PrimarySet(a) \/ AdminFails(a)
        \/ \E u \in Urls : CreateLookUp(a, u)
        \/ \E r \in Rows :
            \/ CreateInsert(a, r) \/ PatchRead(a, r)
            \/ ReviewConfirm(a, r) \/ ReviewReject(a, r) \/ PrimaryRead(a, r)
            \/ ExtractRequest(a, r) \/ Delete(a, r)

----------------------------------------------------------------------------
RunConsensus ==
    /\ due
    /\ due' = FALSE
    /\ seen' = Votes
    /\ UNCHANGED <<sweepVars, events, rows, searches, search, audit, extract, admin,
                   unextracted, uncounted, overlapped>>

(* Five hundred later jobs push a kept one out.                            *)
Forgotten(job) == [NoJob EXCEPT !.ran = job.ran]

Forget(r) ==
    /\ Event("forget")
    /\ \/ /\ audit[r].state = "kept"
          /\ audit' = [audit EXCEPT ![r] = Forgotten(@)]
          /\ UNCHANGED extract
       \/ /\ extract[r].state = "kept"
          /\ extract' = [extract EXCEPT ![r] = Forgotten(@)]
          /\ UNCHANGED audit
    /\ UNCHANGED <<sweepVars, rows, searches, search, admin, due, seen, unextracted,
                   uncounted, overlapped>>

Init ==
    /\ SweepInit
    /\ rows = [r \in Rows |-> Blank]
    /\ searches = MaxSearches
    /\ search = NoSearch
    /\ audit = [r \in Rows |-> NoJob]
    /\ extract = [r \in Rows |-> NoJob]
    /\ admin = [a \in Admins |-> NoRequest]
    /\ due = FALSE
    /\ seen = {}
    /\ unextracted = {}
    /\ uncounted = {}
    /\ overlapped = {}

Next ==
    \/ SearchNext \/ AuditNext \/ ExtractNext \/ AdminNext \/ RunConsensus
    \/ \E r \in Rows : Forget(r)
    \/ SweepNext /\ UNCHANGED pipelineVars

Spec == Init /\ [][Next]_vars

----------------------------------------------------------------------------
(* Properties.                                                             *)

Job == [state : {"none", "waiting", "write", "fetch", "ask", "trigger", "kept"},
        attempt : 0 .. MaxAttempts,
        verdict : DOMAIN Decided \union {"none"},
        owes : BOOLEAN, ran : BOOLEAN]

(* Types of rows, jobs, requests and pages.                                *)
TypeOK ==
    /\ SweepTypeOK
    /\ \A r \in Rows :
        /\ rows[r].url \in Urls \union {None}
        /\ rows[r].conf \in Confidence \union {"none", "gone"}
        /\ rows[r].triage \in Triages \union {"none"}
        /\ rows[r].specs \in BOOLEAN /\ rows[r].primary \in BOOLEAN
        /\ (rows[r].conf = "none") = (rows[r].url = None)
        /\ audit[r] \in Job /\ extract[r] \in Job
    /\ searches \in 0 .. MaxSearches
    /\ search.pc \in {"idle", "retry", "rows", "insert", "audits", "autos"}
    /\ search.list \subseteq Rows
    /\ search.attempt \in 0 .. MaxAttempts
    /\ \A a \in Admins :
        /\ admin[a].pc \in {"idle", "insert", "audit", "patch", "extraction", "consensus",
                           "clear", "set"}
        /\ admin[a].held \subseteq Rows
    /\ due \in BOOLEAN /\ seen \subseteq Rows
    /\ unextracted \subseteq Rows /\ uncounted \subseteq Rows
    /\ overlapped \subseteq Urls

(* However requests, audits, inserts and deletes interleave, a product has *)
(* at most one primary source.                                             *)
OnePrimary ==
    \A r, q \in Rows : Present(r) /\ Present(q) /\ rows[r].primary /\ rows[q].primary => r = q

(* A url is not matched twice, although the look-up and the insert are two *)
(* statements, a search that died starts again and matches are deleted:    *)
(* only where a request and the search, or two requests, were between the  *)
(* two statements for the same url, which no constraint of the table       *)
(* forbids.                                                                *)
UrlsAreUnique ==
    \A r, q \in Rows :
        Present(r) /\ Present(q) /\ rows[r].url = rows[q].url =>
            r = q \/ rows[r].url \in overlapped

(* "Auto-approved matches are confirmed immediately; we must continue the  *)
(* pipeline by sending them to extraction": a confirmed match has its      *)
(* specifications, or a job that extracts them or did its best, or whoever *)
(* confirmed it is still to add that job, or lost it with a death or a     *)
(* refused add (unextracted).                                              *)
SearchOwes(r) ==
    \/ search.autos /\ search.pc \in {"rows", "insert", "audits"}
    \/ search.pc = "autos" /\ r \in search.list

ConfirmedIsExtracted ==
    \A r \in Rows :
        rows[r].conf = "confirmed" /\ ~rows[r].specs /\ r \notin unextracted =>
            \/ extract[r].state # "none" \/ extract[r].ran
            \/ SearchOwes(r)
            \/ \E a \in Admins : admin[a].pc = "extraction" /\ admin[a].row = r

(* Once a match is confirmed and specified, in either order and by         *)
(* whomever, the consensus has counted it or is going to.                  *)
VotesAreCounted ==
    \A r \in Votes \ uncounted :
        \/ r \in seen \/ due
        \/ extract[r].owes
        \/ \E a \in Admins : admin[a].pc = "consensus"
============================================================================
