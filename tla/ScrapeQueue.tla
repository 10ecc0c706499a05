---------------------------- MODULE ScrapeQueue ----------------------------
(***************************************************************************)
(* The pages that an extraction could not fetch (table scraper_queue) and  *)
(* the sweep that fetches them later, every thirty seconds in every worker *)
(* process (runScraperQueueSweep in processors/pim/extraction.worker.ts).  *)
(* Nothing keeps a sweep from starting while the last one is at work: a    *)
(* sweep claims its whole batch at once and scrapes it page by page, and   *)
(* ten minutes after the claim another sweep takes what is left for the    *)
(* remains of a crash.                                                     *)
(*                                                                         *)
(* Abstracted: what a page holds (a url is harvested or not), priorities,  *)
(* the hour of next_attempt_at (a pending page may be due or not), the     *)
(* deletion of pages that ended seven days ago, run and usage records.     *)
(***************************************************************************)
EXTENDS Naturals, Sequences, FiniteSets

CONSTANTS
    Urls,         \* source urls
    Sweeps,       \* sweeps that may be under way at once
    MaxScrapes,   \* scraper_queue.max_attempts
    MaxPages,     \* bound: rows of scraper_queue
    None,
    Events,       \* the faults and the requests that a run may meet
    MaxEvents,    \* bound: faults and requests of a run
    Alone         \* bound: kinds that a run meets without another one

ASSUME ScrapesAssumption == MaxScrapes \in Nat \ {0}
ASSUME QueueAssumption == MaxPages \in Nat /\ MaxEvents \in Nat /\ None \notin Urls

VARIABLES
    harvest,      \* urls with a row in prod_raw_harvest
    pages,        \* scraper_queue, in the order of insertion
    sweep,        \* sweep[s]: a call of runScraperQueueSweep
    events        \* number of faults and requests so far

sweepVars == <<harvest, pages, sweep>>

Event(kind) ==
    /\ events < MaxEvents
    /\ kind \in Events
    /\ kind \in Alone => events = 0
    /\ events' = IF kind \in Alone THEN MaxEvents ELSE events + 1

----------------------------------------------------------------------------
(* A page: scrapes counts how often it was fetched, by anyone.             *)
PageStatus == {"pending", "processing", "completed", "failed"}

Page == [url : Urls, status : PageStatus,
         attempts : Nat, scrapes : Nat]

Queued(u, attempts) ==
    Append(pages, [url |-> u, status |-> "pending",
                   attempts |-> attempts, scrapes |-> attempts])

(* A claim is a page and the number its attempt got when it was claimed.   *)
NoClaim == [page |-> 0, number |-> 0]

Idle == [pc |-> "idle", batch |-> {}, at |-> NoClaim]

InBatch(s) == {c.page : c \in sweep[s].batch \union {sweep[s].at}}

(* The first statement of a sweep: recoverStaleScraperQueueItems. Pages    *)
(* whose sweep died are stale in the end; pages of a sweep that is still   *)
(* at work are when it is slow. A sweep that finds no page is left out.    *)
Recover(s) ==
    /\ sweep[s].pc = "idle"
    /\ \E p \in DOMAIN pages : pages[p].status \in {"pending", "processing"}
    /\ \E stale \in SUBSET {p \in DOMAIN pages : pages[p].status = "processing"} :
        /\ \/ /\ \A t \in Sweeps : InBatch(t) \intersect stale = {}
              /\ UNCHANGED events
           \/ /\ \E t \in Sweeps : InBatch(t) \intersect stale # {}
              /\ Event("slow")
        /\ pages' = [p \in DOMAIN pages |->
                        IF p \in stale THEN [pages[p] EXCEPT !.status = "pending"]
                                       ELSE pages[p]]
    /\ sweep' = [sweep EXCEPT ![s] = [@ EXCEPT !.pc = "claim"]]
    /\ UNCHANGED harvest

(* The claim: one UPDATE over rows selected FOR UPDATE SKIP LOCKED.        *)
Numbered(p) == pages[p].attempts + 1

Claim(s) ==
    /\ sweep[s].pc = "claim"
    /\ \E due \in SUBSET {p \in DOMAIN pages : pages[p].status = "pending"} :
        /\ pages' = [p \in DOMAIN pages |->
                        IF p \in due
                        THEN [pages[p] EXCEPT !.status = "processing",
                                              !.attempts = Numbered(p)]
                        ELSE pages[p]]
        /\ sweep' = [sweep EXCEPT ![s] =
                        [@ EXCEPT !.pc = IF due = {} THEN "idle" ELSE "work",
                                  !.batch = {[page |-> p, number |-> Numbered(p)] : p \in due}]]
    /\ UNCHANGED <<harvest, events>>

(* The sweep goes on to its next claim, or ends.                           *)
GoOn(s, rest) ==
    sweep' = [sweep EXCEPT ![s] =
                 [pc |-> IF rest = {} THEN "idle" ELSE "work", batch |-> rest, at |-> NoClaim]]

SetStatus(p, status) == pages' = [pages EXCEPT ![p] = [@ EXCEPT !.status = status]]

(* Faulty variant: the number of the claim is not compared.                *)
MayScrapeAlways(c) == TRUE

(* Attempts that ran out, a shop that switched scraping off, or a source   *)
(* that is no longer configured.                                           *)
MayScrape(c) == c.number <= MaxScrapes

GiveUp(s) ==
    /\ sweep[s].pc = "work"
    /\ \E c \in sweep[s].batch :
        /\ SetStatus(c.page, "failed")
        /\ GoOn(s, sweep[s].batch \ {c})
    /\ UNCHANGED <<harvest, events>>

Scrape(s) ==
    /\ sweep[s].pc = "work"
    /\ \E c \in sweep[s].batch :
        /\ MayScrape(c)
        /\ pages' = [pages EXCEPT ![c.page].scrapes = @ + 1]
        /\ sweep' = [sweep EXCEPT ![s] =
                        [pc |-> "scrape", batch |-> sweep[s].batch \ {c}, at |-> c]]
    /\ UNCHANGED <<harvest, events>>

Harvested(s) ==
    /\ sweep[s].pc = "scrape"
    /\ harvest' = harvest \union {pages[sweep[s].at.page].url}
    /\ sweep' = [sweep EXCEPT ![s] = [@ EXCEPT !.pc = "store"]]
    /\ UNCHANGED <<pages, events>>

Completed(s) ==
    /\ sweep[s].pc = "store"
    /\ SetStatus(sweep[s].at.page, "completed")
    /\ GoOn(s, sweep[s].batch)
    /\ UNCHANGED <<harvest, events>>

(* No page, or a statement that throws: the number of the claim, not the   *)
(* attempts of the row, decides whether the page is tried again.           *)
After(c) == IF c.number >= MaxScrapes THEN "failed" ELSE "pending"

NoPage(s) ==
    /\ sweep[s].pc \in {"scrape", "store"}
    /\ SetStatus(sweep[s].at.page, After(sweep[s].at))
    /\ GoOn(s, sweep[s].batch)
    /\ UNCHANGED <<harvest, events>>

SweepDies(s) ==
    /\ sweep[s].pc # "idle"
    /\ Event("crash")
    /\ sweep' = [sweep EXCEPT ![s] = Idle]
    /\ UNCHANGED <<harvest, pages>>

SweepInit ==
    /\ harvest = {}
    /\ pages = <<>>
    /\ sweep = [s \in Sweeps |-> Idle]
    /\ events = 0

SweepNext ==
    \E s \in Sweeps :
        \/ Recover(s) \/ Claim(s) \/ GiveUp(s) \/ Scrape(s)
        \/ Harvested(s) \/ Completed(s) \/ NoPage(s) \/ SweepDies(s)

----------------------------------------------------------------------------
Claims == [page : 0 .. MaxPages, number : Nat]

SweepTypeOK ==
    /\ harvest \subseteq Urls
    /\ Len(pages) <= MaxPages
    /\ \A p \in DOMAIN pages : pages[p] \in Page
    /\ \A s \in Sweeps :
        /\ sweep[s].pc \in {"idle", "claim", "work", "scrape", "store"}
        /\ \A c \in sweep[s].batch \union {sweep[s].at} : c \in Claims
    /\ events \in 0 .. MaxEvents

(* A page is fetched at most max_attempts times, counting the fetch of the *)
(* extraction that queued it: although sweeps overlap, a page claimed by   *)
(* one may be recovered under it and claimed by another, and the first     *)
(* then sets the page it lost back to pending.                             *)
ScrapesBounded == \A p \in DOMAIN pages : pages[p].scrapes <= MaxScrapes
============================================================================
