---------------------------- MODULE MatchesProofs ----------------------------
(* Theorems about Matches, for any number of rows, urls, requests, sweeps,    *)
(* attempts and faults.                                                       *)
EXTENDS Matches, FiniteSetTheorems, TLAPS

----------------------------------------------------------------------------
(* The search: what it has still to match is a function into the triages, and *)
(* the url between its look-up and its insert is one of them.                 *)

Found == UNION {[found -> Triages] : found \in SUBSET Urls}

SearchType ==
    [pc : {"idle", "retry", "rows", "insert", "audits", "autos"},
     attempt : 0 .. MaxAttempts, todo : Found, url : Urls \union {None},
     audits : BOOLEAN, autos : BOOLEAN, list : SUBSET Rows]

SearchTyped ==
    /\ search \in SearchType
    /\ search.pc = "insert" => search.url \in DOMAIN search.todo
    /\ search.pc = "idle" => search.attempt = 0
    /\ search.pc = "retry" => search.attempt < MaxAttempts

LEMMA FoundIs ==
  ASSUME NEW todo \in Found
  PROVE  /\ \A u \in DOMAIN todo : u \in Urls /\ todo[u] \in Triages
         /\ \A u : Without(todo, u) \in Found
  <1>1. PICK found \in SUBSET Urls : todo \in [found -> Triages]
    BY DEF Found
  <1>2. \A u : Without(todo, u) \in [found \ {u} -> Triages]
    BY <1>1 DEF Without
  <1> QED  BY <1>1, <1>2 DEF Found

LEMMA SearchTypedInit == Init => SearchTyped
  <1>1. <<>> \in [{} -> Triages]
    OBVIOUS
  <1>2. <<>> \in Found
    BY <1>1 DEF Found
  <1> QED  BY <1>2, JobsAssumption DEF Init, SearchTyped, SearchType, NoSearch

(* What requests leave alone.                                                 *)
LEMMA AdminLeaves ==
  ASSUME AdminNext
  PROVE  UNCHANGED search /\ (UNCHANGED audit \/ \E a \in Admins : HandsOverAudit(a))
  <1>1. PICK a \in Admins :
           \/ HandsOverAudit(a)
           \/ PatchWrite(a) \/ HandsOverExtraction(a) \/ HandsOverConsensus(a)
           \/ PrimaryClear(a) \/ PrimarySet(a) \/ AdminFails(a)
           \/ \E u \in Urls : CreateLookUp(a, u)
           \/ \E r \in Rows :
               \/ CreateInsert(a, r)
               \/ PatchRead(a, r)
               \/ ReviewConfirm(a, r) \/ ReviewReject(a, r) \/ PrimaryRead(a, r)
               \/ ExtractRequest(a, r) \/ Delete(a, r)
    BY DEF AdminNext
  <1>2. CASE HandsOverAudit(a)
    BY <1>2 DEF HandsOverAudit
  <1>3. CASE PatchWrite(a) \/ HandsOverExtraction(a) \/ HandsOverConsensus(a)
             \/ PrimaryClear(a) \/ PrimarySet(a) \/ AdminFails(a)
    BY <1>3 DEF PatchWrite, HandsOverExtraction, HandsOverConsensus, PrimaryClear, PrimarySet,
                AdminFails
  <1>4. CASE \E u \in Urls : CreateLookUp(a, u)
    BY <1>4 DEF CreateLookUp
  <1>5. ASSUME NEW r \in Rows,
               \/ CreateInsert(a, r)
               \/ PatchRead(a, r)
               \/ ReviewConfirm(a, r) \/ ReviewReject(a, r) \/ PrimaryRead(a, r)
               \/ ExtractRequest(a, r) \/ Delete(a, r)
        PROVE  UNCHANGED <<search, audit>>
    BY <1>5 DEF CreateInsert, PatchRead, ReviewConfirm, ReviewReject, PrimaryRead, ExtractRequest,
                Delete
  <1> QED  BY <1>1, <1>2, <1>3, <1>4, <1>5

LEMMA SearchTypedStep ==
  ASSUME SearchTyped, [Next]_vars
  PROVE  SearchTyped'
  <1> USE DEF SearchTyped, SearchType
  <1>1. NoSearch \in SearchType /\ NoSearch.pc = "idle" /\ NoSearch.attempt = 0
    <2>1. <<>> \in [{} -> Triages]
      OBVIOUS
    <2>2. <<>> \in Found
      BY <2>1 DEF Found
    <2> QED  BY <2>2, JobsAssumption DEF NoSearch
  <1>2. CASE SearchStart
    <2>1. PICK found \in SUBSET Urls : \E triage \in [found -> Triages] :
             search' = [NoSearch EXCEPT !.pc = "rows", !.attempt = search.attempt + 1,
                                        !.todo = triage]
      BY <1>2 DEF SearchStart
    <2>2. PICK triage \in [found -> Triages] :
             search' = [NoSearch EXCEPT !.pc = "rows", !.attempt = search.attempt + 1,
                                        !.todo = triage]
      BY <2>1
    <2>3. triage \in Found
      BY DEF Found
    <2>4. search.attempt + 1 \in 0 .. MaxAttempts
      BY <1>2, JobsAssumption DEF SearchStart
    <2> QED  BY <2>2, <2>3, <2>4 DEF NoSearch
  <1>3. CASE LookUp
    <2>1. PICK u \in DOMAIN search.todo :
             \/ search' = [search EXCEPT !.todo = Without(@, u)]
             \/ search' = [search EXCEPT !.pc = "insert", !.url = u]
      BY <1>3 DEF LookUp
    <2>2. u \in Urls /\ Without(search.todo, u) \in Found
      BY FoundIs
    <2> QED  BY <1>3, <2>1, <2>2 DEF LookUp
  <1>4. CASE Insert
    <2>1. search.todo[search.url] \in Triages /\ Without(search.todo, search.url) \in Found
      BY <1>4, FoundIs DEF Insert
    <2> QED  BY <1>4, <2>1 DEF Insert
  <1>5. CASE ListAudits \/ AddAudit \/ ListAutos \/ AddAuto
    <2>1. CASE ListAudits
      BY <2>1 DEF ListAudits, AuditList
    <2>2. CASE AddAudit
      BY <2>2 DEF AddAudit
    <2>3. CASE ListAutos
      <3>1. [search EXCEPT !.pc = "autos", !.list = AutoList] \in SearchType
        BY DEF AutoList
      <3>2. [search EXCEPT !.pc = "autos", !.list = AutoList].pc = "autos"
        OBVIOUS
      <3> QED  BY <1>1, <2>3, <3>1, <3>2 DEF ListAutos
    <2>4. CASE AddAuto
      <3>1. \A r : [search EXCEPT !.list = @ \ {r}] \in SearchType
        OBVIOUS
      <3>2. \A r : [search EXCEPT !.list = @ \ {r}].pc = search.pc
        OBVIOUS
      <3>3. search.pc = "autos"
        BY <2>4 DEF AddAuto
      <3>4. PICK r \in search.list :
               search' = IF search.list = {r} THEN NoSearch ELSE [search EXCEPT !.list = @ \ {r}]
        BY <2>4 DEF AddAuto
      <3> QED  BY <1>1, <3>1, <3>2, <3>3, <3>4
    <2> QED  BY <1>5, <2>1, <2>2, <2>3, <2>4
  <1>6. CASE SearchFails
    <2> DEFINE again == [NoSearch EXCEPT !.pc = "retry", !.attempt = search.attempt]
    <2>1. again \in SearchType /\ again.pc = "retry" /\ again.attempt = search.attempt
      BY <1>1 DEF NoSearch
    <2>2. \/ search.attempt >= MaxAttempts /\ search' = NoSearch
          \/ ~(search.attempt >= MaxAttempts) /\ search' = again
      BY <1>6 DEF SearchFails
    <2>3. search.attempt < MaxAttempts \/ search.attempt >= MaxAttempts
      BY JobsAssumption
    <2> HIDE DEF again
    <2> QED  BY <1>1, <2>1, <2>2, <2>3, JobsAssumption
  <1>7. CASE UNCHANGED search
    BY <1>7
  <1>8. CASE AuditNext
    BY <1>7, <1>8 DEF AuditNext, AuditAsk, AuditSkips, AuditWrite, AuditFails
  <1>9. CASE ExtractNext
    BY <1>7, <1>9 DEF ExtractNext, ExtractLoad, Fetched, NotFetched, Specified, NothingFound,
                      ExtractTriggers, ExtractFails
  <1>10. CASE AdminNext
    BY <1>7, <1>10, AdminLeaves
  <1>11. CASE UNCHANGED vars \/ RunConsensus \/ (\E r \in Rows : Forget(r)) \/ UNCHANGED pipelineVars
    BY <1>7, <1>11 DEF vars, RunConsensus, Forget, pipelineVars
  <1> QED  BY <1>2, <1>3, <1>4, <1>5, <1>6, <1>8, <1>9, <1>10, <1>11 DEF Next, SearchNext

LEMMA SearchTypedInvariant == Spec => []SearchTyped
  BY SearchTypedInit, SearchTypedStep, PTL DEF Spec

----------------------------------------------------------------------------
(* The audits: one that is to be written has a verdict.                       *)

AuditType == [state : {"none", "waiting", "write", "kept"}, attempt : 0 .. MaxAttempts,
              verdict : DOMAIN Decided \union {"none"}, owes : BOOLEAN, ran : BOOLEAN]

AuditTyped ==
    /\ audit \in [Rows -> AuditType]
    /\ \A r \in Rows : audit[r].state = "write" => audit[r].verdict \in DOMAIN Decided

LEMMA AuditJobs ==
  ASSUME NEW j \in AuditType
  PROVE  /\ Added(j) \in AuditType /\ Added(j).state \in {j.state, "waiting"}
         /\ Added(j).verdict = j.verdict
         /\ Failed(j) \in AuditType /\ Failed(j).state # "write"
         /\ Ended(j) \in AuditType /\ Ended(j).state # "write"
         /\ Forgotten(j) \in AuditType /\ Forgotten(j).state # "write"
         /\ \A v \in DOMAIN Decided :
              /\ [j EXCEPT !.verdict = v, !.state = "write"] \in AuditType
              /\ [j EXCEPT !.verdict = v, !.state = "write"].verdict = v
  <1> USE DEF AuditType
  <1>0. /\ 0 \in 0 .. MaxAttempts /\ 1 \in 0 .. MaxAttempts
        /\ j.attempt < MaxAttempts => j.attempt + 1 \in 0 .. MaxAttempts
        /\ j.attempt < MaxAttempts \/ j.attempt >= MaxAttempts
    BY JobsAssumption
  <1>1. [j EXCEPT !.state = "waiting", !.attempt = 1] \in AuditType
    BY <1>0
  <1>2. \A n \in 0 .. MaxAttempts :
           /\ [j EXCEPT !.state = "waiting", !.attempt = n, !.verdict = "none"] \in AuditType
           /\ [j EXCEPT !.state = "waiting", !.attempt = n, !.verdict = "none"].state = "waiting"
    OBVIOUS
  <1>3. NoJob \in AuditType
    BY JobsAssumption DEF NoJob
  <1>4. Ended(j) \in AuditType /\ Ended(j).state = "kept"
    BY <1>3 DEF Ended, NoJob
  <1>5. Forgotten(j) \in AuditType /\ Forgotten(j).state = "none"
    BY <1>0, <1>3 DEF Forgotten, NoJob
  <1>6. Added(j) \in AuditType /\ Added(j).state \in {j.state, "waiting"} /\ Added(j).verdict = j.verdict
    BY <1>1 DEF Added
  <1>7. Failed(j) \in AuditType /\ Failed(j).state # "write"
    BY <1>0, <1>2, <1>4 DEF Failed, Exhausted
  <1>8. ASSUME NEW v \in DOMAIN Decided
        PROVE  /\ [j EXCEPT !.verdict = v, !.state = "write"] \in AuditType
               /\ [j EXCEPT !.verdict = v, !.state = "write"].verdict = v
    OBVIOUS
  <1> QED  BY <1>4, <1>5, <1>6, <1>7, <1>8

LEMMA AuditTypedStep ==
  ASSUME AuditTyped, SearchTyped, [Next]_vars
  PROVE  AuditTyped'
  <1>1. CASE UNCHANGED audit
    BY <1>1 DEF AuditTyped
  <1>2. ASSUME NEW r \in Rows, NEW j \in AuditType, audit' = [audit EXCEPT ![r] = j],
               j.state = "write" => j.verdict \in DOMAIN Decided
        PROVE  AuditTyped'
    BY <1>2 DEF AuditTyped
  <1>3. \A r \in Rows : audit[r] \in AuditType
    BY DEF AuditTyped
  <1>4. CASE AddAudit
    <2>1. PICK r \in search.list : audit' = [audit EXCEPT ![r] = Added(@)]
      BY <1>4 DEF AddAudit
    <2>2. r \in Rows
      BY DEF SearchTyped, SearchType
    <2>3. Added(audit[r]).state = "write" => audit[r].state = "write"
      BY <1>3, <2>2, AuditJobs
    <2> QED  BY <1>2, <1>3, <2>1, <2>2, <2>3, AuditJobs DEF AuditTyped
  <1>5. ASSUME NEW r \in Rows, AuditAsk(r) \/ AuditSkips(r) \/ AuditWrite(r) \/ AuditFails(r)
        PROVE  AuditTyped'
    <2>1. \/ audit' = [audit EXCEPT ![r] = Ended(audit[r])]
          \/ audit' = [audit EXCEPT ![r] = Failed(audit[r])]
          \/ \E v \in DOMAIN Decided :
                audit' = [audit EXCEPT ![r] = [audit[r] EXCEPT !.verdict = v, !.state = "write"]]
      BY <1>5 DEF AuditAsk, AuditSkips, AuditWrite, AuditFails
    <2> QED  BY <1>2, <1>3, <2>1, AuditJobs
  <1>6. ASSUME NEW r \in Rows, Forget(r) PROVE AuditTyped'
    <2>1. UNCHANGED audit \/ audit' = [audit EXCEPT ![r] = Forgotten(audit[r])]
      BY <1>6 DEF Forget
    <2> QED  BY <1>1, <1>2, <1>3, <2>1, AuditJobs
  <1>7. CASE SearchNext /\ ~AddAudit
    BY <1>1, <1>7 DEF SearchNext, SearchStart, LookUp, Insert, ListAudits, ListAutos, AddAuto,
                      SearchFails
  <1>8. CASE ExtractNext
    BY <1>1, <1>8 DEF ExtractNext, ExtractLoad, Fetched, NotFetched, Specified, NothingFound,
                      ExtractTriggers, ExtractFails
  <1>9. ASSUME AdminNext, ~\E a \in Admins : HandsOverAudit(a) PROVE AuditTyped'
    BY <1>1, <1>9, AdminLeaves
  <1>11. ASSUME NEW a \in Admins, HandsOverAudit(a) PROVE AuditTyped'
    <2>1. audit' = [audit EXCEPT ![admin[a].row] = Added(@)]
      BY <1>11 DEF HandsOverAudit
    <2>2. CASE admin[a].row \in Rows
      <3>1. Added(audit[admin[a].row]).state = "write" => audit[admin[a].row].state = "write"
        BY <1>3, <2>2, AuditJobs
      <3> QED  BY <1>2, <1>3, <2>1, <2>2, <3>1, AuditJobs DEF AuditTyped
    <2>3. CASE admin[a].row \notin Rows
      BY <1>1, <2>1, <2>3 DEF AuditTyped
    <2> QED  BY <2>2, <2>3
  <1>10. CASE UNCHANGED vars \/ RunConsensus \/ UNCHANGED pipelineVars
    BY <1>1, <1>10 DEF vars, RunConsensus, pipelineVars
  <1> QED  BY <1>4, <1>5, <1>6, <1>7, <1>8, <1>9, <1>10, <1>11 DEF Next, AuditNext

LEMMA AuditTypedInvariant == Spec => []AuditTyped
  <1>1. Init => AuditTyped
    BY JobsAssumption DEF Init, AuditTyped, AuditType, NoJob
  <1> QED  BY <1>1, AuditTypedStep, SearchTypedInvariant, PTL DEF Spec

----------------------------------------------------------------------------
(* Rows and requests.                                                         *)

RowType == [url : Urls \union {None}, conf : Confidence \union {"none", "gone"},
            triage : Triages \union {"none"}, specs : BOOLEAN, primary : BOOLEAN]

RequestType ==
    [pc : {"idle", "insert", "audit", "patch", "extraction", "consensus", "clear", "set"},
     row : Rows \union {None}, conf : Confidence \union {"none"}, held : SUBSET Rows,
     url : Urls \union {None}, triage : Triages \union {"none"}]

(* What a request has read that it is going to write.                         *)
KnowsItsRow(q) ==
    /\ q.pc = "patch" => q.row \in Rows /\ q.conf \in Confidence
    /\ q.pc = "insert" => q.url \in Urls /\ q.triage \in Triages
    /\ q.pc \in {"audit", "extraction", "consensus"} => q.row \in Rows

Shape ==
    /\ rows \in [Rows -> RowType]
    /\ admin \in [Admins -> RequestType]
    /\ \A a \in Admins : KnowsItsRow(admin[a])

(* A request between its statements is about a row that was there; once it    *)
(* has locked what there is, that row is locked or gone, and whatever it has  *)
(* locked is there.                                                           *)
HoldsItsRow ==
    \A a \in Admins :
        /\ admin[a].pc \in {"clear", "set"} =>
              admin[a].row \in Rows /\ rows[admin[a].row].conf # "none"
        /\ admin[a].pc = "set" /\ Present(admin[a].row) => admin[a].row \in admin[a].held
        /\ \A r \in admin[a].held : Present(r)
        /\ admin[a].pc # "set" => admin[a].held = {}

(* One request at a time holds rows, and it holds every primary one.          *)
HoldsAlone ==
    \A a \in Admins : admin[a].held # {} =>
        /\ \A b \in Admins : admin[b].held # {} => b = a
        /\ \A r \in Rows : Present(r) /\ rows[r].primary => r \in admin[a].held

Inv == Shape /\ HoldsItsRow /\ HoldsAlone /\ OnePrimary

LEMMA InvInit == Init => Inv
  BY DEF Init, Inv, Shape, HoldsItsRow, HoldsAlone, OnePrimary, Present, Confidence, Blank,
         NoRequest, RowType, RequestType, KnowsItsRow, Triages

(* What a step does to the rows, unless it creates one or makes one primary:  *)
(* no row comes back or changes its url, and none that is locked goes.        *)
Harmless ==
    /\ rows' \in [Rows -> RowType]
    /\ \A r \in Rows :
        /\ Present(r)' => Present(r) /\ rows'[r].url = rows[r].url
        /\ Present(r)' /\ rows'[r].primary => rows[r].primary
        /\ Present(r) /\ ~Unlocked(r) => Present(r)'
        /\ rows[r].conf = "none" <=> rows'[r].conf = "none"

(* What it does to the requests: at most one of them becomes one that holds   *)
(* nothing.                                                                   *)
Lets(a, q) ==
    /\ admin' = [admin EXCEPT ![a] = q]
    /\ q \in RequestType /\ q.held = {} /\ q.pc # "set"
    /\ KnowsItsRow(q)
    /\ q.pc = "clear" => q.row \in Rows /\ rows[q.row].conf # "none"

AdminLets == UNCHANGED admin \/ \E a \in Admins : \E q : Lets(a, q)

LEMMA LetsAre ==
  ASSUME Inv, AdminLets
  PROVE  /\ admin' \in [Admins -> RequestType]
         /\ \A b \in Admins :
               /\ KnowsItsRow(admin'[b])
               /\ \/ admin'[b] = admin[b]
                  \/ /\ admin'[b].held = {} /\ admin'[b].pc # "set"
                     /\ admin'[b].pc = "clear" =>
                           admin'[b].row \in Rows /\ rows[admin'[b].row].conf # "none"
  <1>1. CASE UNCHANGED admin
    BY <1>1 DEF Inv, Shape
  <1>2. ASSUME NEW a \in Admins, NEW q, Lets(a, q)
        PROVE  /\ admin' \in [Admins -> RequestType]
               /\ admin'[a] = q
               /\ \A b \in Admins \ {a} : admin'[b] = admin[b]
    BY <1>2 DEF Inv, Shape, Lets
  <1> QED  BY <1>1, <1>2 DEF Lets, AdminLets, Inv, Shape

LEMMA HarmlessInv ==
  ASSUME Inv, Harmless, AdminLets
  PROVE  Inv'
  <1>1. /\ admin' \in [Admins -> RequestType]
        /\ \A b \in Admins :
              /\ KnowsItsRow(admin'[b])
              /\ \/ admin'[b] = admin[b]
                 \/ /\ admin'[b].held = {} /\ admin'[b].pc # "set"
                    /\ admin'[b].pc = "clear" =>
                          admin'[b].row \in Rows /\ rows[admin'[b].row].conf # "none"
    BY LetsAre
  <1>2. \A b \in Admins : admin'[b].held = admin[b].held \/ admin'[b].held = {}
    BY <1>1
  <1>3. \A b \in Admins : admin[b].held \subseteq Rows
    BY DEF Inv, Shape, RequestType
  <1>4. \A b \in Admins : \A r \in admin[b].held : Present(r) /\ Present(r)'
    BY <1>3 DEF Inv, HoldsItsRow, Harmless, Unlocked
  <1>5. Shape'
    <2>1. \A a \in Admins : KnowsItsRow(admin[a])'
      BY <1>1 DEF KnowsItsRow
    <2> QED  BY <1>1, <2>1 DEF Shape, Harmless
  <1>6. OnePrimary'
    BY DEF Inv, OnePrimary, Harmless
  <1>7. HoldsAlone'
    BY <1>2, <1>3 DEF Inv, HoldsAlone, Harmless
  <1>8. ASSUME NEW a \in Admins
        PROVE  /\ admin'[a].pc \in {"clear", "set"} =>
                     admin'[a].row \in Rows /\ rows'[admin'[a].row].conf # "none"
               /\ admin'[a].pc = "set" /\ Present(admin[a].row)' => admin'[a].row \in admin'[a].held
               /\ \A r \in admin'[a].held : Present(r)'
               /\ admin'[a].pc # "set" => admin'[a].held = {}
    <2>1. CASE admin'[a] = admin[a]
      <3>1. admin[a].pc \in {"clear", "set"} => admin[a].row \in Rows
        BY DEF Inv, HoldsItsRow
      <3> QED  BY <1>4, <2>1, <3>1 DEF Inv, HoldsItsRow, Harmless
    <2>2. CASE admin'[a] # admin[a]
      BY <1>1, <2>2 DEF Harmless
    <2> QED  BY <2>1, <2>2
  <1>9. HoldsItsRow'
    BY <1>1, <1>8 DEF HoldsItsRow
  <1> QED  BY <1>5, <1>6, <1>7, <1>9 DEF Inv

LEMMA Still == ASSUME Inv, UNCHANGED rows PROVE Harmless
  BY DEF Inv, Shape, Harmless, Present

LEMMA ConfHarmless ==
  ASSUME Inv, NEW r \in Rows, Present(r), NEW c \in Confidence, SetConf(r, c)
  PROVE  Harmless
  <1>1. rows[r] \in RowType /\ [rows[r] EXCEPT !.conf = c] \in RowType
    BY DEF Inv, Shape, RowType
  <1>2. "none" \notin Confidence
    BY DEF Confidence
  <1>3. \A q \in Rows : rows'[q] = IF q = r THEN [rows[r] EXCEPT !.conf = c] ELSE rows[q]
    BY DEF Inv, Shape, SetConf
  <1>4. rows' \in [Rows -> RowType]
    BY <1>1 DEF Inv, Shape, SetConf
  <1> QED  BY <1>1, <1>2, <1>3, <1>4 DEF Harmless, Present, RowType

(* Every request but the three statements of a primary one.                   *)
LEMMA RequestLets ==
  ASSUME Inv, NEW a \in Admins, NEW pc \in {"audit", "extraction", "consensus"}, NEW r \in Rows,
         admin[a].pc \notin {"clear", "set"}
  PROVE  /\ Becomes(a, pc, r) => \E q : Lets(a, q)
         /\ Answered(a) => \E q : Lets(a, q)
  <1>1. admin[a] \in RequestType /\ admin[a].held = {}
    BY DEF Inv, Shape, HoldsItsRow
  <1>2. /\ [admin[a] EXCEPT !.pc = pc, !.row = r] \in RequestType
        /\ [admin[a] EXCEPT !.pc = pc, !.row = r].pc = pc
        /\ [admin[a] EXCEPT !.pc = pc, !.row = r].held = {}
    BY <1>1 DEF RequestType
  <1>3. NoRequest \in RequestType /\ NoRequest.pc = "idle" /\ NoRequest.held = {}
    BY DEF NoRequest, RequestType
  <1>4. [admin[a] EXCEPT !.pc = pc, !.row = r].row = r
    BY <1>1 DEF RequestType
  <1> QED  BY <1>2, <1>3, <1>4 DEF Lets, KnowsItsRow, Becomes, Answered

LEMMA AnsweredLets == ASSUME NEW a \in Admins, Answered(a) PROVE \E q : Lets(a, q)
  <1>1. NoRequest \in RequestType /\ NoRequest.pc = "idle" /\ NoRequest.held = {}
    BY DEF NoRequest, RequestType
  <1> QED  BY <1>1 DEF Lets, KnowsItsRow, Answered

HarmlessStep == Harmless /\ AdminLets

LEMMA WorkersHarmless ==
  ASSUME Inv, AuditTyped,
         \/ SearchNext /\ ~Insert
         \/ AuditNext \/ ExtractNext \/ RunConsensus \/ (\E r \in Rows : Forget(r))
         \/ UNCHANGED vars \/ UNCHANGED pipelineVars
  PROVE  HarmlessStep
  <1>1. CASE UNCHANGED <<rows, admin>>
    BY <1>1, Still DEF HarmlessStep, AdminLets
  <1>2. CASE SearchNext /\ ~Insert
    BY <1>1, <1>2 DEF SearchNext, SearchStart, LookUp, ListAudits, AddAudit, ListAutos, AddAuto,
                      SearchFails
  <1>3. ASSUME NEW r \in Rows, AuditAsk(r) \/ AuditSkips(r) \/ AuditWrite(r) \/ AuditFails(r)
        PROVE  HarmlessStep
    <2>1. CASE AuditWrite(r) /\ Present(r)
      <3>1. Decided[audit[r].verdict] \in Confidence
        BY <2>1 DEF AuditWrite, AuditTyped, Decided, Confidence
      <3> QED  BY <2>1, <3>1, ConfHarmless DEF AuditWrite, HarmlessStep, AdminLets
    <2>2. CASE AuditWrite(r) /\ ~Present(r)
      BY <1>1, <2>2 DEF AuditWrite
    <2>3. CASE AuditAsk(r) \/ AuditSkips(r) \/ AuditFails(r)
      BY <1>1, <2>3 DEF AuditAsk, AuditSkips, AuditFails
    <2> QED  BY <1>3, <2>1, <2>2, <2>3
  <1>4. ASSUME NEW r \in Rows, Specified(r) PROVE HarmlessStep
    <2>1. rows[r] \in RowType /\ [rows[r] EXCEPT !.specs = TRUE] \in RowType
      BY DEF Inv, Shape, RowType
    <2>2. CASE Present(r)
      <3>1. \A q \in Rows : rows'[q] = IF q = r THEN [rows[r] EXCEPT !.specs = TRUE] ELSE rows[q]
        BY <1>4, <2>2 DEF Inv, Shape, Specified
      <3>2. rows' \in [Rows -> RowType]
        BY <1>4, <2>1, <2>2 DEF Inv, Shape, Specified
      <3>3. Harmless
        BY <2>1, <3>1, <3>2 DEF Harmless, Present, RowType
      <3> QED  BY <1>4, <3>3 DEF Specified, HarmlessStep, AdminLets
    <2>3. CASE ~Present(r)
      BY <1>1, <1>4, <2>3 DEF Specified
    <2> QED  BY <2>2, <2>3
  <1>5. ASSUME NEW r \in Rows,
               \/ ExtractLoad(r) \/ Fetched(r) \/ NotFetched(r) \/ NothingFound(r)
               \/ ExtractTriggers(r) \/ ExtractFails(r) \/ Forget(r)
        PROVE  HarmlessStep
    BY <1>1, <1>5 DEF ExtractLoad, Fetched, NotFetched, NothingFound, ExtractTriggers,
                      ExtractFails, Forget
  <1>6. CASE UNCHANGED vars \/ RunConsensus \/ UNCHANGED pipelineVars
    BY <1>1, <1>6 DEF vars, RunConsensus, pipelineVars
  <1> QED  BY <1>2, <1>3, <1>4, <1>5, <1>6 DEF AuditNext, ExtractNext

LEMMA AdminHarmless ==
  ASSUME Inv, NEW a \in Admins,
         \/ HandsOverAudit(a) \/ PatchWrite(a) \/ HandsOverExtraction(a) \/ HandsOverConsensus(a)
         \/ AdminFails(a)
         \/ \E u \in Urls : CreateLookUp(a, u)
         \/ \E r \in Rows :
             \/ PatchRead(a, r)
             \/ ReviewConfirm(a, r) \/ ReviewReject(a, r) \/ PrimaryRead(a, r)
             \/ ExtractRequest(a, r) \/ Delete(a, r)
  PROVE  HarmlessStep
  <1>1. admin[a] \in RequestType
    BY DEF Inv, Shape
  <1>2. CASE PatchWrite(a)
    <2>1. admin[a].row \in Rows /\ admin[a].conf \in Confidence
      BY <1>2 DEF PatchWrite, Inv, Shape, KnowsItsRow
    <2>2. Harmless
      BY <1>2, <2>1, ConfHarmless, Still DEF PatchWrite
    <2>3. \/ Answered(a)
          \/ \E pc \in {"extraction", "consensus"} : Becomes(a, pc, admin[a].row)
      BY <1>2 DEF PatchWrite, AfterConfirm
    <2>4. admin[a].pc = "patch"
      BY <1>2 DEF PatchWrite
    <2>5. \E q : Lets(a, q)
      BY <2>1, <2>3, <2>4, RequestLets
    <2> QED  BY <2>2, <2>5 DEF HarmlessStep, AdminLets
  <1>3. CASE HandsOverAudit(a) \/ HandsOverExtraction(a) \/ HandsOverConsensus(a) \/ AdminFails(a)
    BY <1>3, Still, AnsweredLets
       DEF HandsOverAudit, HandsOverExtraction, HandsOverConsensus, AdminFails, HarmlessStep, AdminLets
  <1>4. ASSUME NEW r \in Rows, PatchRead(a, r) PROVE HarmlessStep
    <2>0. PICK c \in MayBecome(rows[r].conf) :
             admin' = [admin EXCEPT ![a] = [@ EXCEPT !.pc = "patch", !.row = r, !.conf = c]]
      BY <1>4 DEF PatchRead
    <2> DEFINE q == [admin[a] EXCEPT !.pc = "patch", !.row = r, !.conf = c]
    <2>1. admin[a].pc = "idle" /\ admin[a].held = {}
      BY <1>4 DEF PatchRead, Asks, Inv, HoldsItsRow
    <2>4. c \in Confidence
      BY <1>4, <2>0 DEF PatchRead, Present, MayBecome, Confidence
    <2>2. q \in RequestType /\ q.pc = "patch" /\ q.row = r /\ q.conf = c /\ q.held = {}
      BY <1>1, <2>1, <2>4 DEF RequestType
    <2>3. Lets(a, q)
      BY <2>0, <2>2, <2>4 DEF Lets, KnowsItsRow
    <2> QED  BY <1>4, <2>3, Still DEF PatchRead, HarmlessStep, AdminLets
  <1>5. ASSUME NEW r \in Rows, ReviewConfirm(a, r) PROVE HarmlessStep
    BY <1>5, ConfHarmless, RequestLets DEF ReviewConfirm, Asks, Confidence, HarmlessStep, AdminLets
  <1>6. ASSUME NEW r \in Rows, ReviewReject(a, r) PROVE HarmlessStep
    BY <1>6, ConfHarmless DEF ReviewReject, Confidence, HarmlessStep, AdminLets
  <1>7. ASSUME NEW r \in Rows, PrimaryRead(a, r) PROVE HarmlessStep
    <2> DEFINE q == [admin[a] EXCEPT !.pc = "clear", !.row = r]
    <2>1. admin[a].pc = "idle" /\ admin[a].held = {} /\ rows[r].conf # "none"
      BY <1>7 DEF PrimaryRead, Asks, Inv, HoldsItsRow
    <2>2. q \in RequestType /\ q.pc = "clear" /\ q.row = r /\ q.held = {}
      BY <1>1, <2>1 DEF RequestType
    <2>3. Lets(a, q)
      BY <1>7, <2>1, <2>2 DEF PrimaryRead, Becomes, Lets, KnowsItsRow
    <2> QED  BY <1>7, <2>3, Still DEF PrimaryRead, HarmlessStep, AdminLets
  <1>8. ASSUME NEW r \in Rows, ExtractRequest(a, r) PROVE HarmlessStep
    BY <1>8, Still DEF ExtractRequest, HarmlessStep, AdminLets
  <1>9. ASSUME NEW r \in Rows, Delete(a, r) PROVE HarmlessStep
    <2> DEFINE gone == [Blank EXCEPT !.url = rows[r].url, !.conf = "gone"]
    <2>1. gone \in RowType /\ gone.conf = "gone" /\ rows[r].conf # "none" /\ "gone" \notin Confidence
      BY <1>9 DEF Delete, Inv, Shape, RowType, Blank, Present, Confidence
    <2>2. \A q \in Rows : rows'[q] = IF q = r THEN gone ELSE rows[q]
      BY <1>9 DEF Delete, Inv, Shape
    <2>3. rows' \in [Rows -> RowType]
      BY <1>9, <2>1 DEF Delete, Inv, Shape
    <2>4. Unlocked(r)
      BY <1>9 DEF Delete
    <2>5. Harmless
      BY <2>1, <2>2, <2>3, <2>4 DEF Harmless, Present
    <2> QED  BY <1>9, <2>5 DEF Delete, HarmlessStep, AdminLets
  <1>10. ASSUME NEW u \in Urls, CreateLookUp(a, u) PROVE HarmlessStep
    <2>0. PICK triage \in Triages :
             admin' = [admin EXCEPT ![a] = [@ EXCEPT !.pc = "insert", !.url = u, !.triage = triage]]
      BY <1>10 DEF CreateLookUp
    <2> DEFINE q == [admin[a] EXCEPT !.pc = "insert", !.url = u, !.triage = triage]
    <2>1. admin[a].pc = "idle" /\ admin[a].held = {}
      BY <1>10 DEF CreateLookUp, Asks, Inv, HoldsItsRow
    <2>2. q \in RequestType /\ q.pc = "insert" /\ q.url = u /\ q.triage = triage /\ q.held = {}
      BY <1>1, <2>1 DEF RequestType
    <2>3. Lets(a, q)
      BY <2>0, <2>2 DEF Lets, KnowsItsRow
    <2> QED  BY <1>10, <2>3, Still DEF CreateLookUp, HarmlessStep, AdminLets
  <1> QED  BY <1>2, <1>3, <1>4, <1>5, <1>6, <1>7, <1>8, <1>9, <1>10

----------------------------------------------------------------------------
(* At most one primary source.                                                *)

(* Whoever creates a row.                                                     *)
Creates(r, u, triage) ==
    /\ r \in Fresh /\ u \in Urls /\ triage \in Triages
    /\ rows' = [rows EXCEPT ![r] = Match(u, triage)]

LEMMA WhoCreates ==
  ASSUME Inv, SearchTyped
  PROVE  /\ Insert => \E r : Creates(r, search.url, search.todo[search.url]) /\ AdminLets
         /\ \A a \in Admins : \A r \in Rows :
               CreateInsert(a, r) => Creates(r, admin[a].url, admin[a].triage) /\ AdminLets
  <1>1. ASSUME Insert
        PROVE  \E r : Creates(r, search.url, search.todo[search.url]) /\ AdminLets
    <2>1. search.url \in Urls /\ search.todo[search.url] \in Triages
      BY <1>1, FoundIs DEF Insert, SearchTyped, SearchType
    <2> QED  BY <1>1, <2>1 DEF Insert, Creates, AdminLets
  <1>2. ASSUME NEW a \in Admins, NEW r \in Rows, CreateInsert(a, r)
        PROVE  Creates(r, admin[a].url, admin[a].triage) /\ AdminLets
    <2>1. admin[a].pc = "insert" /\ admin[a].url \in Urls /\ admin[a].triage \in Triages
      BY <1>2 DEF CreateInsert, Inv, Shape, KnowsItsRow
    <2>2. Becomes(a, "audit", r) \/ Answered(a)
      BY <1>2 DEF CreateInsert
    <2>3. \E q : Lets(a, q)
      BY <2>1, <2>2, RequestLets
    <2> QED  BY <1>2, <2>1, <2>3 DEF CreateInsert, Creates, AdminLets
  <1> QED  BY <1>1, <1>2

(* A new row is not primary, and nobody holds it.                             *)
LEMMA CreateInv ==
  ASSUME Inv, NEW r, NEW u, NEW triage, Creates(r, u, triage), AdminLets
  PROVE  Inv'
  <1> DEFINE new == Match(u, triage)
  <1>1. r \in Rows /\ rows[r].conf = "none" /\ ~Present(r)
    BY DEF Creates, Fresh, Present, Confidence
  <1>2. new \in RowType /\ new.primary = FALSE /\ new.conf # "none"
    BY DEF Creates, Match, RowType, Confidence
  <1>3. /\ rows' \in [Rows -> RowType]
        /\ rows'[r] = new
        /\ \A q \in Rows \ {r} : rows'[q] = rows[q]
    BY <1>1, <1>2 DEF Inv, Shape, Creates
  <1>4. /\ admin' \in [Admins -> RequestType]
        /\ \A b \in Admins :
              /\ KnowsItsRow(admin'[b])
              /\ \/ admin'[b] = admin[b]
                 \/ /\ admin'[b].held = {} /\ admin'[b].pc # "set"
                    /\ admin'[b].pc = "clear" =>
                          admin'[b].row \in Rows /\ rows[admin'[b].row].conf # "none"
    BY LetsAre
  <1>5. \A b \in Admins :
           /\ admin'[b].held \in {admin[b].held, {}}
           /\ r \notin admin[b].held /\ admin[b].held \subseteq Rows
    BY <1>1, <1>4 DEF Inv, Shape, HoldsItsRow, RequestType
  <1>6. \A q \in Rows \ {r} : Present(q)' <=> Present(q)
    BY <1>3 DEF Present
  <1>7. Shape'
    <2>1. \A a \in Admins : KnowsItsRow(admin[a])'
      BY <1>4 DEF KnowsItsRow
    <2> QED  BY <1>3, <1>4, <2>1 DEF Shape
  <1>8. HoldsItsRow'
    <2>1. ASSUME NEW a \in Admins
          PROVE  /\ admin'[a].pc \in {"clear", "set"} =>
                       admin'[a].row \in Rows /\ rows'[admin'[a].row].conf # "none"
                 /\ admin'[a].pc = "set" /\ Present(admin[a].row)' => admin'[a].row \in admin'[a].held
                 /\ \A q \in admin'[a].held : Present(q)'
                 /\ admin'[a].pc # "set" => admin'[a].held = {}
      <3>1. CASE admin'[a] = admin[a]
        <4>1. admin[a].pc \in {"clear", "set"} => admin[a].row \in Rows \ {r}
          BY <1>1 DEF Inv, HoldsItsRow
        <4> QED  BY <1>3, <1>5, <1>6, <3>1, <4>1 DEF Inv, HoldsItsRow
      <3>2. CASE admin'[a] # admin[a]
        <4>1. \A q \in Rows : rows[q].conf # "none" => rows'[q].conf # "none"
          BY <1>1, <1>3
        <4> QED  BY <1>4, <3>2, <4>1
      <3> QED  BY <3>1, <3>2
    <2> QED  BY <2>1 DEF HoldsItsRow
  <1>9. HoldsAlone' /\ OnePrimary'
    BY <1>2, <1>3, <1>5, <1>6 DEF Inv, HoldsAlone, OnePrimary
  <1> QED  BY <1>7, <1>8, <1>9 DEF Inv

(* The clear waits until no row is locked, and locks them all.                *)
LEMMA ClearInv ==
  ASSUME Inv, NEW a \in Admins, PrimaryClear(a)
  PROVE  Inv'
  <1> DEFINE q == [admin[a] EXCEPT !.pc = "set", !.held = Cleared]
  <1>1. /\ admin[a] \in RequestType /\ admin[a].pc = "clear"
        /\ admin[a].row \in Rows /\ rows[admin[a].row].conf # "none"
    BY DEF PrimaryClear, Inv, Shape, HoldsItsRow
  <1>2. q \in RequestType /\ q.pc = "set" /\ q.held = Cleared /\ q.row = admin[a].row
    BY <1>1 DEF RequestType, Cleared
  <1>3. /\ admin' \in [Admins -> RequestType] /\ admin'[a] = q
        /\ \A b \in Admins \ {a} : admin'[b] = admin[b]
        /\ UNCHANGED rows
    BY <1>2 DEF PrimaryClear, Inv, Shape
  <1>4. \A b \in Admins : admin[b].held = {}
    <2>1. ASSUME NEW b \in Admins, NEW r \in admin[b].held PROVE FALSE
      <3>1. r \in Cleared
        BY <2>1 DEF Inv, Shape, HoldsItsRow, RequestType, Cleared
      <3> QED  BY <2>1, <3>1 DEF PrimaryClear, Unlocked
    <2> QED  BY <2>1
  <1>5. Shape' /\ OnePrimary'
    <2>1. \A b \in Admins : KnowsItsRow(admin[b])'
      BY <1>2, <1>3 DEF Inv, Shape, KnowsItsRow
    <2> QED  BY <1>3, <2>1 DEF Inv, Shape, OnePrimary, Present
  <1>6. HoldsItsRow'
    BY <1>1, <1>2, <1>3, <1>4 DEF Inv, HoldsItsRow, Cleared, Present
  <1>7. HoldsAlone'
    BY <1>2, <1>3, <1>4 DEF HoldsAlone, Cleared, Present
  <1> QED  BY <1>5, <1>6, <1>7 DEF Inv

(* The set makes its row primary while it holds every other one that was.     *)
LEMMA SetInv ==
  ASSUME Inv, NEW a \in Admins, PrimarySet(a)
  PROVE  Inv'
  <1> DEFINE w == admin[a].row
  <1>1. /\ w \in Rows /\ rows[w].conf # "none"
        /\ Present(w) => w \in admin[a].held
        /\ admin[a].held \subseteq Rows /\ \A r \in admin[a].held : Present(r)
    BY DEF PrimarySet, Inv, Shape, HoldsItsRow, RequestType
  <1>2. \A r \in Rows :
           rows'[r] = IF r = w /\ Present(r) THEN [rows[r] EXCEPT !.primary = TRUE]
                      ELSE IF r \in admin[a].held THEN [rows[r] EXCEPT !.primary = FALSE]
                      ELSE rows[r]
    BY DEF PrimarySet
  <1>3. \A r \in Rows : rows[r] \in RowType
    BY DEF Inv, Shape
  <1>4. \A r \in Rows : /\ rows'[r] \in RowType
                        /\ rows'[r].conf = rows[r].conf
                        /\ Present(r)' <=> Present(r)
                        /\ r = w /\ Present(r) => rows'[r].primary
                        /\ r # w /\ r \in admin[a].held => ~rows'[r].primary
                        /\ r \notin admin[a].held => rows'[r].primary = rows[r].primary
    <2>1. ASSUME NEW r \in Rows, NEW b \in BOOLEAN
          PROVE  /\ [rows[r] EXCEPT !.primary = b] \in RowType
                 /\ [rows[r] EXCEPT !.primary = b].conf = rows[r].conf
                 /\ [rows[r] EXCEPT !.primary = b].primary = b
      BY <1>3 DEF RowType
    <2>2. \A r \in Rows : rows'[r] \in RowType /\ rows'[r].conf = rows[r].conf
      BY <1>2, <1>3, <2>1
    <2>3. \A r \in Rows : Present(r)' <=> Present(r)
      BY <2>2 DEF Present
    <2>4. \A r \in Rows : /\ r = w /\ Present(r) => rows'[r].primary
                          /\ r # w /\ r \in admin[a].held => ~rows'[r].primary
      BY <1>2, <2>1
    <2>5. \A r \in Rows : r \notin admin[a].held => rows'[r] = rows[r]
      BY <1>1, <1>2
    <2> QED  BY <2>2, <2>3, <2>4, <2>5
  <1>5. rows' \in [Rows -> RowType]
    <2>1. rows' = [r \in Rows |-> rows'[r]]
      BY DEF PrimarySet
    <2> QED  BY <1>4, <2>1
  <1>6. /\ admin' \in [Admins -> RequestType]
        /\ admin'[a].pc = "idle" /\ admin'[a].held = {}
        /\ \A b \in Admins \ {a} : admin'[b] = admin[b]
    <2>1. NoRequest \in RequestType /\ NoRequest.pc = "idle" /\ NoRequest.held = {}
      BY DEF NoRequest, RequestType
    <2> QED  BY <2>1 DEF PrimarySet, Answered, Inv, Shape
  <1>7. Shape'
    <2>1. \A b \in Admins : KnowsItsRow(admin[b])'
      BY <1>6 DEF Inv, Shape, KnowsItsRow
    <2> QED  BY <1>5, <1>6, <2>1 DEF Shape
  <1>8. HoldsItsRow'
    <2>1. ASSUME NEW b \in Admins \ {a}
          PROVE  /\ admin[b].pc \in {"clear", "set"} =>
                       admin[b].row \in Rows /\ rows'[admin[b].row].conf # "none"
                 /\ admin[b].pc = "set" /\ Present(admin[b].row)' => admin[b].row \in admin[b].held
                 /\ \A r \in admin[b].held : Present(r)'
                 /\ admin[b].pc # "set" => admin[b].held = {}
      <3>1. admin[b].held \subseteq Rows
        BY DEF Inv, Shape, RequestType
      <3>2. admin'[b] = admin[b]
        BY <1>6
      <3> QED  BY <1>4, <3>1, <3>2 DEF Inv, HoldsItsRow
    <2> QED  BY <1>6, <2>1 DEF HoldsItsRow
  <1>9. CASE admin[a].held = {}
    <2>1. \A r \in Rows : rows'[r].primary = rows[r].primary
      BY <1>4, <1>9
    <2>2. HoldsAlone' /\ OnePrimary'
      BY <1>4, <1>6, <2>1 DEF Inv, HoldsAlone, OnePrimary
    <2> QED  BY <1>7, <1>8, <2>2 DEF Inv
  <1>10. CASE admin[a].held # {}
    <2>1. \A b \in Admins : admin'[b].held = {}
      BY <1>6, <1>10 DEF Inv, HoldsAlone
    <2>2. \A r \in Rows : Present(r)' /\ rows'[r].primary => r = w
      BY <1>4, <1>10 DEF Inv, HoldsAlone
    <2>3. HoldsAlone' /\ OnePrimary'
      BY <2>1, <2>2 DEF HoldsAlone, OnePrimary
    <2> QED  BY <1>7, <1>8, <2>3 DEF Inv
  <1> QED  BY <1>9, <1>10

(* Every step is harmless, creates a row, or is one of the two statements.    *)
LEMMA StepIs ==
  ASSUME Inv, SearchTyped, AuditTyped, [Next]_vars
  PROVE  \/ HarmlessStep
         \/ Insert
         \/ \E a \in Admins : \E r \in Rows : CreateInsert(a, r)
         \/ \E a \in Admins : PrimaryClear(a) \/ PrimarySet(a)
  BY WorkersHarmless, AdminHarmless DEF Next, AdminNext

LEMMA InvInvariant == Spec => []Inv
  <1>1. Inv /\ AuditTyped /\ SearchTyped /\ [Next]_vars => Inv'
    BY StepIs, HarmlessInv, WhoCreates, CreateInv, ClearInv, SetInv DEF HarmlessStep
  <1> QED  BY InvInit, <1>1, SearchTypedInvariant, AuditTypedInvariant, PTL DEF Spec

(* However requests, audits, inserts and deletes come in between the two      *)
(* statements of a PATCH /primary, a product has at most one primary source:  *)
(* the first locks every row until the commit of the second.                  *)
THEOREM OnePrimarySource == Spec => []OnePrimary
  <1>1. Inv => OnePrimary
    BY DEF Inv
  <1> QED  BY InvInvariant, <1>1, PTL

----------------------------------------------------------------------------
(* A url is matched once, unless two were about to insert it.                 *)

SearchAt(u) == search.pc = "insert" /\ search.url = u
AdminAt(a, u) == admin[a].pc = "insert" /\ admin[a].url = u

(* Whoever is between the two statements for a url that nobody else is about  *)
(* to insert is alone there, and the url has no row.                          *)
InsertsAlone(u) ==
    /\ Inserting(u) => ~KnownUrl(u)
    /\ SearchAt(u) => \A a \in Admins : ~AdminAt(a, u)
    /\ \A a, b \in Admins : AdminAt(a, u) /\ AdminAt(b, u) => a = b

UrlInv ==
    /\ UrlsAreUnique
    /\ overlapped \subseteq Urls
    /\ \A u \in Urls \ overlapped : InsertsAlone(u)

LEMMA UrlInvInit == Init => UrlInv
  BY DEF Init, UrlInv, UrlsAreUnique, InsertsAlone, Inserting, SearchAt, AdminAt, Present,
         Confidence, Blank, NoSearch, NoRequest

(* Nobody gets between the two statements but by a look-up.                   *)
NobodyComes ==
    /\ \A u \in Urls : SearchAt(u)' => SearchAt(u)
    /\ \A a \in Admins : \A u \in Urls : AdminAt(a, u)' => AdminAt(a, u)
    /\ UNCHANGED overlapped

LooksUp == LookUp \/ \E a \in Admins : \E u \in Urls : CreateLookUp(a, u)

LEMMA InsertGoes == ASSUME SearchTyped, Insert PROVE search'.pc # "insert"
  <1> DEFINE triage == search.todo[search.url]
  <1>1. search' = [search EXCEPT !.pc = "rows", !.url = None,
                                 !.todo = Without(search.todo, search.url),
                                 !.audits = search.audits \/ triage = "ai_audit",
                                 !.autos = search.autos \/ triage = "auto_approve"]
    BY DEF Insert
  <1> HIDE DEF triage
  <1> QED  BY <1>1 DEF SearchTyped, SearchType

LEMMA SearchComes ==
  ASSUME SearchTyped, SearchNext, ~LookUp
  PROVE  NobodyComes
  <1>1. NoSearch.pc = "idle" /\ search \in SearchType
    BY DEF NoSearch, SearchTyped
  <1>2. UNCHANGED <<admin, overlapped>>
    BY DEF SearchNext, SearchStart, Insert, ListAudits, AddAudit, ListAutos, AddAuto, SearchFails
  <1>3. search'.pc # "insert"
    <2>1. CASE SearchStart
      <3>1. PICK found \in SUBSET Urls : \E triage \in [found -> Triages] :
               search' = [NoSearch EXCEPT !.pc = "rows", !.attempt = search.attempt + 1,
                                          !.todo = triage]
        BY <2>1 DEF SearchStart
      <3> QED  BY <3>1 DEF NoSearch
    <2>7. CASE SearchFails
      BY <2>7 DEF SearchFails, NoSearch
    <2>2. CASE Insert
      BY <2>2, InsertGoes
    <2>6. CASE ListAudits
      BY <1>1, <2>6 DEF ListAudits, SearchType
    <2>3. CASE AddAudit
      <3>1. PICK r \in search.list : search' = [search EXCEPT !.list = @ \ {r}]
        BY <2>3 DEF AddAudit
      <3>2. search.pc = "audits"
        BY <2>3 DEF AddAudit
      <3> QED  BY <1>1, <3>1, <3>2 DEF SearchType
    <2>4. CASE ListAutos
      <3>1. search' = [search EXCEPT !.pc = "autos", !.list = AutoList] \/ search' = NoSearch
        BY <2>4 DEF ListAutos
      <3> QED  BY <1>1, <3>1 DEF SearchType
    <2>5. CASE AddAuto
      <3>1. PICK r \in search.list : search' = NoSearch \/ search' = [search EXCEPT !.list = @ \ {r}]
        BY <2>5 DEF AddAuto
      <3>2. search.pc = "autos"
        BY <2>5 DEF AddAuto
      <3> QED  BY <1>1, <3>1, <3>2 DEF SearchType
    <2> QED  BY <2>1, <2>2, <2>3, <2>4, <2>5, <2>6, <2>7 DEF SearchNext
  <1> QED  BY <1>2, <1>3 DEF NobodyComes, SearchAt, AdminAt

LEMMA AdminComes ==
  ASSUME Inv, AdminNext, ~LooksUp
  PROVE  NobodyComes
  <1>1. UNCHANGED search
    BY AdminLeaves
  <1>2. admin \in [Admins -> RequestType]
    BY DEF Inv, Shape
  <1>3. ASSUME NEW a \in Admins, NEW q, q.pc # "insert", admin' = [admin EXCEPT ![a] = q],
               UNCHANGED overlapped
        PROVE  NobodyComes
    BY <1>1, <1>2, <1>3 DEF NobodyComes, SearchAt, AdminAt
  <1>4. ASSUME UNCHANGED <<admin, overlapped>> PROVE NobodyComes
    BY <1>1, <1>4 DEF NobodyComes, SearchAt, AdminAt
  <1>5. ASSUME NEW a \in Admins, Answered(a), UNCHANGED overlapped PROVE NobodyComes
    BY <1>3, <1>5 DEF Answered, NoRequest
  <1>6. ASSUME NEW a \in Admins, NEW r, NEW pc \in {"audit", "extraction", "consensus", "clear"},
               Becomes(a, pc, r), UNCHANGED overlapped
        PROVE  NobodyComes
    <2>1. admin[a] \in RequestType
      BY <1>2
    <2>2. [admin[a] EXCEPT !.pc = pc, !.row = r].pc = pc
      BY <2>1 DEF RequestType
    <2> QED  BY <1>3, <1>6, <2>2 DEF Becomes
  <1>7. PICK a \in Admins :
           \/ HandsOverAudit(a)
           \/ PatchWrite(a) \/ HandsOverExtraction(a) \/ HandsOverConsensus(a)
           \/ PrimaryClear(a) \/ PrimarySet(a) \/ AdminFails(a)
           \/ \E r \in Rows :
               \/ CreateInsert(a, r)
               \/ PatchRead(a, r)
               \/ ReviewConfirm(a, r) \/ ReviewReject(a, r) \/ PrimaryRead(a, r)
               \/ ExtractRequest(a, r) \/ Delete(a, r)
    BY DEF AdminNext, LooksUp
  <1>8. CASE HandsOverAudit(a) \/ HandsOverExtraction(a) \/ HandsOverConsensus(a)
             \/ PrimarySet(a) \/ AdminFails(a)
    BY <1>5, <1>8 DEF HandsOverAudit, HandsOverExtraction, HandsOverConsensus, PrimarySet, AdminFails
  <1>9. CASE PatchWrite(a)
    <2>1. \/ Answered(a)
          \/ \E pc \in {"extraction", "consensus"} : Becomes(a, pc, admin[a].row)
      BY <1>9 DEF PatchWrite, AfterConfirm
    <2> QED  BY <1>5, <1>6, <1>9, <2>1 DEF PatchWrite
  <1>10. CASE PrimaryClear(a)
    <2>1. admin[a] \in RequestType
      BY <1>2
    <2>2. [admin[a] EXCEPT !.pc = "set", !.held = Cleared].pc = "set"
      BY <2>1 DEF RequestType
    <2> QED  BY <1>3, <1>10, <2>2 DEF PrimaryClear
  <1>11. ASSUME NEW r \in Rows, CreateInsert(a, r) PROVE NobodyComes
    BY <1>5, <1>6, <1>11 DEF CreateInsert
  <1>12. ASSUME NEW r \in Rows, PatchRead(a, r) PROVE NobodyComes
    <2>0. PICK c \in MayBecome(rows[r].conf) :
             admin' = [admin EXCEPT ![a] = [@ EXCEPT !.pc = "patch", !.row = r, !.conf = c]]
      BY <1>12 DEF PatchRead
    <2>1. admin[a] \in RequestType
      BY <1>2
    <2>2. [admin[a] EXCEPT !.pc = "patch", !.row = r, !.conf = c].pc = "patch"
      BY <2>1 DEF RequestType
    <2> QED  BY <1>3, <1>12, <2>0, <2>2 DEF PatchRead
  <1>13. ASSUME NEW r \in Rows, ReviewConfirm(a, r) \/ PrimaryRead(a, r) PROVE NobodyComes
    BY <1>6, <1>13 DEF ReviewConfirm, PrimaryRead
  <1>14. ASSUME NEW r \in Rows, ReviewReject(a, r) \/ ExtractRequest(a, r) \/ Delete(a, r)
         PROVE  NobodyComes
    BY <1>4, <1>14 DEF ReviewReject, ExtractRequest, Delete
  <1> QED  BY <1>7, <1>8, <1>9, <1>10, <1>11, <1>12, <1>13, <1>14

LEMMA OthersCome ==
  ASSUME AuditNext \/ ExtractNext \/ RunConsensus \/ (\E r \in Rows : Forget(r))
         \/ UNCHANGED vars \/ UNCHANGED pipelineVars
  PROVE  NobodyComes
  <1>1. ASSUME UNCHANGED <<search, admin, overlapped>> PROVE NobodyComes
    BY <1>1 DEF NobodyComes, SearchAt, AdminAt
  <1>2. CASE AuditNext
    BY <1>1, <1>2 DEF AuditNext, AuditAsk, AuditSkips, AuditWrite, AuditFails
  <1>3. CASE ExtractNext
    BY <1>1, <1>3 DEF ExtractNext, ExtractLoad, Fetched, NotFetched, Specified, NothingFound,
                      ExtractTriggers, ExtractFails
  <1>4. CASE RunConsensus \/ (\E r \in Rows : Forget(r)) \/ UNCHANGED vars \/ UNCHANGED pipelineVars
    BY <1>1, <1>4 DEF RunConsensus, Forget, vars, pipelineVars
  <1> QED  BY <1>2, <1>3, <1>4

(* No row comes back, or changes its url.                                     *)
RowsStay == \A r \in Rows : Present(r)' => Present(r) /\ rows'[r].url = rows[r].url

LEMMA SetStays ==
  ASSUME Inv, NEW a \in Admins, PrimaryClear(a) \/ PrimarySet(a)
  PROVE  RowsStay
  <1>1. CASE PrimaryClear(a)
    BY <1>1 DEF PrimaryClear, RowsStay, Present
  <1>2. CASE PrimarySet(a)
    <2>1. \A r \in Rows : rows[r] \in RowType
      BY DEF Inv, Shape
    <2>2. \A r \in Rows : \/ \E b \in BOOLEAN : rows'[r] = [rows[r] EXCEPT !.primary = b]
                          \/ rows'[r] = rows[r]
      BY <1>2 DEF PrimarySet
    <2>3. \A r \in Rows : rows'[r].conf = rows[r].conf /\ rows'[r].url = rows[r].url
      BY <2>1, <2>2 DEF RowType
    <2> QED  BY <2>3 DEF RowsStay, Present
  <1> QED  BY <1>1, <1>2

LEMMA QuietUrlInv ==
  ASSUME UrlInv, RowsStay, NobodyComes
  PROVE  UrlInv'
  <1>1. \A u \in Urls : (KnownUrl(u)' => KnownUrl(u)) /\ (Inserting(u)' => Inserting(u))
    BY DEF RowsStay, KnownUrl, Inserting, NobodyComes, SearchAt, AdminAt
  <1>2. ASSUME NEW u \in Urls, u \notin overlapped'
        PROVE  InsertsAlone(u)'
    <2>1. u \notin overlapped /\ InsertsAlone(u)
      BY <1>2 DEF UrlInv, NobodyComes
    <2> QED  BY <1>1, <2>1 DEF InsertsAlone, NobodyComes
  <1>3. UrlsAreUnique'
    BY DEF UrlInv, UrlsAreUnique, RowsStay, NobodyComes
  <1> QED  BY <1>2, <1>3 DEF UrlInv, NobodyComes

(* A look-up that finds somebody else at the same url says so.                *)
LEMMA LookUpUrlInv ==
  ASSUME UrlInv, SearchTyped, Inv, LooksUp
  PROVE  UrlInv'
  <1>1. UNCHANGED rows
    BY DEF LooksUp, LookUp, CreateLookUp
  <1>2. CASE LookUp
    <2>1. PICK u \in DOMAIN search.todo :
             \/ search' = [search EXCEPT !.todo = Without(@, u)] /\ UNCHANGED overlapped
             \/ /\ ~KnownUrl(u)
                /\ search' = [search EXCEPT !.pc = "insert", !.url = u]
                /\ overlapped' = Meets(u)
      BY <1>2 DEF LookUp
    <2>2. u \in Urls /\ search.pc = "rows" /\ search \in SearchType /\ UNCHANGED admin
      BY <1>2, FoundIs DEF LookUp, SearchTyped, SearchType
    <2>3. CASE search' = [search EXCEPT !.todo = Without(@, u)] /\ UNCHANGED overlapped
      <3>1. search'.pc = "rows"
        BY <2>2, <2>3 DEF SearchType
      <3>2. NobodyComes
        BY <2>2, <2>3, <3>1 DEF NobodyComes, SearchAt, AdminAt
      <3> QED  BY <1>1, <3>2, QuietUrlInv DEF RowsStay, Present
    <2>4. CASE /\ ~KnownUrl(u)
               /\ search' = [search EXCEPT !.pc = "insert", !.url = u]
               /\ overlapped' = Meets(u)
      <3>1. search'.pc = "insert" /\ search'.url = u
        BY <2>2, <2>4 DEF SearchType
      <3>2. overlapped \subseteq overlapped' /\ overlapped' \subseteq Urls
        BY <2>2, <2>4 DEF Meets, UrlInv
      <3>3. ASSUME NEW v \in Urls \ overlapped' PROVE InsertsAlone(v)'
        <4>1. InsertsAlone(v)
          BY <3>2, <3>3 DEF UrlInv
        <4>2. CASE v = u
          <5>1. ~Inserting(u)
            BY <2>4, <3>3, <4>2 DEF Meets
          <5>2. \A a \in Admins : ~AdminAt(a, u)'
            BY <2>2, <5>1 DEF Inserting, AdminAt
          <5>3. ~KnownUrl(u)'
            BY <1>1, <2>4 DEF KnownUrl, Present
          <5> QED  BY <4>2, <5>2, <5>3 DEF InsertsAlone
        <4>3. CASE v # u
          <5>1. ~SearchAt(v)' /\ (KnownUrl(v)' <=> KnownUrl(v))
            BY <1>1, <3>1, <4>3 DEF SearchAt, KnownUrl, Present
          <5>2. \A a \in Admins : AdminAt(a, v)' <=> AdminAt(a, v)
            BY <2>2 DEF AdminAt
          <5>3. Inserting(v)' => Inserting(v)
            BY <2>2, <5>1 DEF Inserting, SearchAt
          <5> QED  BY <4>1, <5>1, <5>2, <5>3 DEF InsertsAlone
        <4> QED  BY <4>2, <4>3
      <3>4. UrlsAreUnique'
        BY <1>1, <3>2 DEF UrlInv, UrlsAreUnique, Present
      <3> QED  BY <3>2, <3>3, <3>4 DEF UrlInv
    <2> QED  BY <2>1, <2>3, <2>4
  <1>3. ASSUME NEW a \in Admins, NEW u \in Urls, CreateLookUp(a, u)
        PROVE  UrlInv'
    <2>0. PICK triage \in Triages :
             admin' = [admin EXCEPT ![a] = [@ EXCEPT !.pc = "insert", !.url = u, !.triage = triage]]
      BY <1>3 DEF CreateLookUp
    <2> DEFINE q == [admin[a] EXCEPT !.pc = "insert", !.url = u, !.triage = triage]
    <2>1. q.pc = "insert" /\ q.url = u /\ admin[a].pc = "idle"
      BY <1>3 DEF CreateLookUp, Asks, Inv, Shape, RequestType
    <2>2. /\ admin'[a].pc = "insert" /\ admin'[a].url = u
          /\ \A b \in Admins \ {a} : admin'[b] = admin[b]
          /\ UNCHANGED search /\ overlapped' = Meets(u) /\ ~KnownUrl(u)
      BY <1>3, <2>0, <2>1 DEF CreateLookUp, Inv, Shape
    <2>3. overlapped \subseteq overlapped' /\ overlapped' \subseteq Urls
      BY <2>2 DEF Meets, UrlInv
    <2>4. ASSUME NEW v \in Urls \ overlapped' PROVE InsertsAlone(v)'
      <3>1. InsertsAlone(v)
        BY <2>3, <2>4 DEF UrlInv
      <3>2. CASE v = u
        <4>1. ~Inserting(u)
          BY <2>2, <2>4, <3>2 DEF Meets
        <4>2. ~SearchAt(u)' /\ \A b \in Admins : AdminAt(b, u)' => b = a
          BY <2>2, <4>1 DEF Inserting, AdminAt, SearchAt
        <4>3. ~KnownUrl(u)'
          BY <1>1, <2>2 DEF KnownUrl, Present
        <4> QED  BY <3>2, <4>2, <4>3 DEF InsertsAlone
      <3>3. CASE v # u
        <4>1. (SearchAt(v)' <=> SearchAt(v)) /\ (KnownUrl(v)' <=> KnownUrl(v))
          BY <1>1, <2>2 DEF SearchAt, KnownUrl, Present
        <4>2. \A b \in Admins : AdminAt(b, v)' => AdminAt(b, v)
          BY <2>2, <3>3 DEF AdminAt
        <4>3. Inserting(v)' => Inserting(v)
          BY <4>1, <4>2 DEF Inserting, SearchAt, AdminAt
        <4> QED  BY <3>1, <4>1, <4>2, <4>3 DEF InsertsAlone
      <3> QED  BY <3>2, <3>3
    <2>5. UrlsAreUnique'
      BY <1>1, <2>3 DEF UrlInv, UrlsAreUnique, Present
    <2> QED  BY <2>3, <2>4, <2>5 DEF UrlInv
  <1> QED  BY <1>2, <1>3 DEF LooksUp

(* Whoever inserts a url that is not excused was alone with it, and leaves.   *)
LEMMA CreateUrlInv ==
  ASSUME UrlInv, Inv, NEW r, NEW u, NEW triage, Creates(r, u, triage), NobodyComes,
         Inserting(u), u \notin overlapped => ~Inserting(u)'
  PROVE  UrlInv'
  <1>1. r \in Rows /\ u \in Urls /\ ~Present(r)
    BY DEF Creates, Fresh, Present, Confidence
  <1>2. /\ rows'[r].url = u
        /\ \A q \in Rows \ {r} : rows'[q] = rows[q]
    BY <1>1 DEF Creates, Match, Inv, Shape
  <1>3. \A q \in Rows \ {r} : Present(q)' <=> Present(q)
    BY <1>2 DEF Present
  <1>4. UNCHANGED overlapped
    BY DEF NobodyComes
  <1>5. \A v \in Urls : Inserting(v)' => Inserting(v)
    BY DEF Inserting, NobodyComes, SearchAt, AdminAt
  <1>6. ASSUME NEW v \in Urls \ overlapped PROVE InsertsAlone(v)'
    <2>1. InsertsAlone(v)
      BY <1>6 DEF UrlInv
    <2>2. v # u => (KnownUrl(v)' => KnownUrl(v))
      BY <1>2, <1>3 DEF KnownUrl
    <2>3. Inserting(v)' => ~KnownUrl(v)'
      BY <1>5, <1>6, <2>1, <2>2 DEF InsertsAlone
    <2> QED  BY <2>1, <2>3 DEF InsertsAlone, NobodyComes
  <1>7. u \notin overlapped => ~KnownUrl(u)
    BY <1>1 DEF UrlInv, InsertsAlone
  <1>8. UrlsAreUnique'
    BY <1>1, <1>2, <1>3, <1>4, <1>7 DEF UrlInv, UrlsAreUnique, KnownUrl
  <1> QED  BY <1>4, <1>6, <1>8 DEF UrlInv

LEMMA InsertUrlInv ==
  ASSUME UrlInv, Inv, SearchTyped, Insert
  PROVE  UrlInv'
  <1>1. PICK r : Creates(r, search.url, search.todo[search.url])
    BY WhoCreates
  <1>2. PICK u \in Urls : u = search.url
    BY <1>1 DEF Creates
  <1>3. SearchAt(u) /\ UNCHANGED admin /\ Creates(r, u, search.todo[search.url])
    BY <1>1, <1>2 DEF Insert, SearchAt
  <1>4. NobodyComes
    BY SearchComes DEF SearchNext, LookUp, Insert
  <1>5. search'.pc # "insert"
    BY InsertGoes
  <1>6. u \notin overlapped => ~Inserting(u)'
    BY <1>3, <1>5 DEF UrlInv, InsertsAlone, Inserting, AdminAt
  <1>7. Inserting(u)
    BY <1>3 DEF Inserting, SearchAt
  <1> QED  BY <1>3, <1>4, <1>6, <1>7, CreateUrlInv

LEMMA CreateInsertUrlInv ==
  ASSUME UrlInv, Inv, SearchTyped, NEW a \in Admins, NEW r \in Rows, CreateInsert(a, r)
  PROVE  UrlInv'
  <1>1. Creates(r, admin[a].url, admin[a].triage)
    BY WhoCreates
  <1>2. PICK u \in Urls : u = admin[a].url
    BY <1>1 DEF Creates
  <1>3. AdminAt(a, u) /\ UNCHANGED search /\ Creates(r, u, admin[a].triage)
    BY <1>1, <1>2 DEF CreateInsert, AdminAt
  <1>4. NobodyComes
    <2>1. ~LooksUp
      <3>1. r \in Rows /\ rows[r].conf = "none" /\ rows' = [rows EXCEPT ![r] = Match(u, admin[a].triage)]
        BY <1>3 DEF Creates, Fresh
      <3>2. rows'[r].conf # "none"
        BY <3>1 DEF Match, Inv, Shape
      <3> QED  BY <3>1, <3>2 DEF LooksUp, LookUp, CreateLookUp
    <2> QED  BY <2>1, AdminComes DEF AdminNext
  <1>5. admin'[a].pc # "insert"
    <2>1. admin[a] \in RequestType
      BY DEF Inv, Shape
    <2>2. [admin[a] EXCEPT !.pc = "audit", !.row = r].pc = "audit" /\ NoRequest.pc = "idle"
      BY <2>1 DEF RequestType, NoRequest
    <2> QED  BY <2>2 DEF CreateInsert, Becomes, Answered, Inv, Shape
  <1>6. u \notin overlapped => ~Inserting(u)'
    BY <1>3, <1>4, <1>5 DEF UrlInv, InsertsAlone, Inserting, AdminAt, SearchAt, NobodyComes
  <1>7. Inserting(u)
    BY <1>3 DEF Inserting, AdminAt
  <1> QED  BY <1>3, <1>4, <1>6, <1>7, CreateUrlInv

LEMMA UrlInvStep ==
  ASSUME UrlInv, Inv, SearchTyped, AuditTyped, [Next]_vars
  PROVE  UrlInv'
  <1>1. CASE LooksUp
    BY <1>1, LookUpUrlInv
  <1>2. CASE ~LooksUp /\ ~Insert /\ ~\E a \in Admins : \E r \in Rows : CreateInsert(a, r)
    <2>1. RowsStay
      BY <1>2, StepIs, SetStays DEF HarmlessStep, Harmless, RowsStay
    <2>2. ~LookUp
      BY <1>2 DEF LooksUp
    <2>3. NobodyComes
      BY <1>2, <2>2, SearchComes, AdminComes, OthersCome DEF Next
    <2> QED  BY <2>1, <2>3, QuietUrlInv
  <1> QED  BY <1>1, <1>2, InsertUrlInv, CreateInsertUrlInv

(* However searches, requests and deletes interleave, only a url that two     *)
(* were between their look-up and their insert for at once is matched twice.  *)
THEOREM UrlsMatchedOnce == Spec => []UrlsAreUnique
  <1>1. UrlInv => UrlsAreUnique
    BY DEF UrlInv
  <1> QED  BY UrlInvInit, UrlInvStep, InvInvariant, SearchTypedInvariant, AuditTypedInvariant,
              <1>1, PTL DEF Spec

----------------------------------------------------------------------------
(* The sweeps. A claim is scraped once, and its number was given to no other  *)
(* claim of the page: what a page was scraped for are different numbers, none *)
(* of them above MaxScrapes.                                                  *)

ClaimType == [page : Nat, number : Nat]
SweepType == [pc : {"idle", "claim", "work", "scrape", "store"},
              batch : SUBSET ClaimType, at : ClaimType]

ClaimOn(p, n) == [page |-> p, number |-> n]

(* The numbers up to MaxScrapes that are given, and that nobody has still to  *)
(* scrape for.                                                                *)
Spent(p) == {n \in 1 .. MaxScrapes : /\ n <= pages[p].attempts
                                     /\ \A s \in Sweeps : ClaimOn(p, n) \notin sweep[s].batch}

PagesTyped == pages \in Seq(Page) /\ sweep \in [Sweeps -> SweepType]

(* A claim is of a page that there is, and has a number that was given; no    *)
(* two sweeps hold the same one.                                              *)
ClaimsGiven ==
    \A s \in Sweeps : \A c \in sweep[s].batch :
        /\ c.page \in DOMAIN pages
        /\ c.number \in 1 .. pages[c.page].attempts
        /\ \A t \in Sweeps : c \in sweep[t].batch => t = s

ScrapesCounted == \A p \in DOMAIN pages : pages[p].scrapes <= Cardinality(Spent(p))

ScrapesInv == PagesTyped /\ ClaimsGiven /\ ScrapesCounted

LEMMA SpentIs ==
  ASSUME NEW p
  PROVE  IsFiniteSet(Spent(p)) /\ Cardinality(Spent(p)) \in Nat /\ Cardinality(Spent(p)) <= MaxScrapes
  <1>1. IsFiniteSet(1 .. MaxScrapes) /\ Cardinality(1 .. MaxScrapes) = MaxScrapes
    BY ScrapesAssumption, FS_Interval
  <1>2. Spent(p) \in SUBSET (1 .. MaxScrapes)
    BY DEF Spent
  <1> QED  BY <1>1, <1>2, FS_Subset, FS_CardinalityType

LEMMA SpentNext ==
  ASSUME NEW p
  PROVE  IsFiniteSet(Spent(p)') /\ Cardinality(Spent(p)') \in Nat
  <1>1. IsFiniteSet(1 .. MaxScrapes)
    BY ScrapesAssumption, FS_Interval
  <1>2. Spent(p)' \in SUBSET (1 .. MaxScrapes)
    BY DEF Spent
  <1> QED  BY <1>1, <1>2, FS_Subset, FS_CardinalityType

(* A step that scrapes nothing and gives no number: pages keep both counters, *)
(* and sweeps only let go of claims.                                          *)
Idles ==
    /\ pages' \in Seq(Page) /\ DOMAIN pages' = DOMAIN pages
    /\ \A p \in DOMAIN pages : /\ pages'[p].attempts = pages[p].attempts
                               /\ pages'[p].scrapes = pages[p].scrapes
    /\ sweep' \in [Sweeps -> SweepType]
    /\ \A s \in Sweeps : sweep'[s].batch \subseteq sweep[s].batch

LEMMA CountStays ==
  ASSUME NEW p, NEW k \in Nat, k <= Cardinality(Spent(p)), Spent(p) \in SUBSET Spent(p)'
  PROVE  k <= Cardinality(Spent(p)')
  <1>1. Cardinality(Spent(p)) <= Cardinality(Spent(p)')
    BY SpentNext, FS_Subset
  <1> QED  BY <1>1, SpentIs, SpentNext

LEMMA PageIs ==
  ASSUME ScrapesInv, NEW p \in DOMAIN pages
  PROVE  /\ pages[p] \in Page /\ pages[p].attempts \in Nat /\ pages[p].scrapes \in Nat
         /\ pages[p].scrapes <= Cardinality(Spent(p))
  <1>1. pages[p] \in Page
    BY DEF ScrapesInv, PagesTyped
  <1> QED  BY <1>1 DEF ScrapesInv, ScrapesCounted, Page

LEMMA IdlesInv ==
  ASSUME ScrapesInv, Idles
  PROVE  ScrapesInv'
  <1>1. PagesTyped' /\ ClaimsGiven'
    BY DEF ScrapesInv, PagesTyped, ClaimsGiven, Idles
  <1>2. ASSUME NEW p \in DOMAIN pages PROVE pages'[p].scrapes <= Cardinality(Spent(p)')
    <2>1. Spent(p) \in SUBSET Spent(p)'
      BY DEF Spent, Idles
    <2>2. pages'[p].scrapes = pages[p].scrapes
      BY DEF Idles
    <2> QED  BY <2>1, <2>2, PageIs, CountStays
  <1>3. ScrapesCounted'
    BY <1>2 DEF ScrapesCounted, Idles
  <1> QED  BY <1>1, <1>3 DEF ScrapesInv

(* What the actions of a sweep do to its record, and to the pages.            *)
LEMMA SweepLets ==
  ASSUME PagesTyped, NEW s \in Sweeps, NEW v \in SweepType, sweep' = [sweep EXCEPT ![s] = v]
  PROVE  /\ sweep' \in [Sweeps -> SweepType]
         /\ sweep'[s] = v /\ \A t \in Sweeps \ {s} : sweep'[t] = sweep[t]
  BY DEF PagesTyped

LEMMA StatusSet ==
  ASSUME PagesTyped, NEW p, NEW status \in PageStatus, SetStatus(p, status)
  PROVE  /\ pages' \in Seq(Page) /\ DOMAIN pages' = DOMAIN pages
         /\ \A q \in DOMAIN pages : /\ pages'[q].attempts = pages[q].attempts
                                    /\ pages'[q].scrapes = pages[q].scrapes
  <1>1. pages \in Seq(Page)
    BY DEF PagesTyped
  <1>2. \A q \in DOMAIN pages : /\ [pages[q] EXCEPT !.status = status] \in Page
                                /\ [pages[q] EXCEPT !.status = status].attempts = pages[q].attempts
                                /\ [pages[q] EXCEPT !.status = status].scrapes = pages[q].scrapes
    <2>1. \A q \in DOMAIN pages : pages[q] \in Page
      BY <1>1
    <2> QED  BY <2>1 DEF Page
  <1>3. pages' = [pages EXCEPT ![p] = [pages[p] EXCEPT !.status = status]]
    BY DEF SetStatus
  <1>4. \A q \in DOMAIN pages :
           pages'[q] = IF q = p THEN [pages[p] EXCEPT !.status = status] ELSE pages[q]
    BY <1>3
  <1>5. \A q \in DOMAIN pages : pages'[q] \in Page
    BY <1>1, <1>2, <1>4
  <1>6. Len(pages) \in Nat /\ DOMAIN pages = 1 .. Len(pages) /\ DOMAIN pages' = DOMAIN pages
    BY <1>1, <1>3
  <1>7. pages' \in [1 .. Len(pages) -> Page]
    BY <1>3, <1>5, <1>6
  <1>8. pages' \in Seq(Page)
    BY <1>6, <1>7
  <1> QED  BY <1>2, <1>4, <1>6, <1>8

LEMMA GoOnLets ==
  ASSUME PagesTyped, NEW s \in Sweeps, NEW rest \in SUBSET sweep[s].batch, GoOn(s, rest)
  PROVE  /\ sweep' \in [Sweeps -> SweepType]
         /\ \A t \in Sweeps : sweep'[t].batch \subseteq sweep[t].batch
  <1> DEFINE v == [pc |-> IF rest = {} THEN "idle" ELSE "work", batch |-> rest, at |-> NoClaim]
  <1>1. v \in SweepType /\ v.batch = rest
    BY DEF PagesTyped, SweepType, NoClaim, ClaimType
  <1>2. sweep' = [sweep EXCEPT ![s] = v]
    BY DEF GoOn
  <1> HIDE DEF v
  <1> QED  BY <1>1, <1>2, SweepLets

LEMMA QuietSweeps ==
  ASSUME ScrapesInv, NEW s \in Sweeps,
         Recover(s) \/ GiveUp(s) \/ Harvested(s) \/ Completed(s) \/ NoPage(s) \/ SweepDies(s)
  PROVE  Idles
  <1>1. PagesTyped /\ pages \in Seq(Page) /\ sweep[s] \in SweepType
    BY DEF ScrapesInv, PagesTyped
  <1>2. ASSUME NEW pc \in {"claim", "store"}, sweep' = [sweep EXCEPT ![s] = [@ EXCEPT !.pc = pc]]
        PROVE  /\ sweep' \in [Sweeps -> SweepType]
               /\ \A t \in Sweeps : sweep'[t].batch \subseteq sweep[t].batch
    <2>1. /\ [sweep[s] EXCEPT !.pc = pc] \in SweepType
          /\ [sweep[s] EXCEPT !.pc = pc].batch = sweep[s].batch
      BY <1>1 DEF SweepType
    <2> QED  BY <1>1, <1>2, <2>1, SweepLets
  <1>3. CASE Recover(s)
    <2>1. PICK stale \in SUBSET DOMAIN pages :
             pages' = [p \in DOMAIN pages |->
                          IF p \in stale THEN [pages[p] EXCEPT !.status = "pending"] ELSE pages[p]]
      BY <1>3 DEF Recover
    <2>2. \A p \in DOMAIN pages :
             /\ [pages[p] EXCEPT !.status = "pending"] \in Page
             /\ [pages[p] EXCEPT !.status = "pending"].attempts = pages[p].attempts
             /\ [pages[p] EXCEPT !.status = "pending"].scrapes = pages[p].scrapes
      <3>1. \A p \in DOMAIN pages : pages[p] \in Page
        BY <1>1
      <3> QED  BY <3>1 DEF Page, PageStatus
    <2>3. DOMAIN pages' = 1 .. Len(pages) /\ Len(pages) \in Nat
          /\ \A p \in DOMAIN pages : pages'[p] \in Page
      BY <1>1, <2>1, <2>2
    <2>4. pages' \in Seq(Page)
      BY <1>1, <2>1, <2>3
    <2>5. sweep' = [sweep EXCEPT ![s] = [@ EXCEPT !.pc = "claim"]]
      BY <1>3 DEF Recover
    <2> QED  BY <1>1, <1>2, <2>1, <2>2, <2>4, <2>5 DEF Idles
  <1>4. CASE GiveUp(s)
    <2>1. PICK c \in sweep[s].batch : SetStatus(c.page, "failed") /\ GoOn(s, sweep[s].batch \ {c})
      BY <1>4 DEF GiveUp
    <2>2. sweep[s].batch \ {c} \in SUBSET sweep[s].batch /\ "failed" \in PageStatus
      BY DEF PageStatus
    <2> QED  BY <1>1, <2>1, <2>2, StatusSet, GoOnLets DEF Idles
  <1>5. CASE Harvested(s)
    <2>1. sweep' = [sweep EXCEPT ![s] = [@ EXCEPT !.pc = "store"]] /\ UNCHANGED pages
      BY <1>5 DEF Harvested
    <2> QED  BY <1>1, <1>2, <2>1 DEF Idles
  <1>6. CASE Completed(s) \/ NoPage(s)
    <2>1. PICK status \in PageStatus : SetStatus(sweep[s].at.page, status)
      BY <1>6 DEF Completed, NoPage, After, PageStatus
    <2>2. GoOn(s, sweep[s].batch)
      BY <1>6 DEF Completed, NoPage
    <2> QED  BY <1>1, <2>1, <2>2, StatusSet, GoOnLets DEF Idles
  <1>7. CASE SweepDies(s)
    <2>1. Idle \in SweepType /\ Idle.batch = {}
      BY DEF Idle, SweepType, NoClaim, ClaimType
    <2> QED  BY <1>1, <1>7, <2>1, SweepLets DEF SweepDies, Idles
  <1> QED  BY <1>3, <1>4, <1>5, <1>6, <1>7


(* A claim gives numbers that nobody had.                                     *)
LEMMA ClaimInv ==
  ASSUME ScrapesInv, NEW s \in Sweeps, Claim(s)
  PROVE  ScrapesInv'
  <1>1. PagesTyped /\ pages \in Seq(Page) /\ sweep[s] \in SweepType
        /\ DOMAIN pages = 1 .. Len(pages) /\ Len(pages) \in Nat
    BY DEF ScrapesInv, PagesTyped
  <1>2. PICK taken \in SUBSET DOMAIN pages :
           /\ pages' = [p \in DOMAIN pages |->
                           IF p \in taken
                           THEN [pages[p] EXCEPT !.status = "processing", !.attempts = Numbered(p)]
                           ELSE pages[p]]
           /\ sweep' = [sweep EXCEPT ![s] =
                           [@ EXCEPT !.pc = IF taken = {} THEN "idle" ELSE "work",
                                     !.batch = {[page |-> p, number |-> Numbered(p)] : p \in taken}]]
    BY DEF Claim
  <1> DEFINE given == {[page |-> p, number |-> Numbered(p)] : p \in taken}
             v == [sweep[s] EXCEPT !.pc = IF taken = {} THEN "idle" ELSE "work", !.batch = given]
  <1>3. \A p \in DOMAIN pages : Numbered(p) \in Nat /\ Numbered(p) = pages[p].attempts + 1
    BY PageIs DEF Numbered
  <1>4. given \in SUBSET ClaimType
    BY <1>1, <1>3 DEF ClaimType
  <1>5. v \in SweepType /\ v.batch = given
    BY <1>1, <1>4 DEF SweepType
  <1>6. /\ sweep' \in [Sweeps -> SweepType] /\ sweep'[s].batch = given
        /\ \A t \in Sweeps \ {s} : sweep'[t] = sweep[t]
    <2> HIDE DEF given
    <2>1. sweep' = [sweep EXCEPT ![s] = v]
      BY <1>2 DEF given
    <2> HIDE DEF v
    <2> QED  BY <1>1, <1>5, <2>1, SweepLets
  <1>7. \A p \in DOMAIN pages :
           /\ pages'[p] \in Page /\ pages'[p].scrapes = pages[p].scrapes
           /\ pages'[p].attempts = IF p \in taken THEN pages[p].attempts + 1 ELSE pages[p].attempts
    <2>1. ASSUME NEW p \in DOMAIN pages, NEW n \in Nat
          PROVE  /\ [pages[p] EXCEPT !.status = "processing", !.attempts = n] \in Page
                 /\ [pages[p] EXCEPT !.status = "processing", !.attempts = n].attempts = n
                 /\ [pages[p] EXCEPT !.status = "processing", !.attempts = n].scrapes = pages[p].scrapes
      <3>1. pages[p] \in Page
        BY PageIs
      <3> QED  BY <3>1 DEF Page, PageStatus
    <2>2. \A p \in DOMAIN pages :
             pages'[p] = IF p \in taken
                         THEN [pages[p] EXCEPT !.status = "processing", !.attempts = Numbered(p)]
                         ELSE pages[p]
      <3> DEFINE next(p) == IF p \in taken
                            THEN [pages[p] EXCEPT !.status = "processing", !.attempts = Numbered(p)]
                            ELSE pages[p]
      <3>1. pages' = [p \in DOMAIN pages |-> next(p)]
        BY <1>2
      <3> HIDE DEF next
      <3>2. \A p \in DOMAIN pages : pages'[p] = next(p)
        BY ONLY <3>1
      <3> QED  BY <3>2 DEF next
    <2> SUFFICES ASSUME NEW p \in DOMAIN pages
                 PROVE  /\ pages'[p] \in Page /\ pages'[p].scrapes = pages[p].scrapes
                        /\ pages'[p].attempts = IF p \in taken THEN pages[p].attempts + 1
                                                               ELSE pages[p].attempts
      OBVIOUS
    <2>3. CASE p \in taken
      <3>1. PICK n \in Nat : n = Numbered(p)
        BY <1>3
      <3> DEFINE next == [pages[p] EXCEPT !.status = "processing", !.attempts = n]
      <3>2. pages'[p] = next
        BY <2>2, <2>3, <3>1
      <3>3. next \in Page /\ next.attempts = n /\ next.scrapes = pages[p].scrapes
        BY <2>1
      <3> HIDE DEF next
      <3>4. n = pages[p].attempts + 1
        BY <1>3, <3>1
      <3> QED  BY <2>3, <3>2, <3>3, <3>4
    <2>4. CASE p \notin taken
      <3>1. pages'[p] = pages[p]
        BY <2>2, <2>4
      <3> QED  BY ONLY <2>4, <3>1, PageIs, ScrapesInv, p \in DOMAIN pages
    <2> QED  BY <2>3, <2>4
  <1>8. pages' \in Seq(Page) /\ DOMAIN pages' = DOMAIN pages
    <2>1. pages' \in [1 .. Len(pages) -> Page]
      BY <1>1, <1>2, <1>7
    <2> QED  BY <1>1, <2>1
  <1>9. \A c \in given : c.page \in taken /\ c.number = pages[c.page].attempts + 1
    BY <1>3
  <1>10. ASSUME NEW t \in Sweeps, NEW c \in sweep[t].batch
         PROVE  /\ c.page \in DOMAIN pages /\ c.number \in 1 .. pages[c.page].attempts
                /\ c \notin given
    <2>1. c.page \in DOMAIN pages /\ c.number \in 1 .. pages[c.page].attempts
      BY DEF ScrapesInv, ClaimsGiven
    <2> QED  BY <1>9, <2>1, PageIs
  <1> HIDE DEF given
  <1>11. ClaimsGiven'
    <2> SUFFICES ASSUME NEW t \in Sweeps, NEW c \in sweep'[t].batch
                 PROVE  /\ c.page \in DOMAIN pages'
                        /\ c.number \in 1 .. pages'[c.page].attempts
                        /\ \A u \in Sweeps : c \in sweep'[u].batch => u = t
      BY DEF ClaimsGiven
    <2>1. CASE t = s
      <3>1. c \in given
        BY <1>6, <2>1
      <3>2. c.page \in taken /\ c.number = pages[c.page].attempts + 1
        BY <1>9, <3>1
      <3>3. c.page \in DOMAIN pages' /\ c.number \in 1 .. pages'[c.page].attempts
        BY <1>7, <1>8, <3>2, PageIs
      <3> QED  BY <1>6, <1>10, <2>1, <3>1, <3>3
    <2>2. CASE t # s
      <3>1. c \in sweep[t].batch
        BY <1>6, <2>2
      <3>2. c.page \in DOMAIN pages /\ c.number \in 1 .. pages[c.page].attempts /\ c \notin given
        BY <1>10, <3>1
      <3>3. c.number \in 1 .. pages'[c.page].attempts
        BY <1>7, <3>2, PageIs
      <3>4. \A u \in Sweeps : c \in sweep'[u].batch => u = t
        BY <1>6, <3>1, <3>2 DEF ScrapesInv, ClaimsGiven
      <3> QED  BY <1>8, <3>2, <3>3, <3>4
    <2> QED  BY <2>1, <2>2
  <1>12. ASSUME NEW p \in DOMAIN pages PROVE pages'[p].scrapes <= Cardinality(Spent(p)')
    <2>1. ASSUME NEW n \in Spent(p) PROVE n \in Spent(p)'
      <3>1. n \in 1 .. MaxScrapes /\ n <= pages[p].attempts
            /\ \A t \in Sweeps : ClaimOn(p, n) \notin sweep[t].batch
        BY DEF Spent
      <3>2. ClaimOn(p, n) \notin given
        <4>1. ClaimOn(p, n).page = p /\ ClaimOn(p, n).number = n
          BY DEF ClaimOn
        <4>2. n # pages[p].attempts + 1
          BY <3>1, PageIs, ScrapesAssumption
        <4> QED  BY <1>9, <4>1, <4>2
      <3>3. n <= pages'[p].attempts
        BY <1>7, <3>1, PageIs, ScrapesAssumption
      <3> QED  BY <1>6, <3>1, <3>2, <3>3 DEF Spent
    <2> QED  BY <1>7, <2>1, PageIs, CountStays
  <1> QED  BY <1>6, <1>8, <1>11, <1>12 DEF ScrapesInv, PagesTyped, ScrapesCounted

(* A scrape uses up the number of its claim.                                  *)
LEMMA ScrapeInv ==
  ASSUME ScrapesInv, NEW s \in Sweeps, Scrape(s)
  PROVE  ScrapesInv'
  <1>1. PagesTyped /\ pages \in Seq(Page) /\ sweep[s] \in SweepType
        /\ DOMAIN pages = 1 .. Len(pages) /\ Len(pages) \in Nat
    BY DEF ScrapesInv, PagesTyped
  <1>2. PICK c \in sweep[s].batch :
           /\ MayScrape(c)
           /\ pages' = [pages EXCEPT ![c.page].scrapes = @ + 1]
           /\ sweep' = [sweep EXCEPT ![s] =
                           [pc |-> "scrape", batch |-> sweep[s].batch \ {c}, at |-> c]]
    BY DEF Scrape
  <1>3. /\ c \in ClaimType /\ c = ClaimOn(c.page, c.number)
        /\ c.page \in DOMAIN pages /\ c.number \in 1 .. pages[c.page].attempts
        /\ \A t \in Sweeps : c \in sweep[t].batch => t = s
    <2>1. c \in ClaimType
      BY <1>1 DEF SweepType
    <2> QED  BY <2>1 DEF ScrapesInv, ClaimsGiven, ClaimType, ClaimOn
  <1> DEFINE w == c.page
             v == [pc |-> "scrape", batch |-> sweep[s].batch \ {c}, at |-> c]
  <1>4. v \in SweepType /\ v.batch = sweep[s].batch \ {c}
    BY <1>1, <1>3 DEF SweepType
  <1>5. /\ sweep' \in [Sweeps -> SweepType] /\ sweep'[s].batch = sweep[s].batch \ {c}
        /\ \A t \in Sweeps \ {s} : sweep'[t] = sweep[t]
    <2>1. sweep' = [sweep EXCEPT ![s] = v]
      BY <1>2
    <2> HIDE DEF v
    <2> QED  BY <1>1, <1>4, <2>1, SweepLets
  <1>6. \A t \in Sweeps : sweep'[t].batch \subseteq sweep[t].batch /\ c \notin sweep'[t].batch
    BY <1>3, <1>5
  <1>7. \A p \in DOMAIN pages :
           /\ pages'[p] \in Page /\ pages'[p].attempts = pages[p].attempts
           /\ pages'[p].scrapes = IF p = w THEN pages[p].scrapes + 1 ELSE pages[p].scrapes
    <2>1. ASSUME NEW p \in DOMAIN pages, NEW n \in Nat
          PROVE  /\ [pages[p] EXCEPT !.scrapes = n] \in Page
                 /\ [pages[p] EXCEPT !.scrapes = n].attempts = pages[p].attempts
                 /\ [pages[p] EXCEPT !.scrapes = n].scrapes = n
      <3>1. pages[p] \in Page
        BY PageIs
      <3> QED  BY <3>1 DEF Page
    <2>2. pages[w].scrapes + 1 \in Nat
      BY <1>3, PageIs
    <2>3. pages' = [pages EXCEPT ![w] = [pages[w] EXCEPT !.scrapes = pages[w].scrapes + 1]]
      BY <1>2
    <2> HIDE DEF w
    <2>4. pages'[w] = [pages[w] EXCEPT !.scrapes = pages[w].scrapes + 1]
      BY <1>1, <1>3, <2>3 DEF w
    <2>5. \A p \in DOMAIN pages \ {w} : pages'[p] = pages[p]
      BY <1>1, <2>3
    <2>6. w \in DOMAIN pages
      BY <1>3 DEF w
    <2>7. /\ pages'[w] \in Page /\ pages'[w].attempts = pages[w].attempts
          /\ pages'[w].scrapes = pages[w].scrapes + 1
      BY <2>1, <2>2, <2>4, <2>6
    <2> QED  BY <2>5, <2>7, PageIs
  <1>8. pages' \in Seq(Page) /\ DOMAIN pages' = DOMAIN pages
    <2>1. DOMAIN pages' = DOMAIN pages
      BY <1>2
    <2>2. pages' \in [1 .. Len(pages) -> Page]
      BY <1>1, <1>2, <1>7, <2>1
    <2> QED  BY <1>1, <2>1, <2>2
  <1>9. ClaimsGiven'
    BY <1>6, <1>7, <1>8 DEF ScrapesInv, ClaimsGiven
  <1>10. \A p \in DOMAIN pages : Spent(p) \in SUBSET Spent(p)'
    BY <1>6, <1>7 DEF Spent
  <1>11. ASSUME NEW p \in DOMAIN pages \ {w} PROVE pages'[p].scrapes <= Cardinality(Spent(p)')
    BY <1>7, <1>10, PageIs, CountStays
  <1>12. pages'[w].scrapes <= Cardinality(Spent(w)')
    <2>1. /\ Spent(w) \cup {c.number} \in SUBSET Spent(w)'
          /\ c.number \notin Spent(w)
      <3>1. c.number \in 1 .. MaxScrapes
        BY <1>2, <1>3, PageIs, ScrapesAssumption DEF MayScrape
      <3>2. c.number <= pages'[w].attempts
        BY <1>3, <1>7, PageIs
      <3>3. c.number \in Spent(w)'
        BY <1>3, <1>6, <3>1, <3>2 DEF Spent
      <3>4. c.number \notin Spent(w)
        BY <1>3 DEF Spent
      <3> QED  BY <1>3, <1>10, <3>3, <3>4
    <2>2. IsFiniteSet(Spent(w)) /\ Cardinality(Spent(w)) \in Nat
      BY SpentIs
    <2>3. Cardinality(Spent(w) \cup {c.number}) = Cardinality(Spent(w)) + 1
      BY <2>1, <2>2, FS_AddElement
    <2>4. IsFiniteSet(Spent(w)') /\ Cardinality(Spent(w)') \in Nat
      BY SpentNext
    <2>5. Cardinality(Spent(w) \cup {c.number}) <= Cardinality(Spent(w)')
      BY <2>1, <2>4, FS_Subset
    <2>6. pages'[w].scrapes = pages[w].scrapes + 1
      BY <1>3, <1>7
    <2> QED  BY <1>3, <2>2, <2>3, <2>4, <2>5, <2>6, PageIs
  <1> QED  BY <1>5, <1>8, <1>9, <1>11, <1>12 DEF ScrapesInv, PagesTyped, ScrapesCounted

(* A page is queued for the url of a row that is there.                       *)
RowsHaveUrls == \A r \in Rows : Present(r) => rows[r].url \in Urls

LEMMA RowsHaveUrlsStep ==
  ASSUME RowsHaveUrls, Inv, SearchTyped, AuditTyped, [Next]_vars
  PROVE  RowsHaveUrls'
  <1>1. ASSUME RowsStay PROVE RowsHaveUrls'
    BY <1>1 DEF RowsStay, RowsHaveUrls
  <1>2. ASSUME NEW r, NEW u, NEW triage, Creates(r, u, triage) PROVE RowsHaveUrls'
    <2>1. rows'[r].url = u /\ u \in Urls /\ \A q \in Rows \ {r} : rows'[q] = rows[q]
      BY <1>2 DEF Creates, Fresh, Match, Inv, Shape
    <2> QED  BY <2>1 DEF RowsHaveUrls, Present
  <1> QED  BY <1>1, <1>2, StepIs, SetStays, WhoCreates DEF HarmlessStep, Harmless, RowsStay

(* A page that the extraction fetched counts that fetch as its first.         *)
LEMMA QueueInv ==
  ASSUME ScrapesInv, RowsHaveUrls, NEW r \in Rows, Present(r), NEW attempts \in {0, 1},
         pages' = Queued(rows[r].url, attempts), UNCHANGED sweep
  PROVE  ScrapesInv'
  <1>1. pages \in Seq(Page) /\ DOMAIN pages = 1 .. Len(pages) /\ Len(pages) \in Nat
    BY DEF ScrapesInv, PagesTyped
  <1>0. PICK q \in Nat : q = Len(pages) + 1
    BY <1>1
  <1> DEFINE new == [url |-> rows[r].url, status |-> "pending",
                     attempts |-> attempts, scrapes |-> attempts]
  <1>2. new \in Page /\ new.attempts = attempts /\ new.scrapes = attempts
    BY DEF RowsHaveUrls, Page, PageStatus
  <1>3. pages' = Append(pages, new)
    BY DEF Queued
  <1> HIDE DEF new
  <1>4. /\ pages' \in Seq(Page) /\ DOMAIN pages' = DOMAIN pages \union {q}
        /\ pages'[q] = new /\ q \notin DOMAIN pages
        /\ \A p \in DOMAIN pages : pages'[p] = pages[p]
    BY <1>0, <1>1, <1>2, <1>3
  <1>5. PagesTyped' /\ ClaimsGiven'
    <2>1. \A s \in Sweeps : \A c \in sweep[s].batch :
             c.page \in DOMAIN pages /\ pages'[c.page] = pages[c.page]
      BY <1>4 DEF ScrapesInv, ClaimsGiven
    <2> QED  BY <1>4, <2>1 DEF ScrapesInv, PagesTyped, ClaimsGiven
  <1>6. ASSUME NEW p \in DOMAIN pages PROVE pages'[p].scrapes <= Cardinality(Spent(p)')
    <2>1. Spent(p) \in SUBSET Spent(p)'
      BY <1>4 DEF Spent
    <2> QED  BY <1>4, <2>1, PageIs, CountStays
  <1>7. attempts <= Cardinality(Spent(q)')
    <2>1. IsFiniteSet(Spent(q)') /\ Cardinality(Spent(q)') \in Nat
      BY SpentNext
    <2>3. CASE attempts = 1
      <3>1. \A s \in Sweeps : ClaimOn(q, 1) \notin sweep[s].batch
        BY <1>4 DEF ClaimOn, ScrapesInv, ClaimsGiven
      <3>2. 1 \in Spent(q)'
        BY <1>2, <1>4, <2>3, <3>1, ScrapesAssumption DEF Spent
      <3>3. Cardinality({1}) <= Cardinality(Spent(q)') /\ Cardinality({1}) = 1
        BY <2>1, <3>2, FS_Subset, FS_Singleton
      <3> QED  BY <2>3, <3>3
    <2> QED  BY <2>1, <2>3
  <1>8. ScrapesCounted'
    BY <1>2, <1>4, <1>6, <1>7 DEF ScrapesCounted
  <1> QED  BY <1>5, <1>8 DEF ScrapesInv

(* The action of a request.                                                  *)
Acts(a) ==
    \/ HandsOverAudit(a) \/ PatchWrite(a) \/ HandsOverExtraction(a) \/ HandsOverConsensus(a)
    \/ PrimaryClear(a) \/ PrimarySet(a) \/ AdminFails(a)
    \/ \E u \in Urls : CreateLookUp(a, u)
    \/ \E r \in Rows :
        \/ CreateInsert(a, r) \/ PatchRead(a, r) \/ ReviewConfirm(a, r) \/ ReviewReject(a, r)
        \/ PrimaryRead(a, r) \/ ExtractRequest(a, r) \/ Delete(a, r)

LEMMA SomebodyActs == AdminNext => \E a \in Admins : Acts(a)
  BY DEF AdminNext, Acts

LEMMA ScrapesInvStep ==
  ASSUME ScrapesInv, RowsHaveUrls, [Next]_vars
  PROVE  ScrapesInv'
  <1>1. CASE UNCHANGED <<pages, sweep>>
    BY <1>1, IdlesInv DEF Idles, ScrapesInv, PagesTyped
  <1>2. CASE SweepNext
    BY <1>2, ClaimInv, ScrapeInv, QuietSweeps, IdlesInv DEF SweepNext
  <1>3. ASSUME NEW r \in Rows, NotFetched(r) PROVE ScrapesInv'
    BY <1>1, <1>3, QueueInv DEF NotFetched
  <1>4. CASE SearchNext \/ AuditNext
    BY <1>1, <1>4 DEF SearchNext, SearchStart, LookUp, Insert, ListAudits, AddAudit, ListAutos,
                      AddAuto, SearchFails, AuditNext, AuditAsk, AuditSkips, AuditWrite,
                      AuditFails, sweepVars
  <1>5. ASSUME NEW r \in Rows,
               \/ ExtractLoad(r) \/ Fetched(r) \/ Specified(r)
               \/ NothingFound(r) \/ ExtractTriggers(r) \/ ExtractFails(r)
        PROVE  UNCHANGED <<pages, sweep>>
    BY <1>5 DEF ExtractLoad, Fetched, Specified, NothingFound, ExtractTriggers, ExtractFails,
                sweepVars
  <1>6. ASSUME NEW a \in Admins, Acts(a) PROVE UNCHANGED <<pages, sweep>>
    BY <1>6 DEF Acts, HandsOverAudit, PatchWrite, HandsOverExtraction, HandsOverConsensus,
                PrimaryClear, PrimarySet, AdminFails, CreateLookUp, CreateInsert, PatchRead,
                ReviewConfirm, ReviewReject, PrimaryRead, ExtractRequest, Delete, sweepVars
  <1>7. CASE ExtractNext
    BY <1>1, <1>3, <1>5, <1>7 DEF ExtractNext
  <1>8. CASE UNCHANGED vars \/ RunConsensus \/ \E r \in Rows : Forget(r)
    BY <1>1, <1>8 DEF vars, RunConsensus, Forget, sweepVars
  <1> QED  BY <1>1, <1>2, <1>4, <1>6, <1>7, <1>8, SomebodyActs DEF Next

LEMMA ScrapesInvInvariant == Spec => [](ScrapesInv /\ RowsHaveUrls)
  <1>1. Init => RowsHaveUrls
    BY DEF Init, RowsHaveUrls, Present, Confidence, Blank
  <1>2. Spec => []RowsHaveUrls
    BY <1>1, RowsHaveUrlsStep, InvInvariant, SearchTypedInvariant, AuditTypedInvariant, PTL DEF Spec
  <1>3. Init => ScrapesInv
    <2>1. Idle \in SweepType /\ Idle.batch = {}
      BY DEF Idle, SweepType, NoClaim, ClaimType
    <2> QED  BY <2>1 DEF Init, SweepInit, ScrapesInv, PagesTyped, ClaimsGiven, ScrapesCounted
  <1> QED  BY <1>2, <1>3, ScrapesInvStep, PTL DEF Spec

(* However sweeps overlap, recover one another's pages and die, a page is     *)
(* fetched at most MaxScrapes times, the extraction that queued it included.  *)
THEOREM PagesFetchedBoundedly == Spec => []ScrapesBounded
  <1>1. ScrapesInv => ScrapesBounded
    <2> SUFFICES ASSUME ScrapesInv, NEW p \in DOMAIN pages PROVE pages[p].scrapes <= MaxScrapes
      BY DEF ScrapesBounded
    <2> QED  BY PageIs, SpentIs, ScrapesAssumption
  <1> QED  BY <1>1, ScrapesInvInvariant, PTL

----------------------------------------------------------------------------
(* The hand-overs. What a step does to the jobs of the extraction.            *)

ExtractType == [state : {"none", "waiting", "fetch", "ask", "trigger", "kept"},
                attempt : 0 .. MaxAttempts, verdict : DOMAIN Decided \union {"none"},
                owes : BOOLEAN, ran : BOOLEAN]

ExtractTyped == extract \in [Rows -> ExtractType]

(* The job that found the specifications.                                     *)
Told(j) == [j EXCEPT !.state = "trigger", !.owes = TRUE]

LEMMA ExtractJobs ==
  ASSUME NEW j \in ExtractType
  PROVE  /\ Added(j) \in ExtractType
         /\ Added(j).state = (IF j.state = "none" THEN "waiting" ELSE j.state)
         /\ Added(j).owes = j.owes /\ Added(j).ran = j.ran
         /\ Ended(j) \in ExtractType /\ Ended(j).state = "kept" /\ ~Ended(j).owes /\ Ended(j).ran
         /\ Forgotten(j) \in ExtractType /\ Forgotten(j).state = "none"
         /\ ~Forgotten(j).owes /\ Forgotten(j).ran = j.ran
         /\ Failed(j) \in ExtractType
         /\ Exhausted(j) => Failed(j) = Ended(j)
         /\ ~Exhausted(j) => /\ Failed(j).state = "waiting"
                             /\ Failed(j).owes = j.owes /\ Failed(j).ran = j.ran
         /\ \A state \in {"fetch", "ask"} :
               /\ Goes(j, state) \in ExtractType /\ Goes(j, state).state = state
               /\ Goes(j, state).owes = j.owes /\ Goes(j, state).ran = j.ran
         /\ Told(j) \in ExtractType /\ Told(j).state = "trigger" /\ Told(j).owes /\ Told(j).ran = j.ran
  <1> USE DEF ExtractType
  <1>0. 0 \in 0 .. MaxAttempts /\ 1 \in 0 .. MaxAttempts
    BY JobsAssumption
  <1>1. NoJob \in ExtractType
    BY <1>0 DEF NoJob
  <1>2. Ended(j) \in ExtractType /\ Ended(j).state = "kept" /\ ~Ended(j).owes /\ Ended(j).ran
    BY <1>1 DEF Ended, NoJob
  <1>3. /\ Forgotten(j) \in ExtractType /\ Forgotten(j).state = "none"
        /\ ~Forgotten(j).owes /\ Forgotten(j).ran = j.ran
    BY <1>1 DEF Forgotten, NoJob
  <1>4. /\ Added(j) \in ExtractType
        /\ Added(j).state = (IF j.state = "none" THEN "waiting" ELSE j.state)
        /\ Added(j).owes = j.owes /\ Added(j).ran = j.ran
    BY <1>0 DEF Added
  <1>5. ASSUME NEW n \in 0 .. MaxAttempts
        PROVE  /\ [j EXCEPT !.state = "waiting", !.attempt = n, !.verdict = "none"] \in ExtractType
               /\ [j EXCEPT !.state = "waiting", !.attempt = n, !.verdict = "none"].state = "waiting"
               /\ [j EXCEPT !.state = "waiting", !.attempt = n, !.verdict = "none"].owes = j.owes
               /\ [j EXCEPT !.state = "waiting", !.attempt = n, !.verdict = "none"].ran = j.ran
    OBVIOUS
  <1>6. ~Exhausted(j) => j.attempt + 1 \in 0 .. MaxAttempts
    BY JobsAssumption DEF Exhausted
  <1>7. /\ Failed(j) \in ExtractType
        /\ Exhausted(j) => Failed(j) = Ended(j)
        /\ ~Exhausted(j) => /\ Failed(j).state = "waiting"
                            /\ Failed(j).owes = j.owes /\ Failed(j).ran = j.ran
    BY <1>2, <1>5, <1>6 DEF Failed
  <1>8. \A state \in {"fetch", "ask"} :
           /\ Goes(j, state) \in ExtractType /\ Goes(j, state).state = state
           /\ Goes(j, state).owes = j.owes /\ Goes(j, state).ran = j.ran
    BY DEF Goes
  <1>9. Told(j) \in ExtractType /\ Told(j).state = "trigger" /\ Told(j).owes /\ Told(j).ran = j.ran
    BY DEF Told
  <1> QED  BY <1>2, <1>3, <1>4, <1>7, <1>8, <1>9

(* A processor of the extraction is at the job.                               *)
Works(r) ==
    \/ /\ ExtractLoad(r)
       /\ extract'[r] = IF ~Present(r) THEN Ended(extract[r])
                        ELSE Goes(extract[r], IF rows[r].url \in harvest THEN "ask" ELSE "fetch")
    \/ Fetched(r) /\ extract'[r] = Goes(extract[r], "ask")
    \/ NotFetched(r) /\ extract'[r] = Ended(extract[r])
    \/ Specified(r) /\ extract'[r] = Told(extract[r])
    \/ NothingFound(r) /\ extract'[r] = Ended(extract[r])
    \/ ExtractTriggers(r) /\ extract'[r] = Ended(extract[r])
    \/ ExtractFails(r) /\ extract'[r] = Failed(extract[r])

JobMoves(r) ==
    \/ extract'[r] = extract[r]
    \/ extract'[r] = Added(extract[r])
    \/ Works(r)
    \/ extract[r].state = "kept" /\ extract'[r] = Forgotten(extract[r])

LEMMA JobsMove ==
  ASSUME ExtractTyped, SearchTyped, [Next]_vars
  PROVE  ExtractTyped' /\ \A r \in Rows : JobMoves(r)
  <1>1. \A r \in Rows : extract[r] \in ExtractType
    BY DEF ExtractTyped
  <1>2. ASSUME UNCHANGED extract PROVE ExtractTyped' /\ \A r \in Rows : JobMoves(r)
    BY <1>2 DEF ExtractTyped, JobMoves
  <1>3. ASSUME NEW q, NEW j \in ExtractType, extract' = [extract EXCEPT ![q] = j]
        PROVE  /\ ExtractTyped' /\ \A r \in Rows \ {q} : JobMoves(r)
               /\ q \in Rows => extract'[q] = j
    BY <1>3 DEF ExtractTyped, JobMoves
  <1>4. ASSUME NEW q, AddExtraction(q) PROVE ExtractTyped' /\ \A r \in Rows : JobMoves(r)
    <2>1. CASE q \in Rows
      <3>1. Added(extract[q]) \in ExtractType
        BY <1>1, <2>1, ExtractJobs
      <3>2. extract' = [extract EXCEPT ![q] = Added(extract[q])]
        BY <1>4 DEF AddExtraction
      <3>3. JobMoves(q)
        BY <1>3, <2>1, <3>1, <3>2 DEF JobMoves
      <3> QED  BY <1>3, <3>1, <3>2, <3>3
    <2>2. CASE q \notin Rows
      BY <1>2, <1>4, <2>2 DEF AddExtraction, ExtractTyped
    <2> QED  BY <2>1, <2>2
  <1>5. CASE SearchNext
    <2>1. UNCHANGED extract \/ AddAuto
      BY <1>5 DEF SearchNext, SearchStart, LookUp, Insert, ListAudits, AddAudit, ListAutos,
                  SearchFails
    <2> QED  BY <1>2, <1>4, <2>1 DEF AddAuto
  <1>6. CASE AuditNext
    BY <1>2, <1>4, <1>6 DEF AuditNext, AuditAsk, AuditSkips, AuditWrite, AuditFails
  <1>7. ASSUME NEW a \in Admins, Acts(a) PROVE ExtractTyped' /\ \A r \in Rows : JobMoves(r)
    <2>1. UNCHANGED extract \/ \E q : AddExtraction(q)
      BY <1>7 DEF Acts, HandsOverAudit, PatchWrite, HandsOverExtraction, HandsOverConsensus,
                  PrimaryClear, PrimarySet, AdminFails, CreateLookUp, CreateInsert, PatchRead,
                  ReviewConfirm, ReviewReject, PrimaryRead, ExtractRequest, Delete
    <2> QED  BY <1>2, <1>4, <2>1
  <1>8. ASSUME NEW q \in Rows,
               \/ ExtractLoad(q) \/ Fetched(q) \/ NotFetched(q) \/ Specified(q)
               \/ NothingFound(q) \/ ExtractTriggers(q) \/ ExtractFails(q)
        PROVE  ExtractTyped' /\ \A r \in Rows : JobMoves(r)
    <2> DEFINE e == extract[q]
    <2>1. ASSUME NEW j \in ExtractType, extract' = [extract EXCEPT ![q] = j],
                 extract'[q] = j => JobMoves(q)
          PROVE  ExtractTyped' /\ \A r \in Rows : JobMoves(r)
      BY <1>3, <2>1
    <2>2. CASE ExtractLoad(q)
      <3> DEFINE j == IF ~Present(q) THEN Ended(e)
                      ELSE Goes(e, IF rows[q].url \in harvest THEN "ask" ELSE "fetch")
      <3>1. j \in ExtractType
        BY <1>1, ExtractJobs
      <3>2. extract' = [extract EXCEPT ![q] = j]
        BY <2>2 DEF ExtractLoad
      <3> QED  BY <2>1, <2>2, <3>1, <3>2 DEF JobMoves, Works
    <2>3. CASE Fetched(q)
      <3>1. Goes(e, "ask") \in ExtractType /\ extract' = [extract EXCEPT ![q] = Goes(e, "ask")]
        BY <1>1, <2>3, ExtractJobs DEF Fetched
      <3> QED  BY <2>1, <2>3, <3>1 DEF JobMoves, Works
    <2>4. CASE NotFetched(q) \/ NothingFound(q) \/ ExtractTriggers(q)
      <3>1. Ended(e) \in ExtractType /\ extract' = [extract EXCEPT ![q] = Ended(e)]
        BY <1>1, <2>4, ExtractJobs DEF NotFetched, NothingFound, ExtractTriggers
      <3> QED  BY <2>1, <2>4, <3>1 DEF JobMoves, Works
    <2>5. CASE Specified(q)
      <3>1. Told(e) \in ExtractType /\ extract' = [extract EXCEPT ![q] = Told(e)]
        BY <1>1, <2>5, ExtractJobs DEF Specified, Told
      <3> QED  BY <2>1, <2>5, <3>1 DEF JobMoves, Works
    <2>6. CASE ExtractFails(q)
      <3>1. Failed(e) \in ExtractType /\ extract' = [extract EXCEPT ![q] = Failed(e)]
        BY <1>1, <2>6, ExtractJobs DEF ExtractFails
      <3> QED  BY <2>1, <2>6, <3>1 DEF JobMoves, Works
    <2> QED  BY <1>8, <2>2, <2>3, <2>4, <2>5, <2>6
  <1>9. ASSUME NEW q \in Rows, Forget(q) PROVE ExtractTyped' /\ \A r \in Rows : JobMoves(r)
    <2>1. CASE extract[q].state = "kept" /\ extract' = [extract EXCEPT ![q] = Forgotten(extract[q])]
      <3>1. Forgotten(extract[q]) \in ExtractType
        BY <1>1, ExtractJobs
      <3> QED  BY <1>3, <2>1, <3>1 DEF JobMoves
    <2> QED  BY <1>2, <1>9, <2>1 DEF Forget
  <1>10. CASE UNCHANGED vars \/ RunConsensus \/ UNCHANGED pipelineVars
    BY <1>2, <1>10 DEF vars, RunConsensus, pipelineVars
  <1> QED  BY <1>5, <1>6, <1>7, <1>8, <1>9, <1>10, SomebodyActs DEF Next, ExtractNext

(* What it does to the rows: one that exists keeps its url and its triage,    *)
(* and whatever is confirmed was, or somebody confirms or creates it.         *)
Keeps(r) ==
    /\ rows'[r].conf # "none" /\ rows'[r].url = rows[r].url
    /\ rows'[r].conf # "gone" => /\ rows'[r].triage = rows[r].triage
                                 /\ rows[r].specs => rows'[r].specs
                                 /\ rows'[r].specs => rows[r].specs \/ extract'[r].owes

Confirms(r) ==
    \/ AuditWrite(r) /\ audit[r].verdict = "approve"
    \/ \E a \in Admins : /\ PatchWrite(a) /\ admin[a].row = r
                         /\ admin'[a].row = r /\ admin'[a].pc = AfterConfirm(r)
    \/ \E a \in Admins : ReviewConfirm(a, r) /\ admin'[a].row = r /\ admin'[a].pc = "consensus"

RowMoves(r) ==
    \/ rows[r].conf = "none" /\ rows'[r] = rows[r]
    \/ /\ rows[r].conf # "none" /\ Keeps(r)
       /\ rows'[r].conf = "confirmed" => rows[r].conf = "confirmed" \/ Confirms(r)
    \/ /\ rows[r].conf = "none"
       /\ Insert /\ rows'[r] = Match(search.url, search.todo[search.url])
    \/ /\ rows[r].conf = "none"
       /\ \E a \in Admins : CreateInsert(a, r) /\ rows'[r] = Match(admin[a].url, admin[a].triage)

LEMMA RowsStand ==
  ASSUME Inv, NEW r \in Rows, rows'[r] = rows[r]
  PROVE  RowMoves(r)
  BY DEF RowMoves, Keeps

LEMMA ConfMoves ==
  ASSUME Inv, NEW q \in Rows, Present(q), NEW c \in Confidence, SetConf(q, c),
         c = "confirmed" => Confirms(q)
  PROVE  \A r \in Rows : RowMoves(r)
  <1>1. rows[q] \in RowType /\ rows[q].conf # "none" /\ c # "none"
    BY DEF Inv, Shape, Present, Confidence
  <1> DEFINE new == [rows[q] EXCEPT !.conf = c]
  <1>2. /\ new.conf = c /\ new.url = rows[q].url /\ new.triage = rows[q].triage
        /\ new.specs = rows[q].specs
    BY <1>1 DEF RowType
  <1>3. rows' = [rows EXCEPT ![q] = new]
    BY DEF SetConf
  <1> HIDE DEF new
  <1>4. rows'[q] = new /\ \A r \in Rows \ {q} : rows'[r] = rows[r]
    BY <1>3 DEF Inv, Shape
  <1>5. RowMoves(q)
    BY <1>1, <1>2, <1>4 DEF RowMoves, Keeps
  <1> QED  BY <1>4, <1>5, RowsStand

LEMMA WorkersMoveRows ==
  ASSUME Inv, AuditTyped, ExtractTyped, SearchNext \/ AuditNext \/ ExtractNext
  PROVE  \A r \in Rows : RowMoves(r)
  <1>1. ASSUME UNCHANGED rows PROVE \A r \in Rows : RowMoves(r)
    BY <1>1, RowsStand
  <1>2. CASE Insert
    <2> DEFINE new == Match(search.url, search.todo[search.url])
    <2>1. PICK q \in Fresh : rows' = [rows EXCEPT ![q] = new]
      BY <1>2 DEF Insert
    <2> HIDE DEF new
    <2>2. q \in Rows /\ rows[q].conf = "none"
      BY DEF Fresh
    <2>3. rows'[q] = new /\ \A r \in Rows \ {q} : rows'[r] = rows[r]
      BY <2>1, <2>2 DEF Inv, Shape
    <2>4. RowMoves(q)
      BY <1>2, <2>2, <2>3 DEF RowMoves, new
    <2> QED  BY <2>3, <2>4, RowsStand
  <1>3. CASE SearchNext /\ ~Insert
    BY <1>1, <1>3 DEF SearchNext, SearchStart, LookUp, ListAudits, AddAudit, ListAutos, AddAuto,
                      SearchFails
  <1>4. ASSUME NEW q \in Rows, AuditAsk(q) \/ AuditSkips(q) \/ AuditWrite(q) \/ AuditFails(q)
        PROVE  \A r \in Rows : RowMoves(r)
    <2>1. CASE AuditWrite(q) /\ Present(q)
      <3>1. PICK v \in DOMAIN Decided : v = audit[q].verdict
        BY <2>1 DEF AuditWrite, AuditTyped
      <3>2. Decided[v] \in Confidence /\ (Decided[v] = "confirmed" => v = "approve")
        BY DEF Decided, Confidence
      <3>3. SetConf(q, Decided[v])
        BY <2>1, <3>1 DEF AuditWrite
      <3> QED  BY <2>1, <3>1, <3>2, <3>3, ConfMoves DEF Confirms
    <2> QED  BY <1>1, <1>4, <2>1 DEF AuditAsk, AuditSkips, AuditWrite, AuditFails
  <1>5. ASSUME NEW q \in Rows, Specified(q), Present(q)
        PROVE  \A r \in Rows : RowMoves(r)
    <2> DEFINE new == [rows[q] EXCEPT !.specs = TRUE]
    <2>1. rows[q] \in RowType /\ rows[q].conf # "none"
      BY <1>5 DEF Inv, Shape, Present, Confidence
    <2>2. /\ new.conf = rows[q].conf /\ new.url = rows[q].url /\ new.triage = rows[q].triage
          /\ new.specs
      BY <2>1 DEF RowType
    <2>3. rows' = [rows EXCEPT ![q] = new]
      BY <1>5 DEF Specified
    <2> HIDE DEF new
    <2>4. rows'[q] = new /\ \A r \in Rows \ {q} : rows'[r] = rows[r]
      BY <2>3 DEF Inv, Shape
    <2>5. extract'[q].owes
      <3>1. extract[q] \in ExtractType
        BY DEF ExtractTyped
      <3>2. extract' = [extract EXCEPT ![q] = Told(extract[q])]
        BY <1>5 DEF Specified, Told
      <3>3. extract'[q] = Told(extract[q])
        BY <3>2 DEF ExtractTyped
      <3>4. Told(extract[q]).owes
        BY <3>1, ExtractJobs
      <3> QED  BY <3>3, <3>4
    <2>6. RowMoves(q)
      BY <2>1, <2>2, <2>4, <2>5 DEF RowMoves, Keeps
    <2> QED  BY <2>4, <2>6, RowsStand
  <1>6. CASE ExtractNext
    BY <1>1, <1>5, <1>6 DEF ExtractNext, ExtractLoad, Fetched, NotFetched, Specified, NothingFound,
                            ExtractTriggers, ExtractFails
  <1> QED  BY <1>2, <1>3, <1>4, <1>6 DEF AuditNext

LEMMA AdminMovesRows ==
  ASSUME Inv, NEW a \in Admins, Acts(a)
  PROVE  \A r \in Rows : RowMoves(r)
  <1>1. ASSUME UNCHANGED rows PROVE \A r \in Rows : RowMoves(r)
    BY <1>1, RowsStand
  <1>2. admin[a] \in RequestType /\ KnowsItsRow(admin[a])
    BY DEF Inv, Shape
  <1>3. ASSUME NEW pc \in {"extraction", "consensus"}, NEW r \in Rows, Becomes(a, pc, r)
        PROVE  admin'[a].row = r /\ admin'[a].pc = pc
    <2> DEFINE q == [admin[a] EXCEPT !.pc = pc, !.row = r]
    <2>1. q.row = r /\ q.pc = pc
      BY <1>2 DEF RequestType
    <2>2. admin' = [admin EXCEPT ![a] = q]
      BY <1>3 DEF Becomes
    <2> HIDE DEF q
    <2> QED  BY <2>1, <2>2 DEF Inv, Shape
  <1>4. CASE PatchWrite(a)
    <2> DEFINE w == admin[a].row
    <2>1. w \in Rows /\ admin[a].conf \in Confidence
      BY <1>2, <1>4 DEF PatchWrite, KnowsItsRow
    <2>2. admin[a].conf = "confirmed" /\ Present(w) => Confirms(w)
      BY <1>3, <1>4, <2>1 DEF PatchWrite, AfterConfirm, Confirms
    <2> QED  BY <1>1, <1>4, <2>1, <2>2, ConfMoves DEF PatchWrite
  <1>5. ASSUME NEW q \in Rows, ReviewConfirm(a, q) PROVE \A r \in Rows : RowMoves(r)
    <2>1. Confirms(q)
      BY <1>3, <1>5 DEF ReviewConfirm, Confirms
    <2> QED  BY <1>5, <2>1, ConfMoves DEF ReviewConfirm, Confidence
  <1>6. ASSUME NEW q \in Rows, ReviewReject(a, q) PROVE \A r \in Rows : RowMoves(r)
    BY <1>6, ConfMoves DEF ReviewReject, Confidence
  <1>7. ASSUME NEW q \in Rows, Delete(a, q) PROVE \A r \in Rows : RowMoves(r)
    <2> DEFINE gone == [Blank EXCEPT !.url = rows[q].url, !.conf = "gone"]
    <2>1. gone.conf = "gone" /\ gone.url = rows[q].url /\ rows[q].conf # "none"
      BY <1>7 DEF Blank, Delete, Present, Confidence
    <2>2. rows' = [rows EXCEPT ![q] = gone]
      BY <1>7 DEF Delete
    <2> HIDE DEF gone
    <2>3. rows'[q] = gone /\ \A r \in Rows \ {q} : rows'[r] = rows[r]
      BY <2>2 DEF Inv, Shape
    <2>4. RowMoves(q)
      BY <2>1, <2>3 DEF RowMoves, Keeps
    <2> QED  BY <2>3, <2>4, RowsStand
  <1>8. ASSUME NEW q \in Rows, CreateInsert(a, q) PROVE \A r \in Rows : RowMoves(r)
    <2> DEFINE new == Match(admin[a].url, admin[a].triage)
    <2>1. rows' = [rows EXCEPT ![q] = new] /\ rows[q].conf = "none"
      BY <1>8 DEF CreateInsert, Fresh
    <2> HIDE DEF new
    <2>2. rows'[q] = new /\ \A r \in Rows \ {q} : rows'[r] = rows[r]
      BY <2>1 DEF Inv, Shape
    <2>3. RowMoves(q)
      BY <1>8, <2>1, <2>2 DEF RowMoves, new
    <2> QED  BY <2>2, <2>3, RowsStand
  <1>9. CASE PrimarySet(a)
    <2>1. \A r \in Rows : rows[r] \in RowType
      BY DEF Inv, Shape
    <2>2. \A r \in Rows : \/ \E b \in BOOLEAN : rows'[r] = [rows[r] EXCEPT !.primary = b]
                          \/ rows'[r] = rows[r]
      BY <1>9 DEF PrimarySet
    <2>3. \A r \in Rows : /\ rows'[r].conf = rows[r].conf /\ rows'[r].url = rows[r].url
                          /\ rows'[r].triage = rows[r].triage /\ rows'[r].specs = rows[r].specs
                          /\ rows[r].conf = "none" => rows'[r] = rows[r]
      <3>1. \A r \in Rows : rows'[r].conf = rows[r].conf /\ rows'[r].url = rows[r].url
                            /\ rows'[r].triage = rows[r].triage /\ rows'[r].specs = rows[r].specs
        BY <2>1, <2>2 DEF RowType
      <3>2. \A r \in Rows : rows[r].conf = "none" => ~Present(r) /\ r \notin admin[a].held
        BY DEF Present, Confidence, Inv, HoldsItsRow
      <3> QED  BY <1>9, <3>1, <3>2 DEF PrimarySet
    <2> QED  BY <2>3 DEF RowMoves, Keeps
  <1>10. CASE \/ HandsOverAudit(a) \/ HandsOverExtraction(a) \/ HandsOverConsensus(a)
              \/ PrimaryClear(a) \/ AdminFails(a) \/ \E u \in Urls : CreateLookUp(a, u)
              \/ \E r \in Rows : PatchRead(a, r) \/ PrimaryRead(a, r) \/ ExtractRequest(a, r)
    BY <1>1, <1>10 DEF HandsOverAudit, HandsOverExtraction, HandsOverConsensus, PrimaryClear,
                       AdminFails, CreateLookUp, PatchRead, PrimaryRead, ExtractRequest
  <1> QED  BY <1>4, <1>5, <1>6, <1>7, <1>8, <1>9, <1>10 DEF Acts

LEMMA RowsMove ==
  ASSUME Inv, AuditTyped, ExtractTyped, [Next]_vars
  PROVE  \A r \in Rows : RowMoves(r)
  <1>1. CASE RunConsensus \/ (\E r \in Rows : Forget(r)) \/ UNCHANGED vars \/ UNCHANGED pipelineVars
    <2>1. UNCHANGED rows
      BY <1>1 DEF RunConsensus, Forget, vars, pipelineVars
    <2> QED  BY <2>1, RowsStand
  <1> QED  BY <1>1, WorkersMoveRows, AdminMovesRows, SomebodyActs DEF Next

(* What it does to a request that is to hand a row over.                      *)
AdminMoves(a) ==
    \/ admin'[a] = admin[a]
    \/ HandsOverExtraction(a) \/ HandsOverConsensus(a) \/ AdminFails(a)

LEMMA RequestsMove ==
  ASSUME Inv, [Next]_vars, NEW a \in Admins, admin[a].pc \in {"extraction", "consensus"}
  PROVE  AdminMoves(a)
  <1>1. ASSUME NEW b \in Admins, Acts(b), b = a PROVE AdminMoves(a)
    BY <1>1 DEF Acts, AdminMoves, HandsOverAudit, PatchWrite, PrimaryClear, PrimarySet,
                CreateLookUp, CreateInsert, PatchRead, ReviewConfirm, ReviewReject, PrimaryRead,
                ExtractRequest, Delete, Asks
  <1>2. ASSUME NEW b \in Admins \ {a}, Acts(b) PROVE AdminMoves(a)
    <2>1. UNCHANGED admin \/ \E q : admin' = [admin EXCEPT ![b] = q]
      <3>1. ASSUME NEW r, NEW pc, Becomes(b, pc, r) PROVE \E q : admin' = [admin EXCEPT ![b] = q]
        BY <3>1 DEF Becomes
      <3>2. ASSUME Answered(b) PROVE \E q : admin' = [admin EXCEPT ![b] = q]
        BY <3>2 DEF Answered
      <3>3. CASE \/ HandsOverAudit(b) \/ HandsOverExtraction(b) \/ HandsOverConsensus(b)
                 \/ PrimarySet(b) \/ AdminFails(b)
        BY <3>2, <3>3 DEF HandsOverAudit, HandsOverExtraction, HandsOverConsensus, PrimarySet,
                          AdminFails
      <3>4. CASE PatchWrite(b)
        BY <3>1, <3>2, <3>4 DEF PatchWrite
      <3>5. CASE PrimaryClear(b) \/ \E u \in Urls : CreateLookUp(b, u)
        BY <3>5 DEF PrimaryClear, CreateLookUp
      <3>6. ASSUME NEW r \in Rows, CreateInsert(b, r) \/ ReviewConfirm(b, r) \/ PrimaryRead(b, r)
            PROVE  \E q : admin' = [admin EXCEPT ![b] = q]
        BY <3>1, <3>2, <3>6 DEF CreateInsert, ReviewConfirm, PrimaryRead
      <3>7. ASSUME NEW r \in Rows,
                   PatchRead(b, r) \/ ReviewReject(b, r) \/ ExtractRequest(b, r) \/ Delete(b, r)
            PROVE  UNCHANGED admin \/ \E q : admin' = [admin EXCEPT ![b] = q]
        BY <3>7 DEF PatchRead, ReviewReject, ExtractRequest, Delete
      <3> QED  BY <1>2, <3>3, <3>4, <3>5, <3>6, <3>7 DEF Acts
    <2> QED  BY <2>1 DEF Inv, Shape, AdminMoves
  <1>3. CASE SearchNext
    BY <1>3 DEF SearchNext, SearchStart, LookUp, Insert, ListAudits, AddAudit, ListAutos, AddAuto,
                SearchFails, AdminMoves
  <1>4. CASE AuditNext
    BY <1>4 DEF AuditNext, AuditAsk, AuditSkips, AuditWrite, AuditFails, AdminMoves
  <1>5. CASE ExtractNext
    BY <1>5 DEF ExtractNext, ExtractLoad, Fetched, NotFetched, Specified, NothingFound,
                ExtractTriggers, ExtractFails, AdminMoves
  <1>6. CASE RunConsensus \/ (\E r \in Rows : Forget(r)) \/ UNCHANGED vars \/ UNCHANGED pipelineVars
    BY <1>6 DEF RunConsensus, Forget, vars, pipelineVars, AdminMoves
  <1> QED  BY <1>1, <1>2, <1>3, <1>4, <1>5, <1>6, SomebodyActs DEF Next

(* What is lost stays lost.                                                   *)
LEMMA Recorded ==
  ASSUME [Next]_vars
  PROVE  unextracted \subseteq unextracted' /\ uncounted \subseteq uncounted' /\ harvest \subseteq harvest'
  <1>1. CASE SearchNext
    BY <1>1 DEF SearchNext, SearchStart, LookUp, Insert, ListAudits, AddAudit, ListAutos, AddAuto,
                SearchFails, sweepVars
  <1>2. CASE AuditNext
    BY <1>2 DEF AuditNext, AuditAsk, AuditSkips, AuditWrite, AuditFails, sweepVars
  <1>3. CASE ExtractNext
    BY <1>3 DEF ExtractNext, ExtractLoad, Fetched, NotFetched, Specified, NothingFound,
                ExtractTriggers, ExtractFails, Leaves, sweepVars
  <1>4. ASSUME NEW a \in Admins, Acts(a)
        PROVE  unextracted \subseteq unextracted' /\ uncounted \subseteq uncounted' /\ UNCHANGED harvest
    BY <1>4 DEF Acts, HandsOverAudit, PatchWrite, HandsOverExtraction, HandsOverConsensus,
                PrimaryClear, PrimarySet, AdminFails, CreateLookUp, CreateInsert, PatchRead,
                ReviewConfirm, ReviewReject, PrimaryRead, ExtractRequest, Delete, sweepVars
  <1>5. CASE SweepNext /\ UNCHANGED pipelineVars
    BY <1>5 DEF SweepNext, Recover, Claim, GiveUp, Scrape, Harvested, Completed, NoPage, SweepDies,
                pipelineVars
  <1>6. CASE RunConsensus \/ (\E r \in Rows : Forget(r)) \/ UNCHANGED vars
    BY <1>6 DEF RunConsensus, Forget, vars, pipelineVars, sweepVars
  <1> QED  BY <1>1, <1>2, <1>3, <1>4, <1>5, <1>6, SomebodyActs DEF Next

(* A job that was handed over is there, or was.                               *)
Handed(r) == extract[r].state # "none" \/ extract[r].ran

KeptRan == \A r \in Rows : extract[r].state = "kept" => extract[r].ran

LEMMA HandedStays ==
  ASSUME ExtractTyped, KeptRan, NEW r \in Rows, JobMoves(r)
  PROVE  /\ Handed(r) => Handed(r)'
         /\ extract'[r] = Added(extract[r]) => Handed(r)'
         /\ extract'[r].state = "kept" => extract'[r].ran
  <1>1. extract[r] \in ExtractType
    BY DEF ExtractTyped
  <1> DEFINE e == extract[r]
             load == IF ~Present(r) THEN Ended(e)
                     ELSE Goes(e, IF rows[r].url \in harvest THEN "ask" ELSE "fetch")
  <1>2. extract'[r] \in {Added(e), Ended(e)} => Handed(r)' /\ (extract'[r].state = "kept" => extract'[r].ran)
    BY <1>1, ExtractJobs DEF Handed, KeptRan
  <1>3. extract'[r] = load => Handed(r)' /\ (extract'[r].state = "kept" => extract'[r].ran)
    BY <1>1, ExtractJobs DEF Handed
  <1>4. extract'[r] \in {Goes(e, "ask"), Told(e)} => Handed(r)' /\ extract'[r].state # "kept"
    BY <1>1, ExtractJobs DEF Handed
  <1>5. extract'[r] = Failed(e) => Handed(r)' /\ (extract'[r].state = "kept" => extract'[r].ran)
    BY <1>1, ExtractJobs DEF Handed
  <1>6. extract[r].state = "kept" /\ extract'[r] = Forgotten(e) => Handed(r)' /\ extract'[r].state # "kept"
    BY <1>1, ExtractJobs DEF Handed, KeptRan
  <1>7. extract'[r] = e => (Handed(r) => Handed(r)') /\ (extract'[r].state = "kept" => extract'[r].ran)
                           /\ (extract'[r] = Added(e) => Handed(r)')
    BY <1>1, ExtractJobs DEF Handed, KeptRan
  <1> QED  BY <1>2, <1>3, <1>4, <1>5, <1>6, <1>7 DEF JobMoves, Works

(* An approval is handed over before it is written.                           *)
ApprovalsHanded ==
    \A r \in Rows : audit[r].state = "write" /\ audit[r].verdict = "approve" => Handed(r)

LEMMA ApprovalsHandedStep ==
  ASSUME ApprovalsHanded, ExtractTyped, KeptRan, AuditTyped, SearchTyped, [Next]_vars
  PROVE  ApprovalsHanded'
  <1> SUFFICES ASSUME NEW r \in Rows, audit'[r].state = "write", audit'[r].verdict = "approve"
               PROVE  Handed(r)'
    BY DEF ApprovalsHanded
  <1>1. JobMoves(r) /\ audit[r] \in AuditType
    BY JobsMove DEF AuditTyped
  <1>2. ASSUME audit'[r] = audit[r] PROVE Handed(r)'
    BY <1>1, <1>2, HandedStays DEF ApprovalsHanded
  <1>3. ASSUME NEW q, audit' = [audit EXCEPT ![q] = Added(@)] PROVE Handed(r)'
    <2>1. CASE q = r
      <3>1. audit'[r] = Added(audit[r])
        BY <1>3, <2>1 DEF AuditTyped
      <3>2. audit[r].state = "write" /\ audit[r].verdict = "approve"
        BY <1>1, <3>1, AuditJobs
      <3> QED  BY <1>1, <3>2, HandedStays DEF ApprovalsHanded
    <2>2. CASE q # r
      BY <1>2, <1>3, <2>2 DEF AuditTyped
    <2> QED  BY <2>1, <2>2
  <1>4. ASSUME NEW q \in Rows, AuditAsk(q) \/ AuditSkips(q) \/ AuditWrite(q) \/ AuditFails(q)
        PROVE  Handed(r)'
    <2>1. CASE q # r
      <3>1. \E j : audit' = [audit EXCEPT ![q] = j]
        BY <1>4 DEF AuditAsk, AuditSkips, AuditWrite, AuditFails
      <3> QED  BY <1>2, <2>1, <3>1 DEF AuditTyped
    <2>2. CASE AuditAsk(r)
      <3>1. PICK v \in DOMAIN Decided :
               /\ audit' = [audit EXCEPT ![r] = [@ EXCEPT !.verdict = v, !.state = "write"]]
               /\ IF v = "approve" THEN AddExtraction(r) ELSE UNCHANGED extract
        BY <2>2 DEF AuditAsk
      <3> DEFINE j == [audit[r] EXCEPT !.verdict = v, !.state = "write"]
      <3>2. j.verdict = v /\ audit' = [audit EXCEPT ![r] = j]
        BY <1>1, <3>1, AuditJobs
      <3> HIDE DEF j
      <3>3. v = "approve"
        BY <3>2 DEF AuditTyped
      <3>4. extract'[r] = Added(extract[r])
        BY <3>1, <3>3 DEF AddExtraction, ExtractTyped
      <3> QED  BY <1>1, <3>4, HandedStays
    <2>3. CASE AuditSkips(r) \/ AuditWrite(r) \/ AuditFails(r)
      <3>1. \/ audit' = [audit EXCEPT ![r] = Ended(audit[r])]
            \/ audit' = [audit EXCEPT ![r] = Failed(audit[r])]
        BY <2>3 DEF AuditSkips, AuditWrite, AuditFails
      <3>2. audit'[r] \in {Ended(audit[r]), Failed(audit[r])}
        BY <3>1 DEF AuditTyped
      <3> QED  BY <1>1, <3>2, AuditJobs
    <2> QED  BY <1>4, <2>1, <2>2, <2>3
  <1>5. ASSUME NEW q \in Rows, Forget(q) PROVE Handed(r)'
    <2>1. UNCHANGED audit \/ audit' = [audit EXCEPT ![q] = Forgotten(audit[q])]
      BY <1>5 DEF Forget
    <2>2. audit'[r] = audit[r] \/ audit'[r] = Forgotten(audit[r])
      BY <2>1 DEF AuditTyped
    <2> QED  BY <1>1, <1>2, <2>2, AuditJobs
  <1>6. CASE SearchNext
    <2>1. UNCHANGED audit \/ \E q : audit' = [audit EXCEPT ![q] = Added(@)]
      BY <1>6 DEF SearchNext, SearchStart, LookUp, Insert, ListAudits, AddAudit, ListAutos, AddAuto,
                  SearchFails
    <2> QED  BY <1>2, <1>3, <2>1
  <1>7. CASE ExtractNext
    BY <1>2, <1>7 DEF ExtractNext, ExtractLoad, Fetched, NotFetched, Specified, NothingFound,
                      ExtractTriggers, ExtractFails
  <1>8. CASE AdminNext
    BY <1>2, <1>3, <1>8, AdminLeaves DEF HandsOverAudit
  <1>9. CASE UNCHANGED vars \/ RunConsensus \/ UNCHANGED pipelineVars
    BY <1>2, <1>9 DEF vars, RunConsensus, pipelineVars
  <1> QED  BY <1>4, <1>5, <1>6, <1>7, <1>8, <1>9 DEF Next, AuditNext

(* The search is still to hand r over.                                        *)
SearchWill(r) ==
    \/ search.autos /\ search.pc \in {"rows", "insert", "audits"} /\ rows[r].triage = "auto_approve"
    \/ search.pc = "autos" /\ r \in search.list

AdminWill(a, pc, r) == admin[a].pc = pc /\ admin[a].row = r

LEMMA SearchMoves ==
  ASSUME SearchTyped, ExtractTyped, [Next]_vars, NEW r \in Rows, SearchWill(r),
         rows[r].conf = "confirmed", ~rows[r].specs, rows'[r].triage = rows[r].triage
  PROVE  SearchWill(r)' \/ extract'[r] = Added(extract[r]) \/ Handed(r) \/ r \in unextracted'
  <1>1. CASE UNCHANGED search
    BY <1>1 DEF SearchWill
  <1>2. search \in SearchType
    BY DEF SearchTyped
  <1>3. CASE SearchStart
    BY <1>3 DEF SearchStart, SearchWill
  <1>4. CASE LookUp
    <2>1. PICK u : \/ search' = [search EXCEPT !.todo = Without(search.todo, u)]
                   \/ search' = [search EXCEPT !.pc = "insert", !.url = u]
      BY <1>4 DEF LookUp
    <2>2. search.pc = "rows" /\ search'.pc \in {"rows", "insert"} /\ search'.autos = search.autos
      BY <1>2, <1>4, <2>1 DEF LookUp, SearchType
    <2> QED  BY <2>2 DEF SearchWill
  <1>5. CASE Insert
    <2> DEFINE triage == search.todo[search.url]
    <2>1. search' = [search EXCEPT !.pc = "rows", !.url = None,
                                   !.todo = Without(search.todo, search.url),
                                   !.audits = search.audits \/ triage = "ai_audit",
                                   !.autos = search.autos \/ triage = "auto_approve"]
      BY <1>5 DEF Insert
    <2> HIDE DEF triage
    <2>2. search'.pc = "rows" /\ (search.autos => search'.autos) /\ search.pc = "insert"
      BY <1>2, <1>5, <2>1 DEF SearchType, Insert
    <2> QED  BY <2>2 DEF SearchWill
  <1>6. CASE ListAudits
    <2>1. search.pc = "rows" /\ search'.pc = "audits" /\ search'.autos = search.autos
      BY <1>2, <1>6 DEF ListAudits, SearchType
    <2> QED  BY <2>1 DEF SearchWill
  <1>7. CASE AddAudit
    <2>1. PICK q : search' = [search EXCEPT !.list = search.list \ {q}]
      BY <1>7 DEF AddAudit
    <2>2. search.pc = "audits" /\ search'.pc = "audits" /\ search'.autos = search.autos
      BY <1>2, <1>7, <2>1 DEF AddAudit, SearchType
    <2> QED  BY <2>2 DEF SearchWill
  <1>8. CASE ListAutos
    <2>1. search.pc = "audits" /\ search.autos /\ r \in AutoList
      BY <1>8 DEF ListAutos, SearchWill, AutoList
    <2>2. search' = [search EXCEPT !.pc = "autos", !.list = AutoList]
      BY <1>8, <2>1 DEF ListAutos
    <2>3. search'.pc = "autos" /\ search'.list = AutoList
      BY <1>2, <2>2 DEF SearchType
    <2> QED  BY <2>1, <2>3 DEF SearchWill
  <1>9. CASE AddAuto
    <2>1. PICK q \in search.list :
             /\ AddExtraction(q)
             /\ search' = IF search.list = {q} THEN NoSearch ELSE [search EXCEPT !.list = search.list \ {q}]
      BY <1>9 DEF AddAuto
    <2>2. CASE q = r
      BY <2>1, <2>2 DEF AddExtraction, ExtractTyped
    <2>3. CASE q # r
      <3>1. search.pc = "autos" /\ r \in search.list
        BY <1>9 DEF AddAuto, SearchWill
      <3>2. search' = [search EXCEPT !.list = search.list \ {q}]
        BY <2>1, <2>3, <3>1
      <3>3. search'.pc = "autos" /\ search'.list = search.list \ {q}
        BY <1>2, <3>1, <3>2 DEF SearchType
      <3> QED  BY <2>3, <3>1, <3>3 DEF SearchWill
    <2> QED  BY <2>2, <2>3
  <1>10. CASE SearchFails
    BY <1>10 DEF SearchFails, Unqueued, Handed
  <1>11. CASE AuditNext
    BY <1>1, <1>11 DEF AuditNext, AuditAsk, AuditSkips, AuditWrite, AuditFails
  <1>12. CASE ExtractNext
    BY <1>1, <1>12 DEF ExtractNext, ExtractLoad, Fetched, NotFetched, Specified, NothingFound,
                       ExtractTriggers, ExtractFails
  <1>13. CASE AdminNext
    BY <1>1, <1>13, AdminLeaves
  <1>14. CASE UNCHANGED vars \/ RunConsensus \/ (\E q \in Rows : Forget(q)) \/ UNCHANGED pipelineVars
    BY <1>1, <1>14 DEF vars, RunConsensus, Forget, pipelineVars
  <1> QED  BY <1>3, <1>4, <1>5, <1>6, <1>7, <1>8, <1>9, <1>10, <1>11, <1>12, <1>13, <1>14
              DEF Next, SearchNext

(* A confirmed match without specifications is handed over, or somebody is    *)
(* still to do it.                                                            *)
ConfirmedHanded ==
    \A r \in Rows :
        rows[r].conf = "confirmed" /\ ~rows[r].specs /\ r \notin unextracted =>
            Handed(r) \/ SearchWill(r) \/ \E a \in Admins : AdminWill(a, "extraction", r)

HandInv == ExtractTyped /\ KeptRan /\ ApprovalsHanded /\ ConfirmedHanded

LEMMA ConfirmedHandedStep ==
  ASSUME HandInv, Inv, AuditTyped, SearchTyped, [Next]_vars
  PROVE  ConfirmedHanded'
  <1> SUFFICES ASSUME NEW r \in Rows, rows'[r].conf = "confirmed", ~rows'[r].specs,
                      r \notin unextracted'
               PROVE  Handed(r)' \/ SearchWill(r)' \/ \E a \in Admins : AdminWill(a, "extraction", r)'
    BY DEF ConfirmedHanded
  <1>1. /\ RowMoves(r) /\ JobMoves(r) /\ r \notin unextracted
        /\ ExtractTyped /\ KeptRan /\ ApprovalsHanded /\ ConfirmedHanded
    BY RowsMove, JobsMove, Recorded DEF HandInv
  <1>2. Handed(r) => Handed(r)'
    BY <1>1, HandedStays
  <1>3. CASE rows[r].conf = "confirmed" /\ Keeps(r)
    <2>1. ~rows[r].specs /\ rows'[r].triage = rows[r].triage
      BY <1>3 DEF Keeps
    <2>2. CASE SearchWill(r)
      BY <1>1, <1>2, <1>3, <2>1, <2>2, SearchMoves, HandedStays
    <2>3. ASSUME NEW a \in Admins, AdminWill(a, "extraction", r)
          PROVE  Handed(r)' \/ AdminWill(a, "extraction", r)'
      <3>1. admin[a].pc = "extraction" /\ admin[a].row = r
        BY <2>3 DEF AdminWill
      <3>2. AdminMoves(a)
        BY <3>1, RequestsMove
      <3>3. CASE admin'[a] = admin[a]
        BY <3>1, <3>3 DEF AdminWill
      <3>4. CASE HandsOverExtraction(a)
        <4>1. extract'[r] = Added(extract[r])
          BY <1>1, <3>1, <3>4 DEF HandsOverExtraction, AddExtraction, ExtractTyped
        <4> QED  BY <1>1, <4>1, HandedStays
      <3>5. CASE HandsOverConsensus(a) \/ AdminFails(a)
        BY <3>1, <3>5 DEF HandsOverConsensus, AdminFails
      <3> QED  BY <3>2, <3>3, <3>4, <3>5 DEF AdminMoves
    <2>4. Handed(r) \/ SearchWill(r) \/ \E a \in Admins : AdminWill(a, "extraction", r)
      BY <1>1, <1>3, <2>1 DEF ConfirmedHanded
    <2> QED  BY <1>2, <2>2, <2>3, <2>4
  <1>4. CASE Confirms(r) /\ Keeps(r)
    <2>1. ~rows[r].specs
      BY <1>4 DEF Keeps
    <2>2. CASE AuditWrite(r) /\ audit[r].verdict = "approve"
      BY <1>1, <1>2, <2>2 DEF AuditWrite, ApprovalsHanded
    <2>3. ASSUME NEW a \in Admins, admin'[a].row = r, admin'[a].pc = AfterConfirm(r)
          PROVE  AdminWill(a, "extraction", r)'
      BY <2>1, <2>3 DEF AfterConfirm, AdminWill
    <2>4. ASSUME NEW a \in Admins, ReviewConfirm(a, r) PROVE FALSE
      BY <2>1, <2>4 DEF ReviewConfirm
    <2> QED  BY <1>4, <2>2, <2>3, <2>4 DEF Confirms
  <1>5. CASE Insert /\ rows'[r] = Match(search.url, search.todo[search.url])
    <2> DEFINE triage == search.todo[search.url]
    <2>1. triage = "auto_approve" /\ rows'[r].triage = "auto_approve"
      BY <1>5 DEF Match
    <2>2. search' = [search EXCEPT !.pc = "rows", !.url = None,
                                   !.todo = Without(search.todo, search.url),
                                   !.audits = search.audits \/ triage = "ai_audit",
                                   !.autos = search.autos \/ triage = "auto_approve"]
      BY <1>5 DEF Insert
    <2> HIDE DEF triage
    <2>3. search'.pc = "rows" /\ search'.autos
      BY <2>1, <2>2 DEF SearchTyped, SearchType
    <2> QED  BY <2>1, <2>3 DEF SearchWill
  <1>6. ASSUME NEW a \in Admins, CreateInsert(a, r), rows'[r] = Match(admin[a].url, admin[a].triage)
        PROVE  FALSE
    BY <1>6 DEF CreateInsert, Match
  <1> QED  BY <1>1, <1>3, <1>4, <1>5, <1>6 DEF RowMoves

(* A confirmed match has its specifications, or was handed to the extraction, *)
(* or whoever confirmed it is still to do so, however the search, the audit,  *)
(* the admins' requests and the deletes interleave, and whoever dies or is    *)
(* refused a job: only a hand-over whose process died, whose add was refused, *)
(* or that no code makes, is excused.                                         *)
THEOREM ConfirmedGoOn == Spec => []ConfirmedIsExtracted
  <1>1. Init => HandInv
    <2>1. NoJob \in ExtractType /\ NoJob.state = "none"
      BY JobsAssumption DEF NoJob, ExtractType
    <2> QED  BY <2>1 DEF Init, HandInv, ExtractTyped, KeptRan, ApprovalsHanded, ConfirmedHanded, Blank
  <1>2. ASSUME HandInv, Inv, AuditTyped, SearchTyped, [Next]_vars PROVE HandInv'
    <2>1. ExtractTyped /\ KeptRan /\ ApprovalsHanded
      BY <1>2 DEF HandInv
    <2>2. ExtractTyped' /\ \A r \in Rows : JobMoves(r)
      BY <1>2, <2>1, JobsMove
    <2>3. KeptRan'
      BY <2>1, <2>2, HandedStays DEF KeptRan
    <2>4. ApprovalsHanded' /\ ConfirmedHanded'
      BY <1>2, <2>1, ApprovalsHandedStep, ConfirmedHandedStep
    <2> QED  BY <2>2, <2>3, <2>4 DEF HandInv
  <1>3. HandInv => ConfirmedIsExtracted
    BY DEF HandInv, ConfirmedHanded, ConfirmedIsExtracted, Handed, SearchWill, SearchOwes, AdminWill
  <1> QED  BY <1>1, <1>2, <1>3, InvInvariant, AuditTypedInvariant, SearchTypedInvariant, PTL DEF Spec

----------------------------------------------------------------------------
(* The votes. A job that owes a trigger is not at an end, and does not fetch  *)
(* again: its page is there, and its row is or was.                           *)
JobKnows ==
    \A r \in Rows :
        /\ extract[r].owes => extract[r].state \in {"waiting", "ask", "trigger"}
        /\ extract[r].owes \/ extract[r].state \in {"ask", "trigger"} => rows[r].url \in harvest
        /\ extract[r].owes \/ extract[r].state \in {"fetch", "ask", "trigger"} => rows[r].conf # "none"

VotesDue ==
    \A r \in Votes \ uncounted :
        r \in seen \/ due \/ extract[r].owes \/ \E a \in Admins : AdminWill(a, "consensus", r)

VoteInv == ExtractTyped /\ JobKnows /\ VotesDue

LEMMA JobKnowsStep ==
  ASSUME JobKnows, ExtractTyped, Inv, AuditTyped, SearchTyped, [Next]_vars
  PROVE  JobKnows'
  <1> SUFFICES ASSUME NEW r \in Rows
               PROVE  /\ extract'[r].owes => extract'[r].state \in {"waiting", "ask", "trigger"}
                      /\ extract'[r].owes \/ extract'[r].state \in {"ask", "trigger"} =>
                            rows'[r].url \in harvest'
                      /\ extract'[r].owes \/ extract'[r].state \in {"fetch", "ask", "trigger"} =>
                            rows'[r].conf # "none"
    BY DEF JobKnows
  <1> DEFINE e == extract[r]
  <1>1. JobMoves(r) /\ e \in ExtractType
    BY JobsMove DEF ExtractTyped
  <1>2. rows[r].conf # "none" => rows'[r].conf # "none" /\ rows'[r].url = rows[r].url
    BY RowsMove DEF RowMoves, Keeps
  <1>3. rows[r].url \in harvest => rows[r].url \in harvest'
    BY Recorded
  <1>4. /\ e.owes => e.state \in {"waiting", "ask", "trigger"}
        /\ e.owes \/ e.state \in {"ask", "trigger"} => rows[r].url \in harvest
        /\ e.owes \/ e.state \in {"fetch", "ask", "trigger"} => rows[r].conf # "none"
    BY DEF JobKnows
  <1>5. CASE extract'[r] = e
    BY <1>2, <1>3, <1>4, <1>5
  <1>6. CASE extract'[r] = Added(e)
    BY <1>1, <1>2, <1>3, <1>4, <1>6, ExtractJobs
  <1>7. CASE extract'[r] \in {Ended(e), Forgotten(e)}
    BY <1>1, <1>7, ExtractJobs
  <1>8. CASE ExtractLoad(r) /\ Present(r)
             /\ extract'[r] = Goes(e, IF rows[r].url \in harvest THEN "ask" ELSE "fetch")
    <2>1. rows[r].conf # "none"
      BY <1>8 DEF Present, Confidence
    <2>2. CASE rows[r].url \in harvest
      <3>1. extract'[r].state = "ask" /\ extract'[r].owes = e.owes
        BY <1>1, <1>8, <2>2, ExtractJobs
      <3> QED  BY <1>2, <1>3, <2>1, <2>2, <3>1
    <2>3. CASE rows[r].url \notin harvest
      <3>1. extract'[r].state = "fetch" /\ extract'[r].owes = e.owes
        BY <1>1, <1>8, <2>3, ExtractJobs
      <3> QED  BY <1>2, <1>4, <2>1, <2>3, <3>1
    <2> QED  BY <2>2, <2>3
  <1>9. CASE Fetched(r) /\ extract'[r] = Goes(e, "ask")
    <2>1. e.state = "fetch" /\ rows[r].url \in harvest'
      BY <1>9 DEF Fetched
    <2>2. extract'[r].state = "ask" /\ extract'[r].owes = e.owes
      BY <1>1, <1>9, ExtractJobs
    <2> QED  BY <1>2, <1>4, <2>1, <2>2
  <1>10. CASE Specified(r) /\ extract'[r] = Told(e)
    <2>1. e.state = "ask" /\ extract'[r].state = "trigger"
      BY <1>1, <1>10, ExtractJobs DEF Specified
    <2> QED  BY <1>2, <1>3, <1>4, <2>1
  <1>11. CASE extract'[r] = Failed(e) /\ ExtractFails(r)
    <2>1. CASE Exhausted(e)
      BY <1>1, <1>11, <2>1, ExtractJobs
    <2>2. CASE ~Exhausted(e)
      <3>1. extract'[r].state = "waiting" /\ extract'[r].owes = e.owes
        BY <1>1, <1>11, <2>2, ExtractJobs
      <3> QED  BY <1>2, <1>3, <1>4, <3>1
    <2> QED  BY <2>1, <2>2
  <1> QED  BY <1>1, <1>5, <1>6, <1>7, <1>8, <1>9, <1>10, <1>11 DEF JobMoves, Works

(* A trigger that is owed is given, or kept, or known to be lost.             *)
LEMMA OwesMoves ==
  ASSUME JobKnows, ExtractTyped, NEW r \in Rows, Present(r), JobMoves(r), extract[r].owes
  PROVE  extract'[r].owes \/ due' \/ r \in uncounted'
  <1>1. extract[r] \in ExtractType /\ extract[r].state \in {"waiting", "ask", "trigger"}
    BY DEF ExtractTyped, JobKnows
  <1>2. CASE extract'[r] \in {extract[r], Added(extract[r]), Told(extract[r])}
    BY <1>1, <1>2, ExtractJobs
  <1>3. CASE ExtractLoad(r) /\ extract'[r] = Goes(extract[r], IF rows[r].url \in harvest THEN "ask" ELSE "fetch")
    BY <1>1, <1>3, ExtractJobs
  <1>4. CASE Fetched(r) \/ NotFetched(r) \/ extract[r].state = "kept"
    BY <1>1, <1>4 DEF Fetched, NotFetched
  <1>5. CASE NothingFound(r) \/ ExtractTriggers(r)
    BY <1>5 DEF NothingFound, ExtractTriggers, Leaves
  <1>6. CASE ExtractFails(r) /\ extract'[r] = Failed(extract[r])
    <2>1. CASE Exhausted(extract[r])
      BY <1>6, <2>1 DEF ExtractFails, Leaves
    <2>2. CASE ~Exhausted(extract[r])
      BY <1>1, <1>6, <2>2, ExtractJobs
    <2> QED  BY <2>1, <2>2
  <1> QED  BY <1>2, <1>3, <1>4, <1>5, <1>6 DEF JobMoves, Works

LEMMA SeenStays ==
  ASSUME [Next]_vars, ~RunConsensus
  PROVE  UNCHANGED seen /\ due' \in {due, TRUE}
  <1>1. CASE SearchNext
    BY <1>1 DEF SearchNext, SearchStart, LookUp, Insert, ListAudits, AddAudit, ListAutos, AddAuto,
                SearchFails
  <1>2. CASE AuditNext
    BY <1>2 DEF AuditNext, AuditAsk, AuditSkips, AuditWrite, AuditFails
  <1>3. CASE ExtractNext
    BY <1>3 DEF ExtractNext, ExtractLoad, Fetched, NotFetched, Specified, NothingFound,
                ExtractTriggers, ExtractFails
  <1>4. ASSUME NEW a \in Admins, Acts(a) PROVE UNCHANGED seen /\ due' \in {due, TRUE}
    BY <1>4 DEF Acts, HandsOverAudit, PatchWrite, HandsOverExtraction, HandsOverConsensus,
                PrimaryClear, PrimarySet, AdminFails, CreateLookUp, CreateInsert, PatchRead,
                ReviewConfirm, ReviewReject, PrimaryRead, ExtractRequest, Delete
  <1>5. CASE (\E r \in Rows : Forget(r)) \/ UNCHANGED vars \/ UNCHANGED pipelineVars
    BY <1>5 DEF Forget, vars, pipelineVars
  <1> QED  BY <1>1, <1>2, <1>3, <1>4, <1>5, SomebodyActs DEF Next

LEMMA VotesDueStep ==
  ASSUME VoteInv, Inv, AuditTyped, SearchTyped, [Next]_vars
  PROVE  VotesDue'
  <1>1. CASE RunConsensus
    BY <1>1 DEF RunConsensus, VotesDue, Votes
  <1>2. CASE ~RunConsensus
    <2> SUFFICES ASSUME NEW r \in Rows, rows'[r].conf = "confirmed", rows'[r].specs, r \notin uncounted'
                 PROVE  r \in seen' \/ due' \/ extract'[r].owes
                        \/ \E a \in Admins : AdminWill(a, "consensus", r)'
      BY DEF VotesDue, Votes
    <2>1. /\ RowMoves(r) /\ JobMoves(r) /\ r \notin uncounted /\ UNCHANGED seen /\ (due => due')
          /\ ExtractTyped /\ JobKnows /\ VotesDue
      <3>1. UNCHANGED seen /\ (due => due')
        <4>1. UNCHANGED seen /\ due' \in {due, TRUE}
          BY <1>2, SeenStays
        <4>2. ASSUME due' = due PROVE due => due'
          BY ONLY <4>2, Zenon
        <4>3. ASSUME due' = TRUE PROVE due => due'
          BY ONLY <4>3, Zenon
        <4> QED  BY <4>1, <4>2, <4>3, Zenon
      <3> QED  BY <3>1, RowsMove, JobsMove, Recorded DEF VoteInv
    <2>2. CASE rows[r].conf = "confirmed" /\ Keeps(r)
      <3>1. rows[r].specs \/ extract'[r].owes
        BY <2>2 DEF Keeps
      <3>2. rows[r].specs => \/ r \in seen \/ due \/ extract[r].owes
                             \/ \E a \in Admins : AdminWill(a, "consensus", r)
        BY <2>1, <2>2 DEF VotesDue, Votes
      <3>3. extract[r].owes => extract'[r].owes \/ due'
        BY <2>1, <2>2, OwesMoves DEF Present, Confidence
      <3>4. ASSUME NEW a \in Admins, AdminWill(a, "consensus", r)
            PROVE  due' \/ AdminWill(a, "consensus", r)'
        <4>1. admin[a].pc = "consensus" /\ admin[a].row = r
          BY <3>4 DEF AdminWill
        <4>2. AdminMoves(a)
          BY <4>1, RequestsMove
        <4> QED  BY <4>1, <4>2 DEF AdminMoves, AdminWill, HandsOverExtraction, HandsOverConsensus,
                                   AdminFails
      <3> QED  BY <2>1, <3>1, <3>2, <3>3, <3>4
    <2>3. CASE rows[r].conf # "confirmed" /\ Confirms(r) /\ Keeps(r)
      <3>1. rows[r].specs \/ extract'[r].owes
        BY <2>3 DEF Keeps
      <3>2. CASE AuditWrite(r) /\ audit[r].verdict = "approve"
        BY <2>3, <3>1, <3>2 DEF AuditWrite
      <3>3. ASSUME NEW a \in Admins, admin'[a].row = r, admin'[a].pc = AfterConfirm(r)
            PROVE  AdminWill(a, "consensus", r)' \/ extract'[r].owes
        BY <3>1, <3>3 DEF AfterConfirm, AdminWill
      <3>4. ASSUME NEW a \in Admins, admin'[a].row = r, admin'[a].pc = "consensus"
            PROVE  AdminWill(a, "consensus", r)'
        BY <3>4 DEF AdminWill
      <3> QED  BY <2>3, <3>2, <3>3, <3>4 DEF Confirms
    <2>4. ASSUME NEW u, NEW triage, rows'[r] = Match(u, triage) PROVE FALSE
      BY <2>4 DEF Match
    <2> QED  BY <2>1, <2>2, <2>3, <2>4 DEF RowMoves
  <1> QED  BY <1>1, <1>2

LEMMA VoteInvInvariant == Spec => []VoteInv
  <1>1. Init => VoteInv
    <2>1. NoJob \in ExtractType /\ NoJob.state = "none" /\ ~NoJob.owes
      BY JobsAssumption DEF NoJob, ExtractType
    <2> QED  BY <2>1 DEF Init, VoteInv, ExtractTyped, JobKnows, VotesDue, Votes, Blank
  <1>2. ASSUME VoteInv, Inv, AuditTyped, SearchTyped, [Next]_vars PROVE VoteInv'
    BY <1>2, JobsMove, JobKnowsStep, VotesDueStep DEF VoteInv
  <1> QED  BY <1>1, <1>2, InvInvariant, AuditTypedInvariant, SearchTypedInvariant, PTL DEF Spec

(* A match that is confirmed and specified, in either order and by whomever,  *)
(* was counted by the consensus or is going to be: only a vote whose trigger  *)
(* was lost with its process, or that no code gives, is excused.              *)
THEOREM VotesGoOn == Spec => []VotesAreCounted
  <1>1. VoteInv => VotesAreCounted
    BY DEF VoteInv, VotesDue, VotesAreCounted, AdminWill
  <1> QED  BY <1>1, VoteInvInvariant, PTL

----------------------------------------------------------------------------
(* The types. A row has a url from its creation on, its deletion included.    *)

RowsFit == \A r \in Rows : rows[r].conf = "none" <=> rows[r].url = None

LEMMA RowsFitStep ==
  ASSUME RowsFit, Inv, SearchTyped, AuditTyped, ExtractTyped, [Next]_vars
  PROVE  RowsFit'
  <1> SUFFICES ASSUME NEW r \in Rows PROVE rows'[r].conf = "none" <=> rows'[r].url = None
    BY DEF RowsFit
  <1>1. RowMoves(r)
    BY RowsMove
  <1>2. ASSUME NEW u \in Urls, NEW triage, rows'[r] = Match(u, triage)
        PROVE  rows'[r].conf # "none" /\ rows'[r].url # None
    BY <1>2, QueueAssumption DEF Match
  <1>3. CASE Insert /\ rows'[r] = Match(search.url, search.todo[search.url])
    <2>1. search.url \in Urls
      BY <1>3, FoundIs DEF Insert, SearchTyped, SearchType
    <2> QED  BY <1>2, <1>3, <2>1
  <1>4. ASSUME NEW a \in Admins, CreateInsert(a, r),
               rows'[r] = Match(admin[a].url, admin[a].triage)
        PROVE  rows'[r].conf = "none" <=> rows'[r].url = None
    <2>1. admin[a].url \in Urls
      BY <1>4 DEF CreateInsert, Inv, Shape, KnowsItsRow
    <2> QED  BY <1>2, <1>4, <2>1
  <1> QED  BY <1>1, <1>3, <1>4 DEF RowMoves, Keeps, RowsFit

(* Faults and requests stay within their bound.                               *)
EventsFit == events \in 0 .. MaxEvents

LEMMA EventsFitStep ==
  ASSUME EventsFit, [Next]_vars
  PROVE  EventsFit'
  <1>1. ASSUME NEW kind, Event(kind) PROVE EventsFit'
    BY <1>1, QueueAssumption DEF EventsFit, Event
  <1>2. ASSUME UNCHANGED events PROVE EventsFit'
    BY <1>2 DEF EventsFit
  <1>3. CASE SearchNext
    BY <1>1, <1>2, <1>3 DEF SearchNext, SearchStart, LookUp, Insert, ListAudits, AddAudit,
                            ListAutos, AddAuto, SearchFails, Breaks
  <1>4. CASE AuditNext
    BY <1>1, <1>2, <1>4 DEF AuditNext, AuditAsk, AuditSkips, AuditWrite, AuditFails, Breaks
  <1>5. CASE ExtractNext
    BY <1>1, <1>2, <1>5 DEF ExtractNext, ExtractLoad, Fetched, NotFetched, Specified,
                            NothingFound, ExtractTriggers, ExtractFails
  <1>6. ASSUME NEW a \in Admins, Acts(a) PROVE EventsFit'
    BY <1>1, <1>2, <1>6
       DEF Acts, HandsOverAudit, PatchWrite, HandsOverExtraction, HandsOverConsensus,
           PrimaryClear, PrimarySet, AdminFails, Breaks, CreateLookUp, CreateInsert, PatchRead,
           ReviewConfirm, ReviewReject, PrimaryRead, ExtractRequest, Delete, Asks
  <1>7. CASE SweepNext
    BY <1>1, <1>2, <1>7 DEF SweepNext, Recover, Claim, GiveUp, Scrape, Harvested, Completed,
                            NoPage, SweepDies
  <1>8. CASE RunConsensus \/ (\E r \in Rows : Forget(r)) \/ UNCHANGED vars
    BY <1>1, <1>2, <1>8 DEF RunConsensus, Forget, vars
  <1> QED  BY <1>3, <1>4, <1>5, <1>6, <1>7, <1>8, SomebodyActs DEF Next

(* What is counted and recorded besides.                                      *)
Tallies ==
    /\ searches \in 0 .. MaxSearches /\ due \in BOOLEAN /\ seen \subseteq Rows
    /\ unextracted \subseteq Rows /\ uncounted \subseteq Rows
    /\ overlapped \subseteq Urls

LEMMA TalliesStep ==
  ASSUME Tallies, Inv, SearchTyped, [Next]_vars
  PROVE  Tallies'
  <1>1. CASE SearchNext
    <2>1. CASE SearchStart
      BY <2>1, JobsAssumption DEF SearchStart, Tallies
    <2>2. CASE LookUp
      <3>1. PICK u \in DOMAIN search.todo : overlapped' \in {overlapped, overlapped \union {u}}
        BY <2>2 DEF LookUp, Meets
      <3>2. u \in Urls
        BY FoundIs DEF SearchTyped, SearchType
      <3> QED  BY <2>2, <3>1, <3>2 DEF LookUp, Tallies
    <2>3. CASE SearchFails
      BY <2>3 DEF SearchFails, Unqueued, Tallies
    <2> QED  BY <1>1, <2>1, <2>2, <2>3 DEF SearchNext, Insert, ListAudits, AddAudit, ListAutos,
                                           AddAuto, Tallies
  <1>2. CASE AuditNext
    BY <1>2 DEF AuditNext, AuditAsk, AuditSkips, AuditWrite, AuditFails, Tallies
  <1>3. CASE ExtractNext
    BY <1>3 DEF ExtractNext, ExtractLoad, Fetched, NotFetched, Specified, NothingFound,
                ExtractTriggers, ExtractFails, Leaves, Tallies
  <1>4. ASSUME NEW a \in Admins, Acts(a) PROVE Tallies'
    <2>1. CASE AdminFails(a)
      <3>1. admin[a].pc \in {"extraction", "consensus"} => admin[a].row \in Rows
        BY DEF Inv, Shape, KnowsItsRow
      <3> QED  BY <2>1, <3>1 DEF AdminFails, Tallies
    <2>2. ASSUME NEW u \in Urls, CreateLookUp(a, u) PROVE Tallies'
      BY <2>2 DEF CreateLookUp, Meets, Tallies
    <2>3. CASE \/ HandsOverAudit(a) \/ PatchWrite(a) \/ HandsOverExtraction(a)
               \/ HandsOverConsensus(a) \/ PrimaryClear(a) \/ PrimarySet(a)
      BY <2>3 DEF HandsOverAudit, PatchWrite, HandsOverExtraction, HandsOverConsensus,
                  PrimaryClear, PrimarySet, Tallies
    <2>4. ASSUME NEW r \in Rows,
                 \/ CreateInsert(a, r) \/ PatchRead(a, r) \/ ReviewConfirm(a, r)
                 \/ ReviewReject(a, r) \/ PrimaryRead(a, r) \/ ExtractRequest(a, r)
                 \/ Delete(a, r)
          PROVE  Tallies'
      BY <2>4 DEF CreateInsert, PatchRead, ReviewConfirm, ReviewReject, PrimaryRead,
                  ExtractRequest, Delete, Tallies
    <2> QED  BY <1>4, <2>1, <2>2, <2>3, <2>4 DEF Acts
  <1>5. CASE RunConsensus
    BY <1>5 DEF RunConsensus, Votes, Tallies
  <1>6. CASE (\E r \in Rows : Forget(r)) \/ UNCHANGED vars \/ UNCHANGED pipelineVars
    BY <1>6 DEF Forget, vars, pipelineVars, Tallies
  <1> QED  BY <1>1, <1>2, <1>3, <1>4, <1>5, <1>6, SomebodyActs DEF Next

(* The sweeps: the page that one scrapes is a page that there is.             *)
AtKnown ==
    \A s \in Sweeps : /\ sweep[s].at.page \in DOMAIN pages \union {0}
                      /\ sweep[s].pc = "scrape" => sweep[s].at.page \in DOMAIN pages

SweepsFit == harvest \subseteq Urls /\ Len(pages) <= MaxPages /\ AtKnown

LEMMA HarvestFits ==
  ASSUME SweepsFit, PagesTyped, RowsFit, Inv, JobKnows, [Next]_vars
  PROVE  harvest' \subseteq Urls
  <1>1. ASSUME UNCHANGED harvest PROVE harvest' \subseteq Urls
    BY <1>1 DEF SweepsFit
  <1>2. CASE SearchNext
    BY <1>1, <1>2 DEF SearchNext, SearchStart, LookUp, Insert, ListAudits, AddAudit, ListAutos,
                      AddAuto, SearchFails, sweepVars
  <1>3. CASE AuditNext
    BY <1>1, <1>3 DEF AuditNext, AuditAsk, AuditSkips, AuditWrite, AuditFails, sweepVars
  <1>4. ASSUME NEW r \in Rows, Fetched(r) PROVE harvest' \subseteq Urls
    <2>1. rows[r].conf # "none"
      BY <1>4 DEF Fetched, JobKnows
    <2>2. rows[r].url \in Urls
      BY <2>1 DEF RowsFit, Inv, Shape, RowType
    <2> QED  BY <1>4, <2>2 DEF Fetched, SweepsFit
  <1>5. ASSUME NEW r \in Rows,
               \/ ExtractLoad(r) \/ NotFetched(r) \/ Specified(r)
               \/ NothingFound(r) \/ ExtractTriggers(r) \/ ExtractFails(r)
        PROVE  harvest' \subseteq Urls
    BY <1>1, <1>5 DEF ExtractLoad, NotFetched, Specified, NothingFound, ExtractTriggers,
                      ExtractFails, sweepVars
  <1>6. CASE ExtractNext
    BY <1>4, <1>5, <1>6 DEF ExtractNext
  <1>7. ASSUME NEW a \in Admins, Acts(a) PROVE harvest' \subseteq Urls
    BY <1>1, <1>7
       DEF Acts, HandsOverAudit, PatchWrite, HandsOverExtraction, HandsOverConsensus,
           PrimaryClear, PrimarySet, AdminFails, CreateLookUp, CreateInsert, PatchRead,
           ReviewConfirm, ReviewReject, PrimaryRead, ExtractRequest, Delete, sweepVars
  <1>8. ASSUME NEW s \in Sweeps, Harvested(s) PROVE harvest' \subseteq Urls
    <2>1. sweep[s].at.page \in DOMAIN pages
      BY <1>8 DEF Harvested, SweepsFit, AtKnown
    <2>2. pages[sweep[s].at.page].url \in Urls
      <3>1. \A p \in DOMAIN pages : pages[p] \in Page
        BY DEF PagesTyped
      <3> QED  BY <2>1, <3>1 DEF Page
    <2> QED  BY <1>8, <2>2 DEF Harvested, SweepsFit
  <1>9. CASE SweepNext
    BY <1>1, <1>8, <1>9 DEF SweepNext, Recover, Claim, GiveUp, Scrape, Completed, NoPage, SweepDies
  <1>10. CASE RunConsensus \/ (\E r \in Rows : Forget(r)) \/ UNCHANGED vars
    BY <1>1, <1>10 DEF RunConsensus, Forget, vars, sweepVars
  <1> QED  BY <1>2, <1>3, <1>6, <1>7, <1>9, <1>10, SomebodyActs DEF Next

(* Only an extraction adds a page.                                            *)
PagesStay == DOMAIN pages' = DOMAIN pages

(* What a step does to a sweep.                                               *)
SweepMoves(s) ==
    \/ sweep'[s] = sweep[s]
    \/ sweep'[s].pc # "scrape" /\ sweep'[s].at \in {NoClaim, sweep[s].at}
    \/ sweep'[s].at \in sweep[s].batch

LEMMA SweepsMove ==
  ASSUME ScrapesInv, NEW s \in Sweeps,
         \/ Recover(s) \/ Claim(s) \/ GiveUp(s) \/ Scrape(s)
         \/ Harvested(s) \/ Completed(s) \/ NoPage(s) \/ SweepDies(s)
  PROVE  PagesStay /\ \A t \in Sweeps : SweepMoves(t)
  <1>1. PagesTyped /\ sweep[s] \in SweepType
    BY DEF ScrapesInv, PagesTyped
  <1>2. ASSUME NEW v, sweep' = [sweep EXCEPT ![s] = v],
               \/ v.pc # "scrape" /\ v.at \in {NoClaim, sweep[s].at}
               \/ v.at \in sweep[s].batch
        PROVE  \A t \in Sweeps : SweepMoves(t)
    BY <1>1, <1>2 DEF SweepMoves, PagesTyped
  <1>3. ASSUME NEW rest, GoOn(s, rest) PROVE \A t \in Sweeps : SweepMoves(t)
    <2> DEFINE v == [pc |-> IF rest = {} THEN "idle" ELSE "work", batch |-> rest, at |-> NoClaim]
    <2>1. v.pc # "scrape" /\ v.at = NoClaim
      OBVIOUS
    <2>2. sweep' = [sweep EXCEPT ![s] = v]
      BY <1>3 DEF GoOn
    <2> HIDE DEF v
    <2> QED  BY <1>2, <2>1, <2>2
  <1>4. ASSUME NEW pc \in {"claim", "store"}, sweep' = [sweep EXCEPT ![s] = [@ EXCEPT !.pc = pc]]
        PROVE  \A t \in Sweeps : SweepMoves(t)
    <2> DEFINE v == [sweep[s] EXCEPT !.pc = pc]
    <2>1. v.pc # "scrape" /\ v.at = sweep[s].at
      BY <1>1 DEF SweepType
    <2>2. sweep' = [sweep EXCEPT ![s] = v]
      BY <1>4
    <2> HIDE DEF v
    <2> QED  BY <1>2, <2>1, <2>2
  <1>5. CASE Recover(s)
    <2>1. sweep' = [sweep EXCEPT ![s] = [@ EXCEPT !.pc = "claim"]] /\ PagesStay
      BY <1>5 DEF Recover, PagesStay
    <2> QED  BY <1>4, <2>1
  <1>6. CASE Claim(s)
    <2>1. PICK taken :
             sweep' = [sweep EXCEPT ![s] =
                          [sweep[s] EXCEPT !.pc = IF taken = {} THEN "idle" ELSE "work",
                                           !.batch = {[page |-> p, number |-> Numbered(p)] : p \in taken}]]
      BY <1>6 DEF Claim
    <2> DEFINE v == [sweep[s] EXCEPT !.pc = IF taken = {} THEN "idle" ELSE "work",
                                     !.batch = {[page |-> p, number |-> Numbered(p)] : p \in taken}]
    <2>2. v.pc # "scrape" /\ v.at = sweep[s].at
      BY <1>1 DEF SweepType
    <2>3. PagesStay
      BY <1>6 DEF Claim, PagesStay
    <2> HIDE DEF v
    <2> QED  BY <1>2, <2>1, <2>2, <2>3 DEF v
  <1>7. CASE GiveUp(s)
    BY <1>3, <1>7 DEF GiveUp, SetStatus, PagesStay
  <1>8. CASE Scrape(s)
    <2>1. PICK c \in sweep[s].batch :
             /\ pages' = [pages EXCEPT ![c.page].scrapes = @ + 1]
             /\ sweep' = [sweep EXCEPT ![s] =
                             [pc |-> "scrape", batch |-> sweep[s].batch \ {c}, at |-> c]]
      BY <1>8 DEF Scrape
    <2> DEFINE v == [pc |-> "scrape", batch |-> sweep[s].batch \ {c}, at |-> c]
    <2>2. v.at = c /\ sweep' = [sweep EXCEPT ![s] = v] /\ PagesStay
      BY <2>1 DEF PagesStay
    <2> HIDE DEF v
    <2> QED  BY <1>2, <2>2
  <1>9. CASE Harvested(s)
    BY <1>4, <1>9 DEF Harvested, PagesStay
  <1>10. CASE Completed(s) \/ NoPage(s)
    BY <1>3, <1>10 DEF Completed, NoPage, SetStatus, PagesStay
  <1>11. CASE SweepDies(s)
    <2>1. Idle.pc # "scrape" /\ Idle.at = NoClaim
      BY DEF Idle
    <2> QED  BY <1>2, <1>11, <2>1 DEF SweepDies, PagesStay
  <1> QED  BY <1>5, <1>6, <1>7, <1>8, <1>9, <1>10, <1>11

LEMMA SweepsFitStep ==
  ASSUME SweepsFit, ScrapesInv, RowsFit, Inv, JobKnows, [Next]_vars
  PROVE  SweepsFit'
  <1>1. harvest' \subseteq Urls
    BY HarvestFits DEF ScrapesInv
  <1>2. DOMAIN pages = 1 .. Len(pages) /\ Len(pages) \in Nat /\ pages \in Seq(Page)
    BY DEF ScrapesInv, PagesTyped
  <1>3. ASSUME DOMAIN pages \subseteq DOMAIN pages', Len(pages') <= MaxPages,
               \A s \in Sweeps : SweepMoves(s)
        PROVE  SweepsFit'
    <2>1. \A s \in Sweeps : \A c \in sweep[s].batch : c.page \in DOMAIN pages
      BY DEF ScrapesInv, ClaimsGiven
    <2>2. NoClaim.page = 0
      BY DEF NoClaim
    <2> QED  BY <1>1, <1>3, <2>1, <2>2 DEF SweepsFit, AtKnown, SweepMoves
  <1>4. ASSUME UNCHANGED <<pages, sweep>> PROVE SweepsFit'
    BY <1>3, <1>4 DEF SweepMoves, SweepsFit
  <1>5. CASE SweepNext
    <2>1. PagesStay /\ \A s \in Sweeps : SweepMoves(s)
      BY <1>5, SweepsMove DEF SweepNext
    <2>2. pages' \in Seq(Page)
      <3>1. ScrapesInv'
        BY <1>5, ClaimInv, ScrapeInv, QuietSweeps, IdlesInv DEF SweepNext
      <3> QED  BY <3>1 DEF ScrapesInv, PagesTyped
    <2>3. DOMAIN pages' = 1 .. Len(pages') /\ Len(pages') \in Nat
      BY <2>2
    <2>4. Len(pages') = Len(pages)
      <3>1. \A m \in Nat, n \in Nat : 1 .. m = 1 .. n => m = n
        <4>1. ASSUME NEW m \in Nat, NEW n \in Nat, 1 .. m = 1 .. n PROVE ~(m < n) /\ ~(n < m)
          <5>1. m + 1 \in 1 .. n => m + 1 \in 1 .. m
            BY <4>1
          <5>2. n + 1 \in 1 .. m => n + 1 \in 1 .. n
            BY <4>1
          <5> QED  BY <4>1, <5>1, <5>2
        <4> QED  BY <4>1
      <3> QED  BY <1>2, <2>1, <2>3, <3>1 DEF PagesStay
    <2> QED  BY <1>3, <2>1, <2>4 DEF SweepsFit, PagesStay
  <1>6. ASSUME NEW r \in Rows, NotFetched(r) PROVE SweepsFit'
    <2>1. UNCHANGED sweep
      BY <1>6 DEF NotFetched
    <2>2. CASE UNCHANGED pages
      BY <1>4, <2>1, <2>2
    <2>3. ASSUME NEW attempts \in {0, 1}, pages' = Queued(rows[r].url, attempts),
                 Len(pages) < MaxPages
          PROVE  SweepsFit'
      <3>1. Len(pages') = Len(pages) + 1 /\ DOMAIN pages' = 1 .. (Len(pages) + 1)
        BY <1>2, <2>3 DEF Queued
      <3>2. Len(pages') <= MaxPages /\ DOMAIN pages \subseteq DOMAIN pages'
        BY <1>2, <2>3, <3>1, QueueAssumption
      <3> QED  BY <1>3, <2>1, <3>2 DEF SweepMoves
    <2> QED  BY <1>6, <2>2, <2>3 DEF NotFetched
  <1>7. CASE SearchNext
    BY <1>4, <1>7 DEF SearchNext, SearchStart, LookUp, Insert, ListAudits, AddAudit, ListAutos,
                      AddAuto, SearchFails, sweepVars
  <1>8. CASE AuditNext
    BY <1>4, <1>8 DEF AuditNext, AuditAsk, AuditSkips, AuditWrite, AuditFails, sweepVars
  <1>9. ASSUME NEW r \in Rows,
               \/ ExtractLoad(r) \/ Fetched(r) \/ Specified(r)
               \/ NothingFound(r) \/ ExtractTriggers(r) \/ ExtractFails(r)
        PROVE  SweepsFit'
    BY <1>4, <1>9 DEF ExtractLoad, Fetched, Specified, NothingFound, ExtractTriggers,
                      ExtractFails, sweepVars
  <1>10. ASSUME NEW a \in Admins, Acts(a) PROVE SweepsFit'
    BY <1>4, <1>10
       DEF Acts, HandsOverAudit, PatchWrite, HandsOverExtraction, HandsOverConsensus,
           PrimaryClear, PrimarySet, AdminFails, CreateLookUp, CreateInsert, PatchRead,
           ReviewConfirm, ReviewReject, PrimaryRead, ExtractRequest, Delete, sweepVars
  <1>11. CASE RunConsensus \/ (\E r \in Rows : Forget(r)) \/ UNCHANGED vars
    BY <1>4, <1>11 DEF RunConsensus, Forget, vars, sweepVars
  <1> QED  BY <1>5, <1>6, <1>7, <1>8, <1>9, <1>10, <1>11, SomebodyActs DEF Next, ExtractNext

(* Every row, job, request, page and sweep keeps to its type: an attempt is   *)
(* never counted beyond the last one, a listing, a hand-over and a record     *)
(* name rows that there are, and what is harvested or queued is a url.        *)
THEOREM TypesHold == Spec => []TypeOK
  <1> DEFINE Fits == RowsFit /\ EventsFit /\ Tallies /\ SweepsFit
  <1>1. Init => Fits
    <2>1. Init => RowsFit
      BY DEF Init, RowsFit, Blank
    <2>2. Init => EventsFit /\ Tallies
      <3>1. 0 \in 0 .. MaxEvents /\ MaxSearches \in 0 .. MaxSearches
        BY JobsAssumption, QueueAssumption
      <3> QED  BY <3>1 DEF Init, SweepInit, EventsFit, Tallies
    <2>3. Init => SweepsFit
      <3>1. Idle.at.page = 0 /\ Idle.pc = "idle"
        BY DEF Idle, NoClaim
      <3> QED  BY <3>1, QueueAssumption DEF Init, SweepInit, SweepsFit, AtKnown
    <2> QED  BY <2>1, <2>2, <2>3
  <1>2. ASSUME Fits, VoteInv, ScrapesInv, Inv, SearchTyped, AuditTyped, [Next]_vars PROVE Fits'
    BY <1>2, RowsFitStep, EventsFitStep, TalliesStep, SweepsFitStep DEF VoteInv
  <1>3. ASSUME Fits, VoteInv, ScrapesInv, Inv, SearchTyped, AuditTyped PROVE TypeOK
    <2>1. SweepTypeOK
      <3>1. \A p \in DOMAIN pages : pages[p] \in Page /\ p \in 1 .. MaxPages
        BY <1>3, QueueAssumption DEF ScrapesInv, PagesTyped, SweepsFit
      <3>2. ASSUME NEW s \in Sweeps
            PROVE  /\ sweep[s].pc \in {"idle", "claim", "work", "scrape", "store"}
                   /\ \A c \in sweep[s].batch \union {sweep[s].at} : c \in Claims
        <4>1. sweep[s] \in SweepType
          BY <1>3 DEF ScrapesInv, PagesTyped
        <4>2. \A c \in sweep[s].batch \union {sweep[s].at} :
                 c \in ClaimType /\ c.page \in DOMAIN pages \union {0}
          BY <1>3, <4>1 DEF SweepType, ScrapesInv, ClaimsGiven, SweepsFit, AtKnown
        <4>3. \A c \in ClaimType : c.page \in 0 .. MaxPages => c \in Claims
          BY DEF ClaimType, Claims
        <4>4. \A p \in DOMAIN pages \union {0} : p \in 0 .. MaxPages
          BY <3>1, QueueAssumption
        <4> QED  BY <4>1, <4>2, <4>3, <4>4 DEF SweepType
      <3> QED  BY <1>3, <3>1, <3>2 DEF SweepTypeOK, SweepsFit, EventsFit
    <2>2. ASSUME NEW r \in Rows
          PROVE  /\ rows[r].url \in Urls \union {None}
                 /\ rows[r].conf \in Confidence \union {"none", "gone"}
                 /\ rows[r].triage \in Triages \union {"none"}
                 /\ rows[r].specs \in BOOLEAN /\ rows[r].primary \in BOOLEAN
                 /\ (rows[r].conf = "none") = (rows[r].url = None)
      BY <1>3 DEF Inv, Shape, RowType, RowsFit
    <2>3. ASSUME NEW r \in Rows PROVE audit[r] \in Job /\ extract[r] \in Job
      <3>1. audit[r] \in AuditType /\ extract[r] \in ExtractType
        BY <1>3 DEF AuditTyped, VoteInv, ExtractTyped
      <3> QED  BY <3>1 DEF AuditType, ExtractType, Job
    <2>4. /\ search.pc \in {"idle", "retry", "rows", "insert", "audits", "autos"}
          /\ search.list \subseteq Rows /\ search.attempt \in 0 .. MaxAttempts
      BY <1>3 DEF SearchTyped, SearchType
    <2>5. ASSUME NEW a \in Admins
          PROVE  /\ admin[a].pc \in {"idle", "insert", "audit", "patch", "extraction", "consensus",
                                     "clear", "set"}
                 /\ admin[a].held \subseteq Rows
      BY <1>3 DEF Inv, Shape, RequestType
    <2> QED  BY <1>3, <2>1, <2>2, <2>3, <2>4, <2>5 DEF TypeOK, Tallies
  <1> HIDE DEF Fits
  <1> QED  BY <1>1, <1>2, <1>3, VoteInvInvariant, ScrapesInvInvariant, InvInvariant,
              SearchTypedInvariant, AuditTypedInvariant, PTL DEF Spec

==============================================================================
