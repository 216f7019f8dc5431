-------------------------------- MODULE Search --------------------------------
(***************************************************************************)
(* The search index: two tables of documents, of which the view shows one, *)
(* the offers and the figures derived from them, the handlers that follow  *)
(* the events of the other contexts, and the job that rebuilds the index.  *)
(*                                                                         *)
(* Every statement is a transaction of its own: neither a handler nor the  *)
(* job holds one.  The relay runs one handler at a time.  The events of    *)
(* different aggregates come in any order.  Those of one aggregate come in *)
(* the order they were written, but an event whose handler has failed      *)
(* waits for its next attempt, and later ones may come before it.          *)
(***************************************************************************)
EXTENDS Integers, Sequences, FiniteSets, SequencesExt, Functions

CONSTANTS
    Products,    \* product ids: numbers, for the feed goes through them in order
    Covers,      \* 0 .. n: the processed cover images of a product, 0 is none
    Offers, ProductOf, Sellers, SellerOf, PriceOf,
    FeedBatch,   \* Policy.FeedBatch
    ReindexJobs, Requests,  \* reindex jobs, and goroutines of requests for one
    MaxLagging,  \* bound on the changes under way when a job starts
    MaxFaults,   \* bound on failed statements and crashes
    MaxEvents,   \* bound on the events that wait
    None

VARIABLES
    published, cover,  \* the catalog: published products, the cover of each
    shop,      \* offer -> its status in the catalog, its units in inventory
    sells,     \* the sellers that may sell
    queue,     \* aggregate -> its events that no handler has consumed
    docs,      \* table -> product -> the cover of its document, or NoDocument
    view,      \* the table the view shows
    active,    \* index_state.active
    rows,      \* search.product_offers and search.sellers
    stats,     \* product -> search.product_stats
    job,       \* search.reindex_jobs
    request,   \* request -> what the goroutine of RequestReindex has read
    run,       \* the worker's goroutine that rebuilds
    handler,   \* the relay's goroutine that handles an event
    lagging,   \* changes that had taken their time when the last job started, and have
               \* not committed
    recent,    \* products whose updated_at is not before the start of the job
    missed,    \* products of which a change took its time before the start of the job
               \* and committed after it
    outdated,     \* aggregates of which an event was consumed after a later one
    overtaken, \* a product changed between the scan and the saving of a batch, or a
               \* handler wrote late, into the table that is being rebuilt
    early,     \* offers whose stock was announced before the offer was known
    faults

searchVars == <<published, cover, shop, sells, queue, docs, view, active, rows, stats, job,
                request, run, handler, lagging, recent, missed, outdated, overtaken, early,
                faults>>

catalogSide == <<published, cover, shop, sells>>
indexSide == <<docs, view, active, rows, stats>>
jobSide == <<job, request, run>>
notes == <<lagging, recent, missed, outdated, overtaken, early>>

-----------------------------------------------------------------------------
Tables == {"documents_a", "documents_b"}
NoDocument == -1

Aggregates == ({"product"} \X Products) \cup ({"offer", "stock"} \X Offers)
                  \cup ({"seller"} \X Sellers)

Waiting == SumFunction([a \in Aggregates |-> Len(queue[a])])

(* product_stats: the offers in stock, and the smallest price, 0 for none. *)
StatsRow == [offers : 0 .. Cardinality(Offers), price : {0} \cup {PriceOf[o] : o \in Offers}]

ReindexJob == [status : {"none", "pending", "running", "completed", "failed"},
               target : Tables \cup {None}]

(* What a moderator and the worker change of a product, each in a          *)
(* transaction of its own.                                                 *)
Changes == {"publish", "process"} \X Products

Idle == [at |-> "idle", agg |-> None, nth |-> 1, event |-> None, table |-> None]
Rests == [at |-> "idle", job |-> None, after |-> 0, batch |-> <<>>, second |-> FALSE]

TypeOK ==
    /\ published \subseteq Products /\ cover \in [Products -> Covers]
    /\ Waiting <= MaxEvents
    /\ docs \in [Tables -> [Products -> Covers \cup {NoDocument}]]
    /\ view \in Tables /\ active \in Tables
    /\ stats \in [Products -> StatsRow]
    /\ job \in [ReindexJobs -> ReindexJob]
    /\ lagging \subseteq Changes
    /\ recent \subseteq published /\ missed \subseteq published
    /\ handler.at # "idle" => handler.nth \in DOMAIN queue[handler.agg]
    /\ faults \in 0 .. MaxFaults

Init ==
    /\ published = {} /\ cover = [p \in Products |-> 0]
    /\ shop = [o \in Offers |-> [status |-> "none", available |-> 0]]
    /\ sells = {}
    /\ queue = [a \in Aggregates |-> <<>>]
    /\ docs = [t \in Tables |-> [p \in Products |-> NoDocument]]
    /\ view = "documents_a" /\ active = "documents_a"
    /\ rows = [offer |-> [o \in Offers |-> [status |-> "none", available |-> 0]], sells |-> {}]
    /\ stats = [p \in Products |-> [offers |-> 0, price |-> 0]]
    /\ job = [j \in ReindexJobs |-> [status |-> "none", target |-> None]]
    /\ request = [r \in Requests |-> [at |-> "idle", target |-> None]]
    /\ run = Rests /\ handler = Idle
    /\ lagging = {} /\ recent = {} /\ missed = {} /\ outdated = {} /\ overtaken = FALSE /\ early = {}
    /\ faults = 0

-----------------------------------------------------------------------------
(* The other contexts change their state and write the event with it.      *)

(* An event whose handler has failed is in its back-off; it is behind once *)
(* a later one was consumed.                                               *)
Announce(agg, event) ==
    /\ Waiting < MaxEvents
    /\ queue' = [queue EXCEPT ![agg] =
                    Append(@, [event |-> event, failed |-> FALSE, behind |-> FALSE])]

(* The job has scanned the product and has not saved it yet.               *)
Overtakes(p) == \E i \in DOMAIN run.batch : run.batch[i].id = p

(* A handler takes the time before it begins its transaction, and the save *)
(* puts it into updated_at.  When that was matters beside the start of a   *)
(* job only.                                                               *)
Update(c) ==
    \/ /\ recent' = recent \cup {c[2]}
       /\ UNCHANGED <<lagging, missed>>
    \/ /\ c \in lagging
       /\ lagging' = lagging \ {c}
       /\ recent' = recent \ {c[2]}
       /\ missed' = missed \cup {c[2]}

Publish(p) ==
    /\ p \notin published
    /\ published' = published \cup {p}
    /\ Update(<<"publish", p>>)
    /\ Announce(<<"product", p>>, [name |-> "published", cover |-> cover[p]])
    /\ UNCHANGED <<cover, shop, sells, indexSide, jobSide, handler, outdated, overtaken, early,
                   faults>>

(* An image of a published product comes out of processing.                *)
MarkProcessed(p) ==
    /\ p \in published /\ cover[p] + 1 \in Covers
    /\ cover' = [cover EXCEPT ![p] = @ + 1]
    /\ Update(<<"process", p>>)
    /\ overtaken' = (overtaken \/ Overtakes(p))
    /\ Announce(<<"product", p>>, [name |-> "image_processed", cover |-> cover[p] + 1])
    /\ UNCHANGED <<published, shop, sells, indexSide, jobSide, handler, outdated, early, faults>>

ChangeOffer(o, status) ==
    /\ shop[o].status # status
    /\ shop' = [shop EXCEPT ![o].status = status]
    /\ Announce(<<"offer", o>>, [name |-> "offer", status |-> status])
    /\ UNCHANGED <<published, cover, sells, indexSide, jobSide, handler, notes, faults>>

ChangeStock(o, available) ==
    /\ shop[o].status # "none" /\ shop[o].available # available
    /\ shop' = [shop EXCEPT ![o].available = available]
    /\ Announce(<<"stock", o>>, [name |-> "stock", available |-> available])
    /\ UNCHANGED <<published, cover, sells, indexSide, jobSide, handler, notes, faults>>

ChangeSeller(s) ==
    /\ sells' = (sells \ {s}) \cup ({s} \ sells)
    /\ Announce(<<"seller", s>>, [name |-> "seller", sells |-> s \notin sells])
    /\ UNCHANGED <<published, cover, shop, indexSide, jobSide, handler, notes, faults>>

-----------------------------------------------------------------------------
(* The statements of the index.                                            *)

InactiveTable == CHOOSE t \in Tables : t # active

SaveDocument(table, p, c) == docs' = [docs EXCEPT ![table][p] = c]

(* An update: a product that has no document gets none.                    *)
SetCover(table, p, c) ==
    docs' = [docs EXCEPT ![table][p] = IF @ = NoDocument THEN @ ELSE c]

Truncate(table) == docs' = [docs EXCEPT ![table] = [p \in Products |-> NoDocument]]

InStock(o, r) == r.offer[o].status = "active" /\ r.offer[o].available > 0 /\ SellerOf[o] \in r.sells

SmallestPrice(offers) ==
    IF offers = {} THEN 0
    ELSE CHOOSE n \in {PriceOf[o] : o \in offers} : \A o \in offers : n <= PriceOf[o]

Figures(p, r) ==
    LET offers == {o \in Offers : ProductOf[o] = p /\ InStock(o, r)}
    IN  [offers |-> Cardinality(offers), price |-> SmallestPrice(offers)]

Refresh(products) ==
    stats' = [p \in Products |-> IF p \in products THEN Figures(p, rows) ELSE stats[p]]

RefreshProduct(p) == Refresh({p})
RefreshSeller(s) ==
    Refresh({ProductOf[o] : o \in {x \in Offers : SellerOf[x] = s /\ rows.offer[x].status # "none"}})

-----------------------------------------------------------------------------
(* The handlers of the events.                                             *)

(* The relay fetches the events that are due.                              *)
Deliver(agg, n) ==
    /\ handler.at = "idle" /\ n \in DOMAIN queue[agg]
    /\ \A m \in 1 .. n - 1 : queue[agg][m].failed
    /\ handler' = [Idle EXCEPT !.at = IF agg[1] = "product" THEN "table" ELSE "write",
                               !.agg = agg, !.nth = n, !.event = queue[agg][n].event]
    /\ UNCHANGED <<catalogSide, queue, indexSide, jobSide, notes, faults>>

Consume ==
    LET agg == handler.agg
        n == handler.nth
    IN  /\ handler' = Idle
        /\ queue' = [queue EXCEPT ![agg] = RemoveAt(
                [m \in DOMAIN @ |-> IF m < n THEN [@[m] EXCEPT !.behind = TRUE] ELSE @[m]], n)]
        /\ outdated' = IF queue[agg][n].behind THEN outdated \cup {agg} ELSE outdated \ {agg}

ActiveTable ==
    /\ handler.at = "table"
    /\ handler' = [handler EXCEPT !.table = active, !.at = "write"]
    /\ UNCHANGED <<catalogSide, queue, indexSide, jobSide, notes, faults>>

WritesLate == overtaken' = (overtaken \/ (handler.table # active /\ run.at # "idle"
                                              /\ job[run.job].target = handler.table))

IndexProduct ==
    /\ handler.at = "write" /\ handler.event.name = "published"
    /\ SaveDocument(handler.table, handler.agg[2], handler.event.cover)
    /\ WritesLate
    /\ handler' = [handler EXCEPT !.at = "refresh"]
    /\ UNCHANGED <<catalogSide, queue, view, active, rows, stats, jobSide, lagging, recent, missed,
                   outdated, early, faults>>

SetProductCover ==
    /\ handler.at = "write" /\ handler.event.name = "image_processed"
    /\ SetCover(handler.table, handler.agg[2], handler.event.cover)
    /\ WritesLate
    /\ Consume
    /\ UNCHANGED <<catalogSide, view, active, rows, stats, jobSide, lagging, recent, missed, early,
                   faults>>

IndexOffer ==
    /\ handler.at = "write" /\ handler.event.name = "offer"
    /\ rows' = [rows EXCEPT !.offer[handler.agg[2]].status = handler.event.status]
    /\ handler' = [handler EXCEPT !.at = "refresh"]
    /\ UNCHANGED <<catalogSide, queue, docs, view, active, stats, jobSide, notes, faults>>

(* The stock of an offer that is not known yet is not kept.                *)
IndexStock ==
    /\ handler.at = "write" /\ handler.event.name = "stock"
    /\ LET o == handler.agg[2]
       IN  IF rows.offer[o].status = "none"
             THEN Consume /\ early' = early \cup {o} /\ UNCHANGED rows
             ELSE /\ rows' = [rows EXCEPT !.offer[o].available = handler.event.available]
                  /\ handler' = [handler EXCEPT !.at = "refresh"]
                  /\ early' = early \ {o}
                  /\ UNCHANGED <<queue, outdated>>
    /\ UNCHANGED <<catalogSide, docs, view, active, stats, jobSide, lagging, recent, missed,
                   overtaken, faults>>

IndexSeller ==
    /\ handler.at = "write" /\ handler.event.name = "seller"
    /\ rows' = [rows EXCEPT !.sells = IF handler.event.sells THEN @ \cup {handler.agg[2]}
                                                              ELSE @ \ {handler.agg[2]}]
    /\ handler' = [handler EXCEPT !.at = "refresh"]
    /\ UNCHANGED <<catalogSide, queue, docs, view, active, stats, jobSide, notes, faults>>

RefreshStats ==
    /\ handler.at = "refresh"
    /\ LET id == handler.agg[2]
       IN  CASE handler.agg[1] = "product" -> RefreshProduct(id)
             [] handler.agg[1] \in {"offer", "stock"} -> RefreshProduct(ProductOf[id])
             [] handler.agg[1] = "seller" -> RefreshSeller(id)
    /\ Consume
    /\ UNCHANGED <<catalogSide, docs, view, active, rows, jobSide, lagging, recent, missed,
                   overtaken, early, faults>>

(* A statement fails, and the relay records it: the event has to wait, and *)
(* with it the later ones of its aggregate that are in the batch.          *)
HandlerFails ==
    /\ handler.at # "idle" /\ faults < MaxFaults
    /\ \E last \in handler.nth .. Len(queue[handler.agg]) :
          queue' = [queue EXCEPT ![handler.agg] = [m \in DOMAIN @ |->
                       IF m \in handler.nth .. last THEN [@[m] EXCEPT !.failed = TRUE] ELSE @[m]]]
    /\ handler' = Idle
    /\ faults' = faults + 1
    /\ UNCHANGED <<catalogSide, indexSide, jobSide, notes>>

(* The process stops before it has recorded anything.                      *)
RelayStops ==
    /\ handler.at # "idle" /\ faults < MaxFaults
    /\ handler' = Idle
    /\ faults' = faults + 1
    /\ UNCHANGED <<catalogSide, queue, indexSide, jobSide, notes>>

-----------------------------------------------------------------------------
(* RequestReindex: three statements.                                       *)

HasUnfinished(r) ==
    /\ request[r].at = "idle"
    /\ \A j \in ReindexJobs : job[j].status \notin {"pending", "running"}
    /\ request' = [request EXCEPT ![r].at = "target"]
    /\ UNCHANGED <<catalogSide, queue, indexSide, job, run, handler, notes, faults>>

ReadTarget(r) ==
    /\ request[r].at = "target"
    /\ request' = [request EXCEPT ![r].at = "create", ![r].target = InactiveTable]
    /\ UNCHANGED <<catalogSide, queue, indexSide, job, run, handler, notes, faults>>

CreateJob(r) ==
    /\ request[r].at = "create"
    /\ \E j \in ReindexJobs :
          /\ job[j].status = "none"
          /\ job' = [job EXCEPT ![j] = [status |-> "pending", target |-> request[r].target]]
    /\ request' = [request EXCEPT ![r] = [at |-> "idle", target |-> None]]
    /\ UNCHANGED <<catalogSide, queue, indexSide, run, handler, notes, faults>>

-----------------------------------------------------------------------------
(* RunReindex, in one process at a time.                                   *)

Target == job[run.job].target

Claim(j) ==
    /\ run.at = "idle" /\ job[j].status = "pending"
    /\ job' = [job EXCEPT ![j].status = "running"]
    /\ run' = [Rests EXCEPT !.at = "truncate", !.job = j]
    /\ \E late \in SUBSET Changes : Cardinality(late) <= MaxLagging /\ lagging' = late
    /\ recent' = {} /\ missed' = {} /\ overtaken' = FALSE
    /\ UNCHANGED <<catalogSide, queue, indexSide, request, handler, outdated, early, faults>>

TruncateTarget ==
    /\ run.at = "truncate"
    /\ Truncate(Target)
    /\ run' = [run EXCEPT !.at = "scan"]
    /\ UNCHANGED <<catalogSide, queue, view, active, rows, stats, job, request, handler, notes,
                   faults>>

(* The feed: the next published products in the order of their ids; in the *)
(* second round those updated since the job has started.                   *)
Feed == {p \in published : p > run.after /\ (run.second => p \in recent)}

RECURSIVE FirstOf(_, _)
FirstOf(ids, n) ==
    IF n = 0 \/ ids = {} THEN <<>>
    ELSE LET p == CHOOSE x \in ids : \A y \in ids : x <= y
         IN  <<[id |-> p, cover |-> cover[p]]>> \o FirstOf(ids \ {p}, n - 1)

ScanPublished ==
    /\ run.at = "scan"
    /\ LET batch == FirstOf(Feed, FeedBatch)
       IN  run' = IF batch # <<>> THEN [run EXCEPT !.at = "save", !.batch = batch]
                  ELSE [run EXCEPT !.at = IF run.second THEN "finish" ELSE "swap"]
    /\ UNCHANGED <<catalogSide, queue, indexSide, job, request, handler, notes, faults>>

(* The documents of a batch are saved one by one.                          *)
SaveNext ==
    /\ run.at = "save"
    /\ LET next == Head(run.batch)
       IN  /\ SaveDocument(Target, next.id, next.cover)
           /\ run' = [run EXCEPT !.batch = Tail(@), !.after = next.id,
                                 !.at = IF Len(run.batch) = 1 THEN "scan" ELSE "save"]
    /\ UNCHANGED <<catalogSide, queue, view, active, rows, stats, job, request, handler, notes,
                   faults>>

SwapView ==
    /\ run.at = "swap"
    /\ view' = Target
    /\ run' = [run EXCEPT !.at = "state"]
    /\ UNCHANGED <<catalogSide, queue, docs, active, rows, stats, job, request, handler, notes,
                   faults>>

(* Faulty: what has changed since the start is not copied again.           *)
SwapForGood ==
    /\ run.at = "state"
    /\ active' = Target
    /\ run' = [run EXCEPT !.at = "finish"]
    /\ UNCHANGED <<catalogSide, queue, docs, view, rows, stats, job, request, handler, notes,
                   faults>>

SwapState ==
    /\ run.at = "state"
    /\ active' = Target
    /\ run' = [run EXCEPT !.at = "scan", !.second = TRUE, !.after = 0]
    /\ UNCHANGED <<catalogSide, queue, docs, view, rows, stats, job, request, handler, notes,
                   faults>>

FinishJob(status) ==
    /\ job' = [job EXCEPT ![run.job].status = status]
    /\ run' = Rests

Finish ==
    /\ run.at = "finish"
    /\ FinishJob("completed")
    /\ UNCHANGED <<catalogSide, queue, indexSide, request, handler, notes, faults>>

(* A statement fails: the job has failed.                                  *)
Fail ==
    /\ run.at \notin {"idle", "finish"} /\ faults < MaxFaults
    /\ FinishJob("failed")
    /\ faults' = faults + 1
    /\ UNCHANGED <<catalogSide, queue, indexSide, request, handler, notes>>

(* The process stops: the job is said to be running, and nobody runs it.   *)
Crash ==
    /\ run.at # "idle" /\ faults < MaxFaults
    /\ run' = Rests
    /\ faults' = faults + 1
    /\ UNCHANGED <<catalogSide, queue, indexSide, job, request, handler, notes>>

Shown == {p \in Products : docs[view][p] # NoDocument}

-----------------------------------------------------------------------------
Handle == ActiveTable \/ IndexProduct \/ SetProductCover \/ IndexOffer \/ IndexStock
              \/ IndexSeller \/ RefreshStats
Rebuild == TruncateTarget \/ ScanPublished \/ SaveNext \/ SwapView \/ SwapState \/ Finish

Next ==
    \/ \E p \in Products : Publish(p) \/ MarkProcessed(p)
    \/ \E o \in Offers : \/ \E s \in {"active", "paused"} : ChangeOffer(o, s)
                         \/ \E n \in 0 .. 1 : ChangeStock(o, n)
    \/ \E s \in Sellers : ChangeSeller(s)
    \/ \E agg \in Aggregates, n \in 1 .. MaxEvents : Deliver(agg, n)
    \/ Handle \/ HandlerFails \/ RelayStops
    \/ \E r \in Requests : HasUnfinished(r) \/ ReadTarget(r) \/ CreateJob(r)
    \/ \E j \in ReindexJobs : Claim(j)
    \/ Rebuild \/ Fail \/ Crash

Spec == Init /\ [][Next]_searchVars

-----------------------------------------------------------------------------
(* Once the events are consumed and every rebuild has completed, a search  *)
(* shows each published product, although handlers went on writing to the  *)
(* table they had found active; and it shows the right cover, unless a     *)
(* batch was overtaken or the product's events were consumed out of order. *)
(* Not so a product of which a change took its time before the rebuild     *)
(* began and committed after it: both rounds of the rebuild may miss it.   *)
Settled == handler.at = "idle" /\ \A a \in Aggregates : queue[a] = <<>>

IndexCatchesUp ==
    Settled /\ (\A j \in ReindexJobs : job[j].status \in {"none", "completed"}) =>
        \A p \in published \ missed :
            /\ p \in Shown
            /\ ~overtaken /\ <<"product", p>> \notin outdated => docs[view][p] = cover[p]

(* Once the events are consumed, the figures of a product are those of the *)
(* offers in stock of sellers who may sell, but for offers whose stock was *)
(* announced before search knew of them, and for what a retried event has  *)
(* set back, of an offer, its stock or its seller.                         *)
FiguresAgree ==
    Settled => \A p \in Products :
        (\A o \in Offers : ProductOf[o] = p =>
            /\ o \notin early
            /\ {<<"offer", o>>, <<"stock", o>>, <<"seller", SellerOf[o]>>} \cap outdated = {})
        => stats[p] = Figures(p, [offer |-> shop, sells |-> sells])

(* A rebuild takes nothing from the results: a product that has not        *)
(* changed since the rebuild began is found throughout.                    *)
KeepsResults == Shown \ (recent \cup missed) \subseteq Shown'
NoDowntime == [][KeepsResults]_searchVars
=============================================================================
